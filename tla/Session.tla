------------------------------ MODULE Session ------------------------------
(***************************************************************************)
(* One end of an NCP session (src/src/session.rs), driven by its owner,    *)
(* who calls its operations and passes packets to receive_with, as main.rs *)
(* does.  receive_with and dial borrow the session exclusively; get_send_  *)
(* seq may run while a shared call is blocked.                             *)
(*                                                                         *)
(* A call that waits for what only an exclusive call could bring about     *)
(* never returns: the owner is then "stuck".  Data is abstracted to its    *)
(* length, a window to the set of sequence ids that have data.             *)
(***************************************************************************)
EXTENDS NcpSeq, Sequences

CONSTANTS
    Packets,      \* the packets receive_with may get
    WriteSizes,   \* lengths of the buffers passed to write
    LocalIds,     \* local_client_ids.len()
    InitWindow,   \* send_window_size and recv_window_size of a new session
    InitMtu,      \* config.mtu
    BufferLen,    \* length of send_buffer, an array
    MaxBytes      \* bound: bytes written

ASSUME SessionAssumption ==
    /\ LocalIds \in Nat /\ MaxBytes \in Nat /\ WriteSizes \subseteq Nat
    /\ InitWindow \in Nat \ {0} /\ InitMtu \in Nat \ {0} /\ BufferLen \in Nat

\* What the decoder yields for the unsigned fields of a packet.
ASSUME PacketsAssumption ==
    \A p \in Packets :
        /\ p.window \in Nat /\ p.mtu \in Nat /\ p.ids \in Nat
        /\ p.bytes_read \in Nat /\ p.seq \in 0 .. MaxSeq /\ p.len \in Nat
        /\ p.starts \in Seq(0 .. MaxSeq) /\ p.counts \in Seq(Nat)

VARIABLES
    owner,          \* "ready" for the next call, in a blocked flush_send_buffer
                    \* ("flushing"), or how the last call ended
    accepted, established, closed,
    send_window_size, send_mtu,
    connections,    \* number of connections
    send_window_start_seq, send_window_end_seq,
    send_window_data,     \* sequence ids that have data
    recv_window_start_seq,
    recv_window_data,     \* likewise
    recv_window_used,
    bytes_write, remote_bytes_read,
    send_chan,      \* bounded(1)
    taken,          \* the id got from get_send_seq and not yet used, or 0
    window_update,  \* send_window_update, bounded(1): number of items
    ack_queue,      \* sequence ids the connections are to acknowledge
    peer            \* history: window and mtu of the accepted handshake

stateVars == <<accepted, established, closed>>
sizeVars == <<send_window_size, send_mtu, connections, peer>>
sendVars == <<send_window_start_seq, send_window_end_seq, send_window_data,
              send_chan, taken, bytes_write>>
ackVars == <<remote_bytes_read, window_update>>
recvVars == <<recv_window_start_seq, recv_window_data, recv_window_used, ack_queue>>
vars == <<owner, stateVars, sizeVars, sendVars, ackVars, recvVars>>

TypeOK ==
    /\ owner \in {"ready", "flushing", "stuck", "panicked", "read_panicked"}
    /\ accepted \in BOOLEAN /\ established \in BOOLEAN /\ closed \in BOOLEAN
    /\ send_window_size \in 1 .. InitWindow
    /\ send_mtu \in 1 .. InitMtu
    /\ connections \in 0 .. LocalIds
    /\ send_window_start_seq \in SeqIds /\ send_window_end_seq \in SeqIds
    /\ send_window_data \subseteq SeqIds
    /\ recv_window_start_seq \in SeqIds
    /\ recv_window_data \subseteq SeqIds
    /\ recv_window_used \in 0 .. InitWindow
    /\ bytes_write \in 0 .. MaxBytes
    /\ remote_bytes_read \in Nat
    /\ send_chan \in Seq(SeqIds) /\ Len(send_chan) <= 1
    /\ taken \in SeqIds \cup {0}
    /\ window_update \in 0 .. 1
    /\ ack_queue \subseteq SeqIds
    /\ peer \in [window : Nat, mtu : Nat]

Init ==
    /\ owner = "ready"
    /\ accepted = FALSE /\ established = FALSE /\ closed = FALSE
    /\ send_window_size = InitWindow /\ send_mtu = InitMtu /\ connections = 0
    /\ send_window_start_seq = MinSeq /\ send_window_end_seq = MinSeq
    /\ send_window_data = {} /\ send_chan = <<>> /\ taken = 0
    /\ recv_window_start_seq = MinSeq /\ recv_window_data = {}
    /\ recv_window_used = 0 /\ ack_queue = {}
    /\ bytes_write = 0 /\ remote_bytes_read = 0 /\ window_update = 0
    /\ peer = [window |-> 0, mtu |-> 0]

-----------------------------------------------------------------------------
(* Calls of the owner *)

\* send_handshake_packet: send_with is expect()ed to succeed.
SendHandshakePacket == owner' \in {"ready", "panicked"}

\* dial and accept: the first of them sends the handshake.
Dial ==
    /\ owner = "ready"
    /\ ~accepted
    /\ accepted' = TRUE
    /\ SendHandshakePacket
    /\ UNCHANGED <<established, closed, sizeVars, sendVars, ackVars, recvVars>>

\* send_window_used
SendWindowUsed ==
    IF bytes_write > remote_bytes_read THEN bytes_write - remote_bytes_read ELSE 0

\* write's early returns.
Writable(n) ==
    /\ established
    /\ ~closed
    /\ n > 0
    /\ n <= send_mtu
    /\ n <= send_window_size

\* flush_send_buffer: the buffer, whatever is in it and always BufferLen bytes
\* long, becomes the packet with the next sequence id; a full send_chan blocks it.
FlushSendBuffer ==
    /\ send_window_data' = send_window_data \cup {send_window_end_seq}
    /\ send_window_end_seq' = NextSeq(send_window_end_seq, 1)
    /\ send_chan' = IF send_chan = <<>> THEN <<send_window_end_seq>> ELSE send_chan
    /\ owner' = IF send_chan = <<>> THEN "ready" ELSE "flushing"
    /\ UNCHANGED <<send_window_start_seq, taken>>

\* The condition wait_for_send_window waits for; only receive_with, which
\* needs the session for itself, can bring it about.
WindowHasRoom(n) == SendWindowUsed + n <= send_window_size

\* Variant: write does not wait for the window.
WriteAtOnce(n) ==
    /\ owner = "ready"
    /\ bytes_write + n <= MaxBytes
    /\ Writable(n)
    /\ bytes_write' = bytes_write + n
    /\ FlushSendBuffer
    /\ UNCHANGED <<stateVars, sizeVars, ackVars, recvVars>>

\* write in a session that is not a stream: wait_for_send_window, then copy,
\* which panics beyond the end of the buffer, and flush.
Write(n) ==
    /\ owner = "ready"
    /\ bytes_write + n <= MaxBytes
    /\ Writable(n)
    /\ \/ /\ ~WindowHasRoom(n)
          /\ owner' = "stuck"
          /\ UNCHANGED sendVars
       \/ /\ WindowHasRoom(n)
          /\ n > BufferLen
          /\ owner' = "panicked"
          /\ UNCHANGED sendVars
       \/ /\ WindowHasRoom(n)
          /\ n <= BufferLen
          /\ bytes_write' = bytes_write + n
          /\ FlushSendBuffer
    /\ UNCHANGED <<stateVars, sizeVars, ackVars, recvVars>>

\* flush_send_buffer as a call: the buffer is an array and never empty.
Flush ==
    /\ owner = "ready"
    /\ FlushSendBuffer
    /\ UNCHANGED <<bytes_write, stateVars, sizeVars, ackVars, recvVars>>

\* get_send_seq, which lets a blocked flush put its id, the last one, in turn.
GetSendSeq ==
    /\ owner \in {"ready", "flushing"}
    /\ send_chan # <<>>
    /\ taken = 0
    /\ taken' = Head(send_chan)
    /\ send_chan' = IF owner = "flushing" THEN <<NextSeq(send_window_end_seq, -1)>>
                    ELSE <<>>
    /\ owner' = "ready"
    /\ UNCHANGED <<stateVars, sizeVars, send_window_start_seq, send_window_end_seq,
                   send_window_data, bytes_write, ackVars, recvVars>>

\* get_data_to_send: unwraps what the window has for the id.
GetDataToSend ==
    /\ owner = "ready"
    /\ taken # 0
    /\ taken' = 0
    /\ owner' = IF taken \in send_window_data THEN "ready" ELSE "panicked"
    /\ UNCHANGED <<stateVars, sizeVars, send_window_start_seq, send_window_end_seq,
                   send_window_data, send_chan, bytes_write, ackVars, recvVars>>

\* read: with data at the start of the window it returns at once, with none
\* it waits for a second and unwraps what is there.
Read ==
    /\ owner = "ready"
    /\ established /\ ~closed
    /\ owner' = IF recv_window_start_seq \in recv_window_data
                THEN "ready" ELSE "read_panicked"
    /\ UNCHANGED <<stateVars, sizeVars, sendVars, ackVars, recvVars>>

\* send_close_packet: select_ok of no futures panics, after the packet left.
SendClosePacket ==
    /\ owner = "ready"
    /\ established
    /\ owner' = "panicked"
    /\ UNCHANGED <<stateVars, sizeVars, sendVars, ackVars, recvVars>>

-----------------------------------------------------------------------------
(* receive_with *)

ReceiveClose(p) ==
    /\ p.close
    /\ closed' = (closed \/ established)
    /\ UNCHANGED <<owner, accepted, established, sizeVars, sendVars, ackVars, recvVars>>

Smaller(a, b) == IF a < b THEN a ELSE b

\* handle_handshake_packet: the window, then the mtu, then the client ids; a
\* packet that fails one test has already lowered what came before it.
HandshakeStage(p) ==
    CASE p.window = 0 -> 0
      [] p.window > 0 /\ p.mtu = 0 -> 1
      [] p.window > 0 /\ p.mtu > 0 /\ p.ids = 0 -> 2
      [] OTHER -> 3

\* Variant: a session that is established takes another handshake.
ReceiveHandshakeAgain(p) ==
    /\ ~p.close
    /\ p.handshake
    /\ HandshakeStage(p) = 3
    /\ send_window_size' = Smaller(p.window, send_window_size)
    /\ send_mtu' = Smaller(p.mtu, send_mtu)
    /\ established' = TRUE
    /\ connections' = Smaller(LocalIds, p.ids)
    /\ peer' = [window |-> p.window, mtu |-> p.mtu]
    /\ UNCHANGED <<owner, accepted, closed, sendVars, ackVars, recvVars>>

ReceiveHandshake(p) ==
    /\ ~p.close
    /\ ~established
    /\ p.handshake
    /\ send_window_size' = IF HandshakeStage(p) >= 1
                           THEN Smaller(p.window, send_window_size)
                           ELSE send_window_size
    /\ send_mtu' = IF HandshakeStage(p) >= 2 THEN Smaller(p.mtu, send_mtu) ELSE send_mtu
    /\ IF HandshakeStage(p) = 3
       THEN /\ established' = TRUE
            /\ connections' = Smaller(LocalIds, p.ids)
            /\ peer' = [window |-> p.window, mtu |-> p.mtu]
       ELSE UNCHANGED <<established, connections, peer>>
    /\ UNCHANGED <<owner, accepted, closed, sendVars, ackVars, recvVars>>

\* How many acks are looked at: none unless both lists are given, and then
\* they have one length.  The i-th covers the ids from AckStart, without AckEnd.
AckCount(p) == IF p.counts # <<>> THEN Len(p.starts) ELSE 0
AckStart(p, i) == p.starts[i]
AckEnd(p, i) == NextSeq(AckStart(p, i), p.counts[i])

\* The first j for which a loop over ids from seq on stops.
FirstStop(P(_)) == CHOOSE j \in 0 .. MaxSeq : P(j) /\ \A k \in 0 .. j - 1 : ~P(k)

\* while seq_in_between(ack_start_seq, ack_end_seq, seq) { remove(seq); .. },
\* from seq = ack_start_seq on, which may be 0 and no id.
Removed(start, end) ==
    LET seq(j) == IF j = 0 THEN start ELSE NextSeq(start, j)
        stop == FirstStop(LAMBDA j : ~SeqInBetween(start, end, seq(j)))
    IN  {seq(j) : j \in 0 .. stop - 1}

\* loop { start = next; if !contains_key(start) || start == end { break } }
Advance(start, data) ==
    NextSeq(start, 1 + FirstStop(LAMBDA j :
        LET s == NextSeq(start, 1 + j) IN s \notin data \/ s = send_window_end_seq))

\* One ack, applied to the start of the window and its data.
ApplyAck(w, start, end) ==
    LET first == IF SeqInBetween(w.start, send_window_end_seq, start)
                 THEN start ELSE w.start
        data == w.data \ Removed(first, end)
    IN  IF SeqInBetween(w.start, send_window_end_seq, NextSeq(end, -1))
        THEN [start |-> IF first = w.start THEN Advance(w.start, data) ELSE w.start,
              data  |-> data]
        ELSE w

\* for i in 0..count
AppliedAcks(p) ==
    LET w[i \in 0 .. AckCount(p)] ==
            IF i = 0 THEN [start |-> send_window_start_seq, data |-> send_window_data]
            ELSE ApplyAck(w[i - 1], AckStart(p, i), AckEnd(p, i))
    IN  w[AckCount(p)]

AcksMismatch(p) ==
    p.starts # <<>> /\ p.counts # <<>> /\ Len(p.starts) # Len(p.counts)

\* send_window_update.0.send(()) blocks on a window update nobody took.
StopsAtBytesRead(p) == p.bytes_read > remote_bytes_read /\ window_update = 1

\* The data part: accepted if the window already holds the id, acknowledged
\* in any case, on the connection it came from.
Fits(p) == recv_window_used + p.len <= InitWindow
Stored(p) ==
    /\ CompareSeq(p.seq, recv_window_start_seq) >= 0
    /\ p.seq \in recv_window_data

\* A packet of an established session: acks, bytes_read and data in turn.
ReceiveEstablished(p) ==
    LET w == AppliedAcks(p)
        data == p.seq > 0 /\ ~StopsAtBytesRead(p) /\ p.len <= InitMtu
    IN  /\ ~p.close
        /\ established
        /\ ~AcksMismatch(p)
        /\ send_window_start_seq' = w.start
        /\ send_window_data' = w.data
        /\ remote_bytes_read' = IF p.bytes_read > remote_bytes_read
                                THEN p.bytes_read ELSE remote_bytes_read
        /\ window_update' = IF p.bytes_read > remote_bytes_read THEN 1 ELSE window_update
        /\ owner' = IF StopsAtBytesRead(p) THEN "stuck" ELSE "ready"
        /\ recv_window_data' = IF data /\ Stored(p) /\ Fits(p)
                               THEN recv_window_data \cup {p.seq} ELSE recv_window_data
        /\ recv_window_used' = IF data /\ Stored(p) /\ Fits(p)
                               THEN recv_window_used + p.len ELSE recv_window_used
        /\ ack_queue' = IF data /\ (Stored(p) => Fits(p)) /\ p.known
                        THEN ack_queue \cup {p.seq} ELSE ack_queue
        /\ UNCHANGED <<stateVars, sizeVars, send_window_end_seq, send_chan,
                       taken, bytes_write, recv_window_start_seq>>

\* Packet::decode(buf).unwrap()
ReceiveGarbled(p) ==
    /\ p.garbled
    /\ owner' = "panicked"
    /\ UNCHANGED <<stateVars, sizeVars, sendVars, ackVars, recvVars>>

ReceiveWith(p) ==
    /\ owner = "ready"
    /\ ~p.big
    /\ \/ ReceiveGarbled(p)
       \/ /\ ~p.garbled
          /\ ReceiveClose(p) \/ ReceiveHandshake(p) \/ ReceiveEstablished(p)

-----------------------------------------------------------------------------
Next ==
    \/ Dial \/ Flush \/ GetSendSeq \/ GetDataToSend \/ Read \/ SendClosePacket
    \/ \E n \in WriteSizes : Write(n)
    \/ \E p \in Packets : ReceiveWith(p)

Spec == Init /\ [][Next]_vars

-----------------------------------------------------------------------------
(* Properties *)

\* The bytes written and not yet reported as read by the peer never exceed
\* the window the peer announced in the handshake that was accepted, whatever
\* handshakes were rejected before and whatever packets follow it.  Written are
\* the bytes write counts: every packet carries BufferLen of them.
WindowIsRespected == established => SendWindowUsed <= peer.window

\* What the handshake settled stays: a second handshake, rejected or not,
\* changes neither the windows nor the connections of the session.
HandshakeIsFinal == [][established => UNCHANGED sizeVars]_vars

\* receive_with passes (start, end, target) to seq_in_between, as the commented
\* declaration of utils.rs:258 has it, which takes (seq, start, end): acks move
\* the start of the send window, but nothing ever leaves it, so that memory
\* grows with what was sent and an id that wraps finds the data of its
\* predecessor.
AcksRemoveNothing == [][send_window_data \subseteq send_window_data']_vars

-----------------------------------------------------------------------------
(* What the code says of itself, and what does not hold *)

\* recv_window_data.get(&recv_window_start_seq).unwrap() in read: there is
\* data at the start of the window, at the latest when the packet with that id
\* was received and is about to be acknowledged.
ReadFindsData == owner = "read_panicked" => recv_window_start_seq \notin ack_queue
=============================================================================
