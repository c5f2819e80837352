--------------------------- MODULE SessionProofs ---------------------------
(***************************************************************************)
(* Proofs about the sequence ids (NcpSeq), the loops of receive_with and   *)
(* the windows of a session, for every size of the windows and every set   *)
(* of packets.                                                             *)
(***************************************************************************)
EXTENDS Session, WellFoundedInduction, TLAPS

-----------------------------------------------------------------------------
(* Sequence ids *)

\* next_seq returns a sequence id, whatever the step, negative ones included:
\* it never returns the 0 that tx takes for "no id".
LEMMA NextIsAnId ==
    ASSUME NEW seq \in SeqIds, NEW step \in Int
    PROVE  NextSeq(seq, step) \in SeqIds
<1>1. (seq - MinSeq + step) % MaxSeq \in 0 .. MaxSeq - 1
  BY MaxSeqAssumption DEF MinSeq, SeqIds
<1>2. QED
  BY <1>1, MaxSeqAssumption DEF NextSeq, MinSeq, SeqIds

\* Within half of the id space next_seq moves forward in the order of
\* compare_seq, across the wrap from u32::MAX to 1 as well.
THEOREM NextIsAhead ==
    ASSUME NEW seq \in SeqIds, NEW step \in Nat, step > 0, step < MaxSeq \div 2
    PROVE  CompareSeq(NextSeq(seq, step), seq) = 1
<1> DEFINE half == MaxSeq \div 2
<1>1. half \in Nat /\ 2 * half <= MaxSeq
  BY MaxSeqAssumption
<1>2. CASE seq + step <= MaxSeq
  <2>1. NextSeq(seq, step) = seq + step
    <3>1. seq - MinSeq + step \in 0 .. MaxSeq - 1
      BY <1>2, MaxSeqAssumption DEF MinSeq, SeqIds
    <3>2. (seq - MinSeq + step) % MaxSeq = seq - MinSeq + step
      BY <3>1, MaxSeqAssumption
    <3>3. QED
      BY <3>2, MaxSeqAssumption DEF NextSeq, MinSeq, SeqIds
  <2>2. QED
    BY <2>1, MaxSeqAssumption DEF CompareSeq, SeqIds, MinSeq
<1>3. CASE seq + step > MaxSeq
  <2>1. NextSeq(seq, step) = seq + step - MaxSeq
    <3> DEFINE r == seq - MinSeq + step - MaxSeq
    <3>1. r \in 0 .. MaxSeq - 1
      BY <1>1, <1>3, MaxSeqAssumption DEF MinSeq, SeqIds
    <3>2. seq - MinSeq + step = r + MaxSeq
      BY MaxSeqAssumption DEF MinSeq, SeqIds
    <3>3. (r + MaxSeq) % MaxSeq = r
      BY <3>1, MaxSeqAssumption
    <3>4. QED
      BY <3>2, <3>3, MaxSeqAssumption DEF NextSeq, MinSeq, SeqIds
  <2>2. seq + step - MaxSeq < seq /\ seq - (seq + step - MaxSeq) >= half
    BY <1>1, MaxSeqAssumption DEF MinSeq, SeqIds
  <2>3. QED
    BY <2>1, <2>2, <1>1, MaxSeqAssumption DEF CompareSeq, SeqIds, MinSeq
<1>4. QED
  BY <1>2, <1>3, MaxSeqAssumption DEF SeqIds, MinSeq

\* Every id is reached from every other by steps forward.
LEMMA EveryIdIsReached ==
    ASSUME NEW seq \in SeqIds, NEW target \in SeqIds
    PROVE  \E j \in 0 .. MaxSeq : NextSeq(seq, 1 + j) = target
<1>1. CASE target > seq
  <2> DEFINE j == target - seq - 1
  <2>1. j \in 0 .. MaxSeq /\ seq - MinSeq + (1 + j) = target - MinSeq
    BY <1>1, MaxSeqAssumption DEF SeqIds, MinSeq
  <2>2. (target - MinSeq) % MaxSeq = target - MinSeq
    BY MaxSeqAssumption DEF SeqIds, MinSeq
  <2>3. NextSeq(seq, 1 + j) = target
    BY <2>1, <2>2, MaxSeqAssumption DEF NextSeq, SeqIds, MinSeq
  <2>4. QED
    BY <2>1, <2>3
<1>2. CASE target <= seq
  <2> DEFINE j == target - seq - 1 + MaxSeq
             r == target - MinSeq
  <2>1. j \in 0 .. MaxSeq /\ r \in 0 .. MaxSeq - 1 /\ seq - MinSeq + (1 + j) = r + MaxSeq
    BY <1>2, MaxSeqAssumption DEF SeqIds, MinSeq
  <2>2. (r + MaxSeq) % MaxSeq = r
    BY <2>1, MaxSeqAssumption
  <2>3. NextSeq(seq, 1 + j) = target
    BY <2>1, <2>2, MaxSeqAssumption DEF NextSeq, SeqIds, MinSeq
  <2>4. QED
    BY <2>1, <2>3
<1>3. QED
  BY <1>1, <1>2 DEF SeqIds

-----------------------------------------------------------------------------
(* Loops *)

\* An inhabited set of natural numbers has a least element: where a loop with
\* a condition that fails somewhere stops.
LEMMA Least ==
    ASSUME NEW T, T \subseteq Nat, T # {}
    PROVE  \E n \in T : \A m \in T : n <= m
<1>1. IsWellFoundedOn(OpToRel(<, Nat), Nat)
  BY NatLessThanWellFounded
<1>2. PICK n \in T : \A m \in T : ~ (<<m, n>> \in OpToRel(<, Nat))
  BY <1>1, WFMin
<1>3. \A m \in T : ~(m < n)
  BY <1>2 DEF OpToRel
<1>4. QED
  BY <1>3

\* Induction over the natural numbers, for a set.
LEMMA Induction ==
    ASSUME NEW T, T \subseteq Nat, 0 \in T, \A n \in T : n + 1 \in T
    PROVE  T = Nat
<1> SUFFICES ASSUME Nat \ T # {} PROVE FALSE
  OBVIOUS
<1>1. PICK n \in Nat \ T : \A m \in Nat \ T : n <= m
  BY Least
<1>2. n - 1 \in T
  BY <1>1
<1>3. QED
  BY <1>2

\* g holds the values of a loop of k turns over S, from a on, whose i-th turn
\* is F[<<value, i>>].
Iterates(g, S, a, k, F) ==
    /\ g \in [0 .. k -> S]
    /\ g[0] = a
    /\ \A i \in 1 .. k : g[i] = F[<<g[i - 1], i>>]

\* A loop of n turns has such values.
LEMMA LoopHasValues ==
    ASSUME NEW S, NEW a \in S, NEW n \in Nat, NEW F \in [S \X (1 .. n) -> S]
    PROVE  \E g : Iterates(g, S, a, n, F)
<1> DEFINE T == {k \in Nat : k <= n => \E g : Iterates(g, S, a, k, F)}
<1>1. 0 \in T
  <2>1. Iterates([i \in 0 .. 0 |-> a], S, a, 0, F)
    BY DEF Iterates
  <2>2. QED
    BY <2>1
<1>2. ASSUME NEW k \in T PROVE k + 1 \in T
  <2> SUFFICES ASSUME k + 1 <= n PROVE \E g : Iterates(g, S, a, k + 1, F)
    OBVIOUS
  <2>1. PICK g : Iterates(g, S, a, k, F)
    BY <1>2
  <2> DEFINE h == [i \in 0 .. k + 1 |-> IF i <= k THEN g[i] ELSE F[<<g[k], k + 1>>]]
  <2>2. F[<<g[k], k + 1>>] \in S
    BY <2>1 DEF Iterates
  <2>3. h \in [0 .. k + 1 -> S] /\ h[0] = a
    BY <2>1, <2>2 DEF Iterates
  <2>4. ASSUME NEW i \in 1 .. k + 1 PROVE h[i] = F[<<h[i - 1], i>>]
    <3>1. h[i - 1] = g[i - 1]
      OBVIOUS
    <3>2. CASE i <= k
      BY <3>1, <3>2, <2>1 DEF Iterates
    <3>3. CASE i = k + 1
      BY <3>1, <3>3
    <3>4. QED
      BY <3>2, <3>3
  <2>5. Iterates(h, S, a, k + 1, F)
    <3> HIDE DEF h
    <3> QED
      BY <2>3, <2>4 DEF Iterates
  <2>6. QED
    BY <2>5
<1>3. T = Nat
  <2> HIDE DEF T
  <2>1. T \subseteq Nat
    BY DEF T
  <2>2. QED
    BY <1>1, <1>2, <2>1, Induction
<1>4. QED
  BY <1>3

-----------------------------------------------------------------------------
(* Acknowledgements *)

\* The loop of receive_with over the ids of an ack, which calls
\* seq_in_between(ack_start_seq, ack_end_seq, seq) with seq = ack_start_seq,
\* ends before its first turn, whatever the ack: an ack removes nothing.
THEOREM AckLoopNeverTurns ==
    ASSUME NEW start \in 0 .. MaxSeq, NEW end \in SeqIds
    PROVE  ~SeqInBetween(start, end, start) /\ Removed(start, end) = {}
<1> DEFINE seq(j) == IF j = 0 THEN start ELSE NextSeq(start, j)
           Stops(j) == ~SeqInBetween(start, end, seq(j))
           First(j) == Stops(j) /\ \A k \in 0 .. j - 1 : ~Stops(k)
           stop == CHOOSE j \in 0 .. MaxSeq : First(j)
<1>1. ~SeqInBetween(start, end, start)
  BY MaxSeqAssumption DEF SeqInBetween, SeqIds, MinSeq
<1>2. Stops(0) /\ 0 \in 0 .. MaxSeq
  BY <1>1, MaxSeqAssumption
<1>3. First(0)
  BY <1>2
<1>4. \A j \in 0 .. MaxSeq : First(j) => j = 0
  BY <1>2
<1>5. stop = 0
  <2> HIDE DEF First
  <2> QED
    BY <1>2, <1>3, <1>4
<1>6. Removed(start, end) = {seq(j) : j \in 0 .. stop - 1}
  BY DEF Removed, FirstStop
<1>7. 0 .. stop - 1 = {}
  <2> HIDE DEF stop
  <2> QED
    BY <1>5
<1>8. Removed(start, end) = {}
  <2> HIDE DEF stop
  <2> QED
    BY <1>6, <1>7
<1>9. QED
  BY <1>1, <1>8

\* The loop that moves the start of the send window ends, at the latest at the
\* end of the window, and leaves an id.
LEMMA AdvanceIsAnId ==
    ASSUME NEW start \in SeqIds, NEW data, send_window_end_seq \in SeqIds
    PROVE  Advance(start, data) \in SeqIds
<1> DEFINE Stops(j) == LET s == NextSeq(start, 1 + j)
                       IN  s \notin data \/ s = send_window_end_seq
           First(j) == Stops(j) /\ \A k \in 0 .. j - 1 : ~Stops(k)
           T == {j \in 0 .. MaxSeq : Stops(j)}
           stop == CHOOSE j \in 0 .. MaxSeq : First(j)
<1>1. T # {}
  BY EveryIdIsReached
<1>2. PICK n \in T : \A m \in T : n <= m
  <2>1. T \subseteq Nat
    BY MaxSeqAssumption
  <2> HIDE DEF T
  <2>2. QED
    BY <1>1, <2>1, Least
<1>3. n \in 0 .. MaxSeq /\ First(n)
  BY <1>2, MaxSeqAssumption
<1>4. stop \in 0 .. MaxSeq
  <2> HIDE DEF First
  <2> QED
    BY <1>3
<1>5. Advance(start, data) = NextSeq(start, 1 + stop)
  BY DEF Advance, FirstStop
<1>6. 1 + stop \in Int
  BY <1>4, MaxSeqAssumption
<1>7. QED
  BY <1>5, <1>6, NextIsAnId

\* The start of a send window and the ids that have data.
Window == [start : SeqIds, data : SUBSET SeqIds]

\* One ack may move the start of the window and takes nothing out of it.
LEMMA AckKeepsData ==
    ASSUME NEW w \in Window, NEW start \in 0 .. MaxSeq, NEW end \in SeqIds,
           send_window_end_seq \in SeqIds
    PROVE  ApplyAck(w, start, end) \in Window /\ ApplyAck(w, start, end).data = w.data
<1> DEFINE first == IF SeqInBetween(w.start, send_window_end_seq, start)
                    THEN start ELSE w.start
           data == w.data \ Removed(first, end)
           moved == IF first = w.start THEN Advance(w.start, data) ELSE w.start
<1>1. w.start \in SeqIds /\ w.data \in SUBSET SeqIds
  BY DEF Window
<1>2. first \in 0 .. MaxSeq
  BY <1>1, MaxSeqAssumption DEF SeqIds, MinSeq
<1>3. data = w.data
  <2> HIDE DEF first
  <2> QED
    BY <1>2, AckLoopNeverTurns
<1>4. moved \in SeqIds
  BY <1>1, AdvanceIsAnId
<1>5. ApplyAck(w, start, end) = [start |-> moved, data |-> data] \/ ApplyAck(w, start, end) = w
  BY DEF ApplyAck
<1>6. QED
  <2> HIDE DEF first, data, moved
  <2> QED
    BY <1>1, <1>3, <1>4, <1>5 DEF Window

\* What a sequence over S holds is in S.
LEMMA ElementIsTyped ==
    ASSUME NEW S, NEW s \in Seq(S), NEW i \in 1 .. Len(s) PROVE s[i] \in S
  OBVIOUS

\* Nor do all the acks of a packet.
LEMMA AcksKeepData ==
    ASSUME NEW p \in Packets, ~AcksMismatch(p), send_window_start_seq \in SeqIds,
           send_window_end_seq \in SeqIds, send_window_data \subseteq SeqIds
    PROVE  /\ AppliedAcks(p).start \in SeqIds
           /\ AppliedAcks(p).data = send_window_data
<1> DEFINE n == AckCount(p)
           S == {w \in Window : w.data = send_window_data}
           a == [start |-> send_window_start_seq, data |-> send_window_data]
           F == [x \in S \X (1 .. n) |-> ApplyAck(x[1], AckStart(p, x[2]), AckEnd(p, x[2]))]
           Is(g) == g = [i \in 0 .. n |-> IF i = 0 THEN a
                         ELSE ApplyAck(g[i - 1], AckStart(p, i), AckEnd(p, i))]
<1>1. p.starts \in Seq(0 .. MaxSeq) /\ p.counts \in Seq(Nat)
  BY PacketsAssumption
<1>2. n \in Nat /\ (n # 0 => Len(p.starts) = n /\ Len(p.counts) = n)
  BY <1>1 DEF AckCount, AcksMismatch
<1>3. ASSUME NEW i \in 1 .. n
      PROVE  AckStart(p, i) \in 0 .. MaxSeq /\ AckEnd(p, i) \in SeqIds
  <2>1. p.starts[i] \in 0 .. MaxSeq /\ p.counts[i] \in Nat
    <3>1. i \in 1 .. Len(p.starts) /\ i \in 1 .. Len(p.counts)
      <4> HIDE DEF n
      <4> QED
        BY <1>2
    <3>2. QED
      BY <1>1, <3>1, ElementIsTyped
  <2>2. (p.starts[i] - MinSeq + p.counts[i]) % MaxSeq \in 0 .. MaxSeq - 1
    BY <2>1, MaxSeqAssumption DEF MinSeq
  <2>3. QED
    BY <2>1, <2>2, MaxSeqAssumption DEF AckStart, AckEnd, NextSeq, SeqIds, MinSeq
<1>4. ASSUME NEW w \in S, NEW i \in 1 .. n
      PROVE  ApplyAck(w, AckStart(p, i), AckEnd(p, i)) \in S
  BY <1>3, AckKeepsData
<1>5. a \in S
  BY DEF Window
<1>6. F \in [S \X (1 .. n) -> S]
  <2> HIDE DEF S
  <2> QED
    BY <1>4
<1>7. PICK g : Iterates(g, S, a, n, F)
  <2> HIDE DEF n, S, a, F
  <2> QED
    BY <1>2, <1>5, <1>6, LoopHasValues
<1>8. Is(g)
  <2> HIDE DEF n, S, a
  <2>1. ASSUME NEW i \in 1 .. n
        PROVE  g[i] = ApplyAck(g[i - 1], AckStart(p, i), AckEnd(p, i))
    <3>1. i - 1 \in 0 .. n /\ g[i - 1] \in S
      BY <1>2, <1>7 DEF Iterates
    <3>2. <<g[i - 1], i>> \in S \X (1 .. n)
      BY <3>1
    <3>3. F[<<g[i - 1], i>>] = ApplyAck(g[i - 1], AckStart(p, i), AckEnd(p, i))
      BY <3>2
    <3>4. QED
      BY <1>7, <3>3 DEF Iterates
  <2>2. QED
    BY <1>2, <1>7, <2>1 DEF Iterates
<1> DEFINE w == CHOOSE h : Is(h)
<1>9. Is(w)
  <2> HIDE DEF Is
  <2> QED
    BY <1>8
<1>10. \A i \in 0 .. n : w[i] \in S
  <2> DEFINE T == {i \in Nat : i <= n => w[i] \in S}
  <2> HIDE DEF w, n, S, a
  <2>1. 0 \in T
    BY <1>2, <1>5, <1>9
  <2>2. ASSUME NEW i \in T PROVE i + 1 \in T
    <3> SUFFICES ASSUME i + 1 <= n PROVE w[i + 1] \in S
      OBVIOUS
    <3>1. w[i] \in S
      BY <1>2
    <3>2. w[i + 1] = ApplyAck(w[i], AckStart(p, i + 1), AckEnd(p, i + 1))
      BY <1>2, <1>9
    <3>3. i + 1 \in 1 .. n
      BY <1>2
    <3>4. QED
      BY <1>4, <3>1, <3>2, <3>3
  <2>3. T = Nat
    <3>1. T \subseteq Nat
      OBVIOUS
    <3> HIDE DEF T
    <3>2. QED
      BY <2>1, <2>2, <3>1, Induction
  <2>4. QED
    BY <1>2, <2>3
<1>11. AppliedAcks(p) = w[n]
  BY DEF AppliedAcks
<1>12. AppliedAcks(p) \in S
  <2> HIDE DEF w, S, n
  <2> QED
    BY <1>2, <1>10, <1>11
<1>13. QED
  BY <1>12 DEF Window

-----------------------------------------------------------------------------
(* The send window *)

\* The inductive invariant behind WindowIsRespected: nothing is written
\* before the handshake, and the window the session uses is then at most the
\* one the peer announced.
WindowInv ==
    /\ established \in BOOLEAN
    /\ send_window_size \in Nat
    /\ bytes_write \in Nat /\ remote_bytes_read \in Nat
    /\ peer.window \in Nat
    /\ ~established => bytes_write = 0
    /\ established => send_window_size <= peer.window
    /\ established => SendWindowUsed <= peer.window

\* A new session has written nothing.
LEMMA InitWindowInv == Init => WindowInv
<1> SUFFICES ASSUME Init PROVE WindowInv
  OBVIOUS
<1>1. peer = [window |-> 0, mtu |-> 0]
  BY DEF Init
<1>2. peer.window = 0
  BY <1>1
<1>3. established \in BOOLEAN /\ ~established
  BY DEF Init
<1>4. send_window_size \in Nat
  BY SessionAssumption DEF Init
<1>5. bytes_write = 0 /\ remote_bytes_read = 0
  BY DEF Init
<1>6. QED
  BY <1>2, <1>3, <1>4, <1>5 DEF WindowInv

\* write adds to the window only what wait_for_send_window left room for.
LEMMA WriteKeepsWindow ==
    ASSUME WindowInv, NEW n \in WriteSizes, Write(n) PROVE WindowInv'
<1>1. n \in Nat
  BY SessionAssumption
<1>2. UNCHANGED <<established, send_window_size, remote_bytes_read, peer>>
  BY DEF Write, stateVars, sizeVars, ackVars
<1>3. CASE UNCHANGED sendVars
  BY <1>2, <1>3 DEF WindowInv, SendWindowUsed, sendVars
<1>4. CASE SendWindowUsed + n <= send_window_size /\ bytes_write' = bytes_write + n
  BY <1>1, <1>2, <1>4 DEF Write, Writable, WindowInv, SendWindowUsed
<1>5. QED
  BY <1>3, <1>4 DEF Write, WindowHasRoom

\* An accepted handshake lowers the window to at most the peer's, a rejected
\* one may lower it too.
LEMMA HandshakeKeepsWindow ==
    ASSUME WindowInv, NEW p \in Packets, ReceiveHandshake(p) PROVE WindowInv'
<1>1. p.window \in Nat /\ ~established /\ bytes_write = 0
  BY PacketsAssumption DEF WindowInv, ReceiveHandshake
<1>2. UNCHANGED <<bytes_write, remote_bytes_read>>
  BY DEF ReceiveHandshake, sendVars, ackVars
<1>3. send_window_size' \in Nat
  BY <1>1 DEF WindowInv, ReceiveHandshake, Smaller
<1>4. CASE HandshakeStage(p) = 3
  <2>1. established' = TRUE /\ peer' = [window |-> p.window, mtu |-> p.mtu]
    BY <1>4 DEF ReceiveHandshake
  <2>2. peer'.window = p.window
    BY <2>1
  <2>3. send_window_size' <= p.window
    BY <1>1, <1>4 DEF WindowInv, ReceiveHandshake, Smaller
  <2>4. QED
    BY <1>1, <1>2, <1>3, <2>1, <2>2, <2>3 DEF WindowInv, SendWindowUsed
<1>5. CASE HandshakeStage(p) # 3
  <2>1. UNCHANGED <<established, peer>>
    BY <1>5 DEF ReceiveHandshake
  <2>2. QED
    BY <1>1, <1>2, <1>3, <2>1 DEF WindowInv, SendWindowUsed
<1>6. QED
  BY <1>4, <1>5

\* A packet of an established session only raises what the peer has read.
LEMMA PacketKeepsWindow ==
    ASSUME WindowInv, NEW p \in Packets, ReceiveEstablished(p) PROVE WindowInv'
<1>1. p.bytes_read \in Nat
  BY PacketsAssumption
<1>2. UNCHANGED <<established, send_window_size, peer, bytes_write>>
  BY DEF ReceiveEstablished, stateVars, sizeVars
<1>3. remote_bytes_read' \in Nat /\ remote_bytes_read' >= remote_bytes_read
  BY <1>1 DEF ReceiveEstablished, WindowInv
<1>4. QED
  BY <1>2, <1>3 DEF WindowInv, SendWindowUsed

\* The other operations leave the byte counts and the window alone.
LEMMA OthersKeepWindow ==
    ASSUME WindowInv, UNCHANGED <<established, send_window_size, peer,
                                  bytes_write, remote_bytes_read>>
    PROVE  WindowInv'
  BY DEF WindowInv, SendWindowUsed

\* Every step of the session keeps the invariant.
LEMMA StepKeepsWindow == WindowInv /\ [Next]_vars => WindowInv'
<1> SUFFICES ASSUME WindowInv, [Next]_vars PROVE WindowInv'
  OBVIOUS
<1>1. CASE Dial \/ Flush \/ GetSendSeq \/ GetDataToSend \/ Read \/ SendClosePacket
  BY <1>1, OthersKeepWindow DEF Dial, Flush, GetSendSeq, GetDataToSend, Read,
     SendClosePacket, stateVars, sizeVars, sendVars, ackVars
<1>2. ASSUME NEW n \in WriteSizes, Write(n) PROVE WindowInv'
  BY <1>2, WriteKeepsWindow
<1>3. ASSUME NEW p \in Packets, ReceiveWith(p) PROVE WindowInv'
  <2>1. CASE ReceiveGarbled(p) \/ ReceiveClose(p)
    BY <2>1, OthersKeepWindow DEF ReceiveGarbled, ReceiveClose, stateVars, sizeVars, sendVars,
       ackVars
  <2>2. QED
    BY <1>3, <2>1, HandshakeKeepsWindow, PacketKeepsWindow DEF ReceiveWith
<1>4. CASE UNCHANGED vars
  BY <1>4, OthersKeepWindow DEF vars, stateVars, sizeVars, sendVars, ackVars
<1>5. QED
  BY <1>1, <1>2, <1>3, <1>4 DEF Next

\* The session never has more bytes in flight than the peer's handshake
\* allows, for every window size, sequence of writes and set of packets.
THEOREM SendsWithinWindow == Spec => []WindowIsRespected
<1>1. WindowInv => WindowIsRespected
  BY DEF WindowInv, WindowIsRespected
<1>2. QED
  BY <1>1, InitWindowInv, StepKeepsWindow, PTL DEF Spec

\* No operation changes windows or connections once the session is
\* established: later handshakes are ignored.
THEOREM HandshakeSettles == Spec => HandshakeIsFinal
<1>1. [Next]_vars => [established => UNCHANGED sizeVars]_vars
  <2> SUFFICES ASSUME Next, established PROVE UNCHANGED sizeVars
    OBVIOUS
  <2>1. CASE Dial \/ Flush \/ GetSendSeq \/ GetDataToSend \/ Read \/ SendClosePacket
    BY <2>1 DEF Dial, Flush, GetSendSeq, GetDataToSend, Read, SendClosePacket
  <2>2. ASSUME NEW n \in WriteSizes, Write(n) PROVE UNCHANGED sizeVars
    BY <2>2 DEF Write
  <2>3. ASSUME NEW p \in Packets, ReceiveWith(p) PROVE UNCHANGED sizeVars
    BY <2>3 DEF ReceiveWith, ReceiveGarbled, ReceiveClose, ReceiveHandshake, ReceiveEstablished
  <2>4. QED
    BY <2>1, <2>2, <2>3 DEF Next
<1>2. QED
  BY <1>1, PTL DEF Spec, HandshakeIsFinal

-----------------------------------------------------------------------------
(* Types, and what acknowledgements do to the send window *)

\* A new session is well-typed.
LEMMA InitTypes == Init => TypeOK
<1> SUFFICES ASSUME Init PROVE TypeOK
  OBVIOUS
<1>1. MinSeq \in SeqIds
  BY MaxSeqAssumption DEF SeqIds, MinSeq
<1>2. peer \in [window : Nat, mtu : Nat]
  BY DEF Init
<1>3. send_chan \in Seq(SeqIds) /\ Len(send_chan) <= 1
  BY DEF Init
<1>4. /\ send_window_size \in 1 .. InitWindow /\ send_mtu \in 1 .. InitMtu
      /\ connections \in 0 .. LocalIds /\ recv_window_used \in 0 .. InitWindow
      /\ bytes_write \in 0 .. MaxBytes /\ remote_bytes_read \in Nat
      /\ window_update \in 0 .. 1
  BY SessionAssumption DEF Init
<1>5. /\ owner \in {"ready", "flushing", "stuck", "panicked", "read_panicked"}
      /\ accepted \in BOOLEAN /\ established \in BOOLEAN /\ closed \in BOOLEAN
  BY Zenon DEF Init
<1>6. /\ send_window_start_seq \in SeqIds /\ send_window_end_seq \in SeqIds
      /\ recv_window_start_seq \in SeqIds /\ taken \in SeqIds \cup {0}
      /\ send_window_data \subseteq SeqIds /\ recv_window_data \subseteq SeqIds
      /\ ack_queue \subseteq SeqIds
  BY <1>1, Zenon DEF Init
<1>7. QED
  BY <1>2, <1>3, <1>4, <1>5, <1>6, Zenon DEF TypeOK

\* A flush leaves the last id in send_chan and takes the next one, which may
\* be the first again.
LEMMA FlushKeepsTypes ==
    ASSUME TypeOK, FlushSendBuffer
    PROVE  /\ owner' \in {"ready", "flushing"}
           /\ send_window_start_seq' \in SeqIds /\ send_window_end_seq' \in SeqIds
           /\ send_window_data' \subseteq SeqIds
           /\ send_chan' \in Seq(SeqIds) /\ Len(send_chan') <= 1
           /\ taken' \in SeqIds \cup {0}
<1>1. send_window_end_seq' \in SeqIds
  BY NextIsAnId DEF TypeOK, FlushSendBuffer
<1>2. send_chan' \in Seq(SeqIds) /\ Len(send_chan') <= 1
  BY DEF TypeOK, FlushSendBuffer
<1>3. QED
  BY <1>1, <1>2 DEF TypeOK, FlushSendBuffer

\* The calls of the owner.
LEMMA CallsKeepTypes ==
    ASSUME TypeOK,
           \/ Dial \/ Flush \/ GetSendSeq \/ GetDataToSend \/ Read \/ SendClosePacket
           \/ \E n \in WriteSizes : Write(n)
    PROVE  TypeOK'
<1>1. CASE Dial \/ Read \/ SendClosePacket
  BY <1>1 DEF Dial, SendHandshakePacket, Read, SendClosePacket, TypeOK, stateVars,
     sizeVars, sendVars, ackVars, recvVars
<1>2. CASE Flush
  BY <1>2, FlushKeepsTypes DEF Flush, TypeOK, stateVars, sizeVars, ackVars, recvVars
<1>3. ASSUME NEW n \in WriteSizes, Write(n) PROVE TypeOK'
  <2>1. n \in Nat /\ bytes_write + n \in 0 .. MaxBytes
    BY <1>3, SessionAssumption DEF Write, TypeOK
  <2>2. CASE UNCHANGED sendVars /\ owner' \in {"stuck", "panicked"}
    BY <1>3, <2>2 DEF Write, TypeOK, stateVars, sizeVars, sendVars, ackVars, recvVars
  <2>3. CASE FlushSendBuffer /\ bytes_write' = bytes_write + n
    BY <1>3, <2>1, <2>3, FlushKeepsTypes DEF Write, TypeOK, stateVars, sizeVars, ackVars,
       recvVars
  <2>4. QED
    BY <1>3, <2>2, <2>3 DEF Write
<1>4. CASE GetSendSeq
  <2>1. NextSeq(send_window_end_seq, -1) \in SeqIds
    BY NextIsAnId DEF TypeOK
  <2>2. send_chan' \in Seq(SeqIds) /\ Len(send_chan') <= 1
    BY <1>4, <2>1 DEF GetSendSeq
  <2>3. taken' \in SeqIds
    BY <1>4 DEF GetSendSeq, TypeOK
  <2>4. QED
    BY <1>4, <2>2, <2>3 DEF GetSendSeq, TypeOK, stateVars, sizeVars, ackVars, recvVars
<1>5. CASE GetDataToSend
  BY <1>5 DEF GetDataToSend, TypeOK, stateVars, sizeVars, ackVars, recvVars
<1>6. QED
  BY <1>1, <1>2, <1>3, <1>4, <1>5

\* A packet that is none, a close packet, and handshakes: what is lowered stays positive.
LEMMA HandshakesKeepTypes ==
    ASSUME TypeOK, NEW p \in Packets,
           ReceiveGarbled(p) \/ ReceiveClose(p) \/ ReceiveHandshake(p)
    PROVE  TypeOK'
<1>1. p.window \in Nat /\ p.mtu \in Nat /\ p.ids \in Nat
  BY PacketsAssumption
<1>2. CASE ReceiveGarbled(p) \/ ReceiveClose(p)
  BY <1>2 DEF ReceiveGarbled, ReceiveClose, TypeOK, stateVars, sizeVars, sendVars, ackVars,
     recvVars
<1>3. CASE ReceiveHandshake(p)
  <2>1. HandshakeStage(p) >= 1 => p.window > 0
    BY <1>1 DEF HandshakeStage
  <2>2. HandshakeStage(p) >= 2 => p.mtu > 0
    BY <1>1 DEF HandshakeStage
  <2>3. send_window_size' \in 1 .. InitWindow
    BY <1>1, <1>3, <2>1, SessionAssumption DEF ReceiveHandshake, Smaller, TypeOK
  <2>4. send_mtu' \in 1 .. InitMtu
    BY <1>1, <1>3, <2>2, SessionAssumption DEF ReceiveHandshake, Smaller, TypeOK
  <2>5. connections' \in 0 .. LocalIds
    BY <1>1, <1>3, SessionAssumption DEF ReceiveHandshake, Smaller, TypeOK
  <2>6. established' \in BOOLEAN
    <3>1. CASE HandshakeStage(p) = 3
      BY <1>3, <3>1, Zenon DEF ReceiveHandshake
    <3>2. CASE HandshakeStage(p) # 3
      BY <1>3, <3>2, Zenon DEF ReceiveHandshake, TypeOK
    <3>3. QED
      BY <3>1, <3>2
  <2>7. peer' \in [window : Nat, mtu : Nat]
    BY <1>1, <1>3 DEF ReceiveHandshake, TypeOK
  <2>8. QED
    BY <1>3, <2>3, <2>4, <2>5, <2>6, <2>7
     DEF ReceiveHandshake, TypeOK, sendVars, ackVars, recvVars
<1>4. QED
  BY <1>2, <1>3

\* A packet of an established session: the loops over its acks end with ids,
\* and what is stored fits the window.
LEMMA PacketsKeepTypes ==
    ASSUME TypeOK, NEW p \in Packets, ReceiveEstablished(p)
    PROVE  TypeOK'
<1>1. p.bytes_read \in Nat /\ p.seq \in 0 .. MaxSeq /\ p.len \in Nat
  BY PacketsAssumption
<1>2. send_window_start_seq' \in SeqIds /\ send_window_data' \subseteq SeqIds
  BY AcksKeepData DEF ReceiveEstablished, TypeOK
<1>3. p.seq > 0 => p.seq \in SeqIds
  BY <1>1, MaxSeqAssumption DEF SeqIds, MinSeq
<1>4. recv_window_data' \subseteq SeqIds /\ ack_queue' \subseteq SeqIds
  BY <1>3 DEF ReceiveEstablished, TypeOK
<1>5. recv_window_used' \in 0 .. InitWindow
  BY <1>1, SessionAssumption DEF ReceiveEstablished, Fits, TypeOK
<1>6. remote_bytes_read' \in Nat /\ window_update' \in 0 .. 1
  BY <1>1 DEF ReceiveEstablished, TypeOK
<1>7. owner' \in {"ready", "stuck"}
  BY DEF ReceiveEstablished
<1>8. QED
  BY <1>2, <1>4, <1>5, <1>6, <1>7 DEF ReceiveEstablished, TypeOK, stateVars, sizeVars

\* Every step keeps the types.
LEMMA StepKeepsTypes == TypeOK /\ [Next]_vars => TypeOK'
<1> SUFFICES ASSUME TypeOK, [Next]_vars PROVE TypeOK'
  OBVIOUS
<1>1. ASSUME NEW p \in Packets, ReceiveWith(p) PROVE TypeOK'
  BY <1>1, HandshakesKeepTypes, PacketsKeepTypes DEF ReceiveWith
<1>2. CASE UNCHANGED vars
  BY <1>2 DEF vars, stateVars, sizeVars, sendVars, ackVars, recvVars, TypeOK
<1>3. QED
  BY <1>1, <1>2, CallsKeepTypes DEF Next

\* The state of a session is well-typed for every id space, window and set of
\* packets: sequence ids stay ids across the wrap, windows stay positive and
\* what was received fits the receive window.
THEOREM TypesAreCorrect == Spec => []TypeOK
  BY InitTypes, StepKeepsTypes, PTL DEF Spec

\* No operation takes data out of the send window, whatever is acknowledged:
\* the loop of receive_with over the acks of a packet leaves it as it was.
THEOREM AcksLeaveTheWindow == Spec => AcksRemoveNothing
<1>1. TypeOK /\ [Next]_vars => [send_window_data \subseteq send_window_data']_vars
  <2> SUFFICES ASSUME TypeOK, Next PROVE send_window_data \subseteq send_window_data'
    OBVIOUS
  <2>1. CASE Dial \/ Flush \/ GetSendSeq \/ GetDataToSend \/ Read \/ SendClosePacket
    BY <2>1 DEF Dial, Flush, FlushSendBuffer, GetSendSeq, GetDataToSend, Read,
       SendClosePacket, sendVars
  <2>2. ASSUME NEW n \in WriteSizes, Write(n) PROVE send_window_data \subseteq send_window_data'
    BY <2>2 DEF Write, FlushSendBuffer, sendVars
  <2>3. ASSUME NEW p \in Packets, ReceiveWith(p)
        PROVE  send_window_data \subseteq send_window_data'
    <3>1. CASE ReceiveGarbled(p) \/ ReceiveClose(p) \/ ReceiveHandshake(p)
      BY <3>1 DEF ReceiveGarbled, ReceiveClose, ReceiveHandshake, sendVars
    <3>2. CASE ReceiveEstablished(p)
      BY <3>2, AcksKeepData DEF ReceiveEstablished, TypeOK
    <3>3. QED
      BY <2>3, <3>1, <3>2 DEF ReceiveWith
  <2>4. QED
    BY <2>1, <2>2, <2>3 DEF Next
<1>2. QED
  BY <1>1, TypesAreCorrect, PTL DEF Spec, AcksRemoveNothing
=============================================================================
