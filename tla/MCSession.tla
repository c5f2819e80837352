----------------------------- MODULE MCSession -----------------------------
(* A session with small windows and a few packets of each kind, every one   *)
(* of which has at most ten bytes unless it is marked big.                  *)
EXTENDS Session

Empty == [big |-> FALSE, garbled |-> FALSE, close |-> FALSE,
          handshake |-> FALSE, window |-> 0, mtu |-> 0, ids |-> 0,
          starts |-> <<>>, counts |-> <<>>, bytes_read |-> 0, seq |-> 0, len |-> 0, known |-> TRUE]

\* A window beyond InitWindow takes four bytes and leaves no room for the rest.
Handshakes ==
    {[Empty EXCEPT !.handshake = TRUE, !.window = w, !.mtu = m, !.ids = i] :
        w \in {0, 2}, m \in {0, 1, 4}, i \in {0, 1}}
    \cup {[Empty EXCEPT !.handshake = TRUE, !.window = 9, !.mtu = 2],
          [Empty EXCEPT !.handshake = TRUE, !.window = 3, !.mtu = 3, !.ids = 2]}

Acks == {[Empty EXCEPT !.starts = <<s>>, !.counts = <<n>>] : s \in 1 .. 3, n \in 1 .. 2}
        \cup {[Empty EXCEPT !.starts = <<1, 3>>, !.counts = <<1, 1>>],
              [Empty EXCEPT !.starts = <<2>>],
              [Empty EXCEPT !.starts = <<1, 2>>, !.counts = <<1>>]}

Reports == {[Empty EXCEPT !.bytes_read = n] : n \in {1, 2}}

Datas == {[Empty EXCEPT !.seq = s, !.len = n] : s \in 1 .. 2, n \in {1, 4}}

MCPackets ==
    Handshakes \cup Acks \cup Reports \cup Datas
    \cup {[Empty EXCEPT !.close = TRUE], [Empty EXCEPT !.big = TRUE],
          [Empty EXCEPT !.garbled = TRUE],
          [Empty EXCEPT !.bytes_read = 2, !.seq = 1, !.len = 1],
          [Empty EXCEPT !.seq = 3, !.len = 1, !.known = FALSE]}
=============================================================================
