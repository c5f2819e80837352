------------------------------- MODULE NcpSeq -------------------------------
(***************************************************************************)
(* Arithmetic on the sequence ids of a session (src/src/utils.rs).         *)
(*                                                                         *)
(* Ids run from MIN_SEQUENCE_ID = 1 to u32::MAX, here MaxSeq, and wrap.    *)
(* TLA+'s % is never negative, so that it stands for Rust's % and the      *)
(* correction that follows it.                                             *)
(***************************************************************************)
EXTENDS Integers

CONSTANT MaxSeq

ASSUME MaxSeqAssumption == MaxSeq \in Nat /\ MaxSeq > 1

MinSeq == 1
SeqIds == MinSeq .. MaxSeq

\* Variant: no wrap.
NextSeqNoWrap(seq, step) == seq + step

NextSeq(seq, step) == ((seq - MinSeq + step) % MaxSeq) + MinSeq

\* Variant: the parameters in the order receive_with passes them.
SeqInBetweenSwapped(seq, start, end) ==
    IF seq <= start THEN end >= seq /\ end < start
    ELSE end >= seq \/ end < start

\* The parameters in the order the function declares them.
SeqInBetween(seq, start, end) ==
    IF start <= end THEN seq >= start /\ seq < end
    ELSE seq >= start \/ seq < end

CompareSeq(a, b) ==
    CASE a = b -> 0
      [] a < b -> IF b - a < MaxSeq \div 2 THEN -1 ELSE 1
      [] a > b -> IF a - b < MaxSeq \div 2 THEN 1 ELSE -1
=============================================================================
