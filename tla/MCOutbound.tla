----------------------------- MODULE MCOutbound -----------------------------
(* Outbound with the bytes it signs.  With eight values of a byte the widths *)
(* of an integer change at 5, 8^2 and 8^4; a string of length 5 is the first *)
(* whose length takes three bytes.                                           *)
EXTENDS Outbound, Serialization

MCVals == (0 .. 80) \cup (4090 .. 4100) \cup {32767, 262144, 2097153}
MCStrings == {<<>>, <<0>>, <<1, 1>>, <<1, 0, 1, 1>>, <<0, 5, 0, 0, 1>>}
MCNonces == {0, 4095}

\* The integers in what create_outbound_message signs for a batch, as the readers
\* beside write_var_u64 see them: from 0xFD on they are read back with exactly
\* the bytes that follow, at every change of width.  The lengths of its keys,
\* identifiers and hashes, 0 or 32, are below that: read_var_u64 skips them and
\* takes the first byte of the field for its length.
PrefixedIntIsReadBack == outbound # <<>> => PrefixedIntsAreReadBack

\* A batch that was signed is not signed for another message, too: different
\* elements of a signature chain, and different chains, are signed as different
\* bytes; no field runs into the next, whatever bytes it holds.
SignedBytesAreUnambiguous == outbound # <<>> => BytesAreUnambiguous
=============================================================================
