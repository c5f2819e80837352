--------------------------- MODULE Serialization ---------------------------
(***************************************************************************)
(* The binary encoding of src/src/serialization.rs and the two byte        *)
(* strings of src/src/sigchain.rs that are hashed and signed.              *)
(*                                                                         *)
(* A byte has Byte values, 256 in the code: the prefixes 0xFD, 0xFE and    *)
(* 0xFF are its three greatest.  The widths are those of the code: 2, 4    *)
(* and 8 bytes, big endian.  create_outbound_message (Outbound) signs what *)
(* the two make of the message; there is no state.                         *)
(***************************************************************************)
EXTENDS Integers, Sequences, FiniteSets

CONSTANTS
    Byte,
    Vals,       \* u64 to encode
    Strings,    \* byte strings to encode
    Nonces      \* u32: values of nonce and data_size

\* How many values 2, 4 and 8 bytes have.
Byte2 == Byte * Byte
Byte4 == Byte2 * Byte2
Byte8 == Byte4 * Byte4

ASSUME SerializationAssumption ==
    /\ Byte \in Nat /\ Byte > 3
    /\ Vals \subseteq 0 .. Byte8 - 1 /\ Nonces \subseteq 0 .. Byte4 - 1
    /\ Strings \subseteq Seq(0 .. Byte - 1) /\ IsFiniteSet(Strings)
    /\ \A s \in Strings : Len(s) < Byte8

FD == Byte - 3
FE == Byte - 2
FF == Byte - 1

-----------------------------------------------------------------------------
(* Writing *)

\* The last bytes of a value: the first half of them, then the second.
put_u8(val) == <<val % Byte>>
put_u16(val) == put_u8(val \div Byte) \o put_u8(val)
put_u32(val) == put_u16(val \div Byte2) \o put_u16(val)
put_u64(val) == put_u32(val \div Byte4) \o put_u32(val)

write_u32(val) == put_u32(val)
write_bool(b) == <<IF b THEN 1 ELSE 0>>

\* Variant: 0x10000 still goes into two bytes.
write_var_u64_cut(val) ==
    CASE val < FD -> put_u8(val)
      [] val >= FD /\ val <= Byte2 -> <<FD>> \o put_u16(val)
      [] val > Byte2 /\ val < Byte4 -> <<FE>> \o put_u32(val)
      [] OTHER -> <<FF>> \o put_u64(val)

write_var_u64(val) ==
    CASE val < FD -> put_u8(val)
      [] val >= FD /\ val < Byte2 -> <<FD>> \o put_u16(val)
      [] val >= Byte2 /\ val < Byte4 -> <<FE>> \o put_u32(val)
      [] OTHER -> <<FF>> \o put_u64(val)

\* Variant: the length is left out.
write_var_bytes_bare(val) == val

write_var_bytes(val) == write_var_u64(Len(val)) \o val

serialize_unsigned(elem) ==
    write_var_bytes(elem.id) \o write_var_bytes(elem.next_pubkey)
        \o write_bool(elem.mining) \o elem.vrf

serialize_metadata(chain) ==
    write_u32(chain.nonce) \o write_u32(chain.data_size)
        \o write_var_bytes(chain.block_hash)
        \o write_var_bytes(chain.src_id) \o write_var_bytes(chain.src_pubkey)
        \o write_var_bytes(chain.dest_id) \o write_var_bytes(chain.dest_pubkey)

-----------------------------------------------------------------------------
(* Reading: the value and the bytes left.  No code of the crate reads what *)
(* it wrote; a reader that is given too few bytes panics, which is left out *)

\* The value of the bytes from the i-th on.
get_u16(bytes, i) == bytes[i] * Byte + bytes[i + 1]
get_u32(bytes, i) == get_u16(bytes, i) * Byte2 + get_u16(bytes, i + 2)
get_u64(bytes, i) == get_u32(bytes, i) * Byte4 + get_u32(bytes, i + 4)

Left(bytes, n) == SubSeq(bytes, n + 1, Len(bytes))

read_u8(bytes) == [val |-> bytes[1], rest |-> Left(bytes, 1)]
read_u16(bytes) == [val |-> get_u16(bytes, 1), rest |-> Left(bytes, 2)]
read_u32(bytes) == [val |-> get_u32(bytes, 1), rest |-> Left(bytes, 4)]
read_u64(bytes) == [val |-> get_u64(bytes, 1), rest |-> Left(bytes, 8)]

\* A first byte below 0xFD is taken for a prefix, too: the value is that of
\* the byte after it.
read_var_u64(bytes) ==
    LET size == read_u8(bytes)
    IN  CASE size.val = FD -> read_u16(size.rest)
          [] size.val = FE -> read_u32(size.rest)
          [] size.val = FF -> read_u64(size.rest)
          [] OTHER -> read_u8(size.rest)

-----------------------------------------------------------------------------
(* Properties *)

\* What write_var_u64 writes with a prefix, from 0xFD on, read_var_u64 reads, and
\* it leaves exactly the bytes that follow, at every change of width.  A value
\* below 0xFD, which has no prefix, is lost: what is read is the byte behind it.
PrefixedIntsAreReadBack ==
    \A val \in Vals, rest \in Strings :
        LET read == read_var_u64(write_var_u64(val) \o rest)
        IN  /\ val >= FD => read = [val |-> val, rest |-> rest]
            /\ val < FD /\ rest # <<>> => read = read_u8(rest)

Elems == [id : Strings, next_pubkey : Strings, mining : BOOLEAN, vrf : Strings]
Chains ==
    [nonce : Nonces, data_size : Nonces, block_hash : Strings, src_id : Strings,
     src_pubkey : Strings, dest_id : Strings, dest_pubkey : Strings]

\* Different elements, and different chains, are signed as different bytes:
\* no field runs into the next, whatever bytes it holds.
BytesAreUnambiguous ==
    /\ Cardinality({serialize_unsigned(e) : e \in Elems}) = Cardinality(Elems)
    /\ Cardinality({serialize_metadata(c) : c \in Chains}) = Cardinality(Chains)
=============================================================================
