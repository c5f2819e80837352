------------------------------ MODULE Outbound ------------------------------
(***************************************************************************)
(* Sending one payload to a list of destinations: Client::send and         *)
(* send_messages in src/src/client.rs.                                     *)
(*                                                                         *)
(* A call resolves its destinations, encrypts the payload, splits the      *)
(* destinations into batches that respect MAX_CLIENT_MESSAGE_SIZE, signs   *)
(* every batch for the node it finds installed at that moment, and only    *)
(* then writes the batches, each to the socket it finds at that moment.    *)
(* Meanwhile the connection may die and be replaced (ClientConnect).       *)
(*                                                                         *)
(* A destination is what the code distinguishes: a full address, a name to *)
(* look up, or an address whose public key does not parse; and the bytes   *)
(* it adds to a message once it is resolved, SIGNATURE_LEN included.       *)
(***************************************************************************)
EXTENDS Integers, Sequences, SequencesExt

CONSTANTS
    MaxDests,      \* bound: destinations of a call
    Sizes,         \* the sizes of a destination, with its signature
    PayloadSize,   \* size of the encoded payload
    MaxSize,       \* MAX_CLIENT_MESSAGE_SIZE
    MaxConns       \* bound: connections

ASSUME SizesAssumption ==
    /\ MaxDests \in Nat /\ MaxConns \in Nat
    /\ Sizes \subseteq Nat \ {0} /\ PayloadSize \in Nat /\ MaxSize \in Nat

Dests == [form : {"address", "name", "malformed"}, size : Sizes]
Batches == [dests : Seq(Dests), node : 0 .. MaxConns, hash : 0 .. MaxConns]

VARIABLES
    pc,          \* program counter of the call
    input,       \* the destinations the caller passed
    encrypted,   \* !config.unencrypted
    next,        \* index of the loop at work
    dests,       \* the destinations process_dests returned
    each,        \* one payload per destination, rather than one for all
    dest_list,   \* the batch under construction
    total_size,  \* its size so far
    node,        \* the node create_outbound_message has read
    outbound,    \* outbound_msgs
    written,     \* what was put on which socket, in order
    lost,        \* number of batches whose write failed
    response_channels,   \* number of entries this call added
    \* the connection, as module ClientConnect changes it
    stdin_tx, up, client_node, sig_chain_block_hash,
    changed      \* history: it has not been the same throughout the call

callVars == <<pc, input, encrypted, next, dests, each, dest_list, total_size,
              node, outbound, written, lost, response_channels>>
linkVars == <<stdin_tx, up, client_node, sig_chain_block_hash, changed>>
vars == <<callVars, linkVars>>

TypeOK ==
    /\ pc \in {"idle", "resolve", "payloads", "batch", "node", "hash", "write",
               "insert", "ok", "error", "panicked"}
    /\ input \in Seq(Dests) /\ Len(input) <= MaxDests
    /\ dests \in Seq(Dests) /\ Len(dests) <= Len(input)
    /\ dest_list \in Seq(Dests) /\ Len(dest_list) <= Len(dests)
    /\ encrypted \in BOOLEAN /\ each \in BOOLEAN
    /\ next \in 1 .. MaxDests + 1
    /\ total_size \in 0 .. MaxSize
    /\ node \in 0 .. MaxConns
    /\ outbound \in Seq(Batches)
    /\ written \in Seq([batch : Batches, conn : 1 .. MaxConns])
    /\ lost \in 0 .. MaxDests
    /\ response_channels \in 0 .. 1
    /\ stdin_tx \in 0 .. MaxConns
    /\ client_node \in 0 .. stdin_tx
    /\ sig_chain_block_hash \in 0 .. stdin_tx
    /\ up \in BOOLEAN
    /\ changed \in BOOLEAN

Init ==
    /\ pc = "idle" /\ input = <<>> /\ encrypted = FALSE
    /\ next = 1 /\ dests = <<>> /\ each = FALSE
    /\ dest_list = <<>> /\ total_size = 0 /\ node = 0
    /\ outbound = <<>> /\ written = <<>> /\ lost = 0
    /\ response_channels = 0
    /\ stdin_tx = 0 /\ up = FALSE /\ client_node = 0
    /\ sig_chain_block_hash = 0 /\ changed = FALSE

-----------------------------------------------------------------------------
(* The call *)

\* process_dests starts; without destinations the call is over.
Send ==
    /\ pc = "idle"
    /\ \E n \in 0 .. MaxDests : input' \in [1 .. n -> Dests]
    /\ encrypted' \in BOOLEAN
    /\ changed' = (client_node # stdin_tx)
    /\ pc' = "resolve"
    /\ UNCHANGED <<next, dests, each, dest_list, total_size, node, outbound,
                   written, lost, response_channels, stdin_tx, up,
                   client_node, sig_chain_block_hash>>

\* process_dests: a name that is not registered, or cannot be looked up, is
\* dropped; nothing left of a list that was not empty is an error.
ResolveNext ==
    /\ pc = "resolve"
    /\ next <= Len(input)
    /\ next' = next + 1
    /\ \/ dests' = Append(dests, input[next])
       \/ /\ input[next].form = "name"
          /\ dests' = dests
    /\ UNCHANGED <<pc, input, encrypted, each, dest_list, total_size, node,
                   outbound, written, lost, response_channels, linkVars>>

ResolveEnd ==
    /\ pc = "resolve"
    /\ next > Len(input)
    /\ next' = 1
    /\ pc' = CASE input = <<>> -> "insert"
               [] input # <<>> /\ dests = <<>> -> "error"
               [] OTHER -> "payloads"
    /\ UNCHANGED <<input, encrypted, dests, each, dest_list, total_size, node,
                   outbound, written, lost, response_channels, linkVars>>

Malformed(ds) == \E k \in DOMAIN ds : ds[k].form = "malformed"

\* The bytes of ds on top of base, with `extra` for each of them.
Bytes(base, extra, ds) == FoldLeft(LAMBDA sum, d : sum + extra + d.size, base, ds)

SizeOf(ds) == Bytes(PayloadSize, 0, ds)

\* encrypt_payload: with several destinations each gets a payload of its own,
\* under a key encrypted for it; every public key must parse.
PayloadForEach == encrypted /\ Len(dests) > 1
EncryptFails == encrypted /\ Malformed(dests)

\* create_payloads.  A common payload makes a single batch, which is checked
\* at once.
CreatePayloads ==
    /\ pc = "payloads"
    /\ each' = PayloadForEach
    /\ \/ /\ EncryptFails
          /\ pc' = "error"
          /\ UNCHANGED <<dest_list, next>>
       \/ /\ ~EncryptFails
          /\ each'
          /\ pc' = "batch"
          /\ UNCHANGED <<dest_list, next>>
       \/ /\ ~EncryptFails
          /\ ~each'
          /\ pc' = IF SizeOf(dests) > MaxSize THEN "error" ELSE "node"
          /\ dest_list' = dests
          /\ next' = Len(dests) + 1
    /\ UNCHANGED <<input, encrypted, dests, total_size, node, outbound,
                   written, lost, response_channels, linkVars>>

\* One turn of the loop over payloads: a destination that does not fit into
\* the batch has it closed first, and is then looked at again.
BatchNext ==
    LET size == PayloadSize + dests[next].size
    IN  /\ pc = "batch"
        /\ next <= Len(dests)
        /\ \/ /\ size > MaxSize
              /\ pc' = "error"
              /\ UNCHANGED <<next, dest_list, total_size>>
           \/ /\ size <= MaxSize
              /\ total_size + size > MaxSize
              /\ pc' = "node"
              /\ UNCHANGED <<next, dest_list, total_size>>
           \/ /\ size <= MaxSize
              /\ total_size + size <= MaxSize
              /\ dest_list' = Append(dest_list, dests[next])
              /\ total_size' = total_size + size
              /\ next' = next + 1
              /\ UNCHANGED pc
        /\ UNCHANGED <<input, encrypted, dests, each, node, outbound, written,
                       lost, response_channels, linkVars>>

\* The last batch, after the loop.
BatchEnd ==
    /\ pc = "batch"
    /\ next > Len(dests)
    /\ pc' = "node"
    /\ UNCHANGED <<input, encrypted, next, dests, each, dest_list, total_size,
                   node, outbound, written, lost, response_channels, linkVars>>

\* create_outbound_message, first lock: the node, unwrapped, and so is its key,
\* which the server may not have sent in hexadecimal.  A panic under a lock
\* poisons it, which ClientConnect follows; this call is over.
ReadNode ==
    /\ pc = "node"
    /\ node' = client_node
    /\ \/ pc' = "panicked"
       \/ client_node # 0 /\ pc' = "hash"
    /\ UNCHANGED <<input, encrypted, next, dests, each, dest_list, total_size,
                   outbound, written, lost, response_channels, linkVars>>

\* The batch ReadHash makes, and where the call goes on.
SignedBatch == [dests |-> dest_list, node |-> node, hash |-> sig_chain_block_hash]
AfterBatch == IF next <= Len(dests) THEN "batch" ELSE "write"

\* Variant: total_size is not reset.
ReadHashKeepsSize ==
    /\ pc = "hash"
    /\ outbound' = Append(outbound, SignedBatch)
    /\ pc' = AfterBatch
    /\ dest_list' = <<>>
    /\ node' = 0
    /\ UNCHANGED <<input, encrypted, next, dests, each, total_size, written,
                   lost, response_channels, linkVars>>

\* Variant: dest_list is not cleared.
ReadHashKeepsDests ==
    /\ pc = "hash"
    /\ outbound' = Append(outbound, SignedBatch)
    /\ pc' = AfterBatch
    /\ total_size' = 0
    /\ node' = 0
    /\ UNCHANGED <<input, encrypted, next, dests, each, dest_list, written,
                   lost, response_channels, linkVars>>

\* Variant: a batch is written as soon as it is signed.
ReadHashWrites ==
    /\ pc = "hash"
    /\ up
    /\ outbound' = Append(outbound, SignedBatch)
    /\ written' = Append(written, [batch |-> SignedBatch, conn |-> stdin_tx])
    /\ pc' = AfterBatch
    /\ dest_list' = <<>>
    /\ total_size' = 0
    /\ node' = 0
    /\ UNCHANGED <<input, encrypted, next, dests, each, lost,
                   response_channels, linkVars>>

\* Second lock: the block hash, which may be None, or not hexadecimal.  Then the
\* batch is signed for every destination, and dest_list, payload_list and
\* total_size cleared.
ReadHash ==
    /\ pc = "hash"
    /\ \/ /\ sig_chain_block_hash # 0
          /\ pc' = "panicked"
          /\ UNCHANGED outbound
       \/ /\ Malformed(dest_list)
          /\ pc' = "error"
          /\ UNCHANGED outbound
       \/ /\ ~Malformed(dest_list)
          /\ outbound' = Append(outbound, SignedBatch)
          /\ pc' = AfterBatch
    /\ dest_list' = <<>>
    /\ total_size' = 0
    /\ node' = 0
    /\ UNCHANGED <<input, encrypted, next, dests, each, written, lost,
                   response_channels, linkVars>>

\* Variant: the sender is the one of the first connection.
WriteToFirst ==
    LET k == Len(written) + lost + 1
    IN  /\ pc = "write"
        /\ k <= Len(outbound)
        /\ written' = Append(written, [batch |-> outbound[k], conn |-> 1])
        /\ UNCHANGED <<pc, input, encrypted, next, dests, each, dest_list,
                       total_size, node, outbound, lost, response_channels,
                       linkVars>>

\* write_message: unbounded_send fails once the websocket task is over.
WriteMessage(k) ==
    \/ /\ up
       /\ written' = Append(written, [batch |-> outbound[k], conn |-> stdin_tx])
       /\ UNCHANGED lost
    \/ /\ ~up
       /\ lost' = lost + 1
       /\ UNCHANGED written

\* The next batch, as a client message; an error is only logged.
Write ==
    LET k == Len(written) + lost + 1
    IN  /\ pc = "write"
        /\ \/ /\ k <= Len(outbound)
              /\ WriteMessage(k)
              /\ UNCHANGED pc
           \/ /\ k > Len(outbound)
              /\ pc' = "insert"
              /\ UNCHANGED <<written, lost>>
        /\ UNCHANGED <<input, encrypted, next, dests, each, dest_list,
                       total_size, node, outbound, response_channels, linkVars>>

\* Client::send: unless the caller wants no reply, the message id, unwrapped
\* as UTF-8, gets a response channel.
InsertResponse ==
    /\ pc = "insert"
    /\ \/ pc' = "ok" /\ response_channels' \in {0, 1}
       \/ pc' = "panicked" /\ UNCHANGED response_channels
    /\ UNCHANGED <<input, encrypted, next, dests, each, dest_list, total_size,
                   node, outbound, written, lost, linkVars>>

-----------------------------------------------------------------------------
(* The connection, see ClientConnect *)

Dial ==
    /\ stdin_tx < MaxConns
    /\ stdin_tx' = stdin_tx + 1
    /\ up' = TRUE
    /\ changed' = TRUE
    /\ UNCHANGED <<callVars, client_node, sig_chain_block_hash>>

\* The node of the last dial, or of an earlier one whose connector was slow.
InstallNode ==
    \E c \in 1 .. stdin_tx :
        /\ client_node' = c
        /\ changed' = (changed \/ c # stdin_tx)
        /\ UNCHANGED <<callVars, stdin_tx, up, sig_chain_block_hash>>

Disconnect ==
    /\ up
    /\ up' = FALSE
    /\ UNCHANGED <<callVars, stdin_tx, client_node, sig_chain_block_hash, changed>>

\* setClient and updateSigChainBlockHash, of any connection there has been.
UpdateHash ==
    /\ sig_chain_block_hash' \in 1 .. stdin_tx
    /\ UNCHANGED <<callVars, stdin_tx, up, client_node, changed>>

-----------------------------------------------------------------------------
CallStep ==
    \/ Send \/ ResolveNext \/ ResolveEnd \/ CreatePayloads \/ BatchNext
    \/ BatchEnd \/ ReadNode \/ ReadHash \/ Write \/ InsertResponse

LinkStep == Dial \/ InstallNode \/ Disconnect \/ UpdateHash

Next == CallStep \/ LinkStep

Spec == Init /\ [][Next]_vars

-----------------------------------------------------------------------------
(* Properties *)

\* What a batch weighs: with a payload for each destination every one of them
\* adds its payload.
Weight(b) ==
    IF each THEN Bytes(0, PayloadSize, b.dests) ELSE SizeOf(b.dests)

\* No client message is empty or larger than MAX_CLIENT_MESSAGE_SIZE.
BatchesFit ==
    \A k \in DOMAIN outbound :
        /\ outbound[k].dests # <<>>
        /\ Weight(outbound[k]) <= MaxSize

\* Splitting neither drops, repeats nor reorders a destination: the batches
\* built so far, the one under construction and what the loop has not reached
\* make up the list process_dests returned.
NobodyIsLeftOut ==
    pc \in {"batch", "node", "hash", "write", "insert", "ok"} =>
        FlattenSeq([k \in DOMAIN outbound |-> outbound[k].dests])
            \o dest_list \o SubSeq(dests, next, Len(dests)) = dests

\* A call that returns an error has sent nothing, not even the batches before
\* the one that failed.
ErrorSendsNothing == pc = "error" => written = <<>> /\ response_channels = 0

\* A batch is signed for the node of the socket it is written to, unless the
\* connection changed during the call.
SignedForItsSocket ==
    \A k \in DOMAIN written :
        \/ written[k].batch.node = written[k].conn
        \/ changed
=============================================================================
