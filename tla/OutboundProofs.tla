--------------------------- MODULE OutboundProofs ---------------------------
(***************************************************************************)
(* Proofs about Client::send, for every list of destinations, size limit   *)
(* and number of reconnections during the call, and about the bytes it     *)
(* signs, for every number of values of a byte.                            *)
(***************************************************************************)
EXTENDS MCOutbound, SequenceTheorems, FiniteSetTheorems, WellFoundedInduction, TLAPS

Labels == {"idle", "resolve", "payloads", "batch", "node", "hash", "write",
           "insert", "ok", "error", "panicked"}

\* Before the first write.
Building == {"idle", "resolve", "payloads", "batch", "node", "hash", "error"}

\* Nothing is written, lost or registered before all the batches are there,
\* and no response is awaited before they are written.
Unsent ==
    /\ pc \in Building => written = <<>> /\ lost = 0
    /\ pc \in Building \cup {"write", "insert"} => response_channels = 0

\* While the connection stays the same every batch, the one being signed
\* included, is for the node of the socket, and was written to it.
Signed ==
    ~changed =>
        /\ client_node = stdin_tx
        /\ pc = "hash" => node = stdin_tx
        /\ \A k \in DOMAIN outbound : outbound[k].node = stdin_tx
        /\ \A k \in DOMAIN written : written[k].batch.node = written[k].conn

\* The loop over the payloads: a batch that is closed has a destination, so
\* that there are no more batches than destinations behind the loop.
Loop ==
    /\ pc \in {"payloads", "batch", "node", "hash", "write"} => dests # <<>>
    /\ pc \in {"idle", "resolve", "payloads"} =>
         outbound = <<>> /\ dest_list = <<>> /\ total_size = 0
    /\ pc \in {"idle", "payloads"} => next = 1
    /\ pc = "idle" => dests = <<>> /\ input = <<>>
    /\ pc = "resolve" => next <= Len(input) + 1 /\ Len(dests) <= next - 1
    /\ pc \in {"batch", "node", "hash"} =>
         /\ next <= Len(dests) + 1
         /\ Len(outbound) + Len(dest_list) <= next - 1
    /\ pc \in {"node", "hash"} => dest_list # <<>>
    /\ pc = "batch" => (dest_list = <<>> => total_size = 0 /\ next <= Len(dests))
    /\ Len(outbound) <= Len(dests)
    /\ pc = "write" => Len(written) + lost <= Len(outbound)

\* The state of the call is well-typed.
CallTypes ==
    /\ pc \in Labels
    /\ input \in Seq(Dests) /\ Len(input) <= MaxDests
    /\ dests \in Seq(Dests) /\ Len(dests) <= Len(input)
    /\ dest_list \in Seq(Dests) /\ Len(dest_list) <= Len(dests)
    /\ next \in 1 .. MaxDests + 1
    /\ total_size \in 0 .. MaxSize
    /\ node \in 0 .. MaxConns
    /\ outbound \in Seq(Batches)
    /\ written \in Seq([batch : Batches, conn : 1 .. MaxConns])
    /\ lost \in 0 .. MaxDests
    /\ response_channels \in 0 .. 1

LinkTypes ==
    /\ stdin_tx \in 0 .. MaxConns
    /\ client_node \in 0 .. stdin_tx
    /\ sig_chain_block_hash \in 0 .. stdin_tx
    /\ up => stdin_tx > 0

Flags == encrypted \in BOOLEAN /\ each \in BOOLEAN /\ up \in BOOLEAN /\ changed \in BOOLEAN

IInv == CallTypes /\ LinkTypes /\ Flags /\ Unsent /\ Signed /\ Loop

-----------------------------------------------------------------------------
\* The invariant holds before the call.
LEMMA InitIInv == Init => IInv
<1> SUFFICES ASSUME Init PROVE IInv
  OBVIOUS
<1>1. CallTypes
  BY SizesAssumption DEF Init, CallTypes, Labels
<1>2. LinkTypes
  <2>1. ~up
    BY Zenon DEF Init
  <2>2. QED
    BY <2>1, SizesAssumption DEF Init, LinkTypes
<1>3. Flags
  BY Zenon DEF Init, Flags
<1>4. Unsent /\ Signed /\ Loop
  BY DEF Init, Unsent, Signed, Loop, Building
<1>5. QED
  BY <1>1, <1>2, <1>3, <1>4 DEF IInv

\* A step of the connection leaves the call alone, and is on record unless
\* node and socket still agree.
LEMMA LinkPreserves == IInv /\ LinkStep => IInv'
<1> SUFFICES ASSUME IInv, LinkStep PROVE IInv'
  OBVIOUS
<1>1. UNCHANGED callVars
  BY DEF LinkStep, Dial, InstallNode, Disconnect, UpdateHash
<1>2. CallTypes' /\ Unsent' /\ Loop'
  BY <1>1 DEF IInv, callVars, CallTypes, Unsent, Loop
<1>3. LinkTypes'
  BY SizesAssumption DEF IInv, LinkTypes, LinkStep, Dial, InstallNode, Disconnect, UpdateHash
<1>4. Flags'
  BY <1>1, Zenon DEF IInv, callVars, Flags, LinkStep, Dial, InstallNode, Disconnect, UpdateHash
<1>5. Signed'
  BY <1>1 DEF IInv, callVars, Signed, LinkStep, Dial, InstallNode, Disconnect, UpdateHash
<1>6. QED
  BY <1>2, <1>3, <1>4, <1>5 DEF IInv

-----------------------------------------------------------------------------
\* The list of destinations the caller passes is a sequence of them.
LEMMA InputIsSeq ==
    ASSUME NEW n \in Nat, NEW s \in [1 .. n -> Dests]
    PROVE  s \in Seq(Dests) /\ Len(s) = n
BY SeqDef

\* send() resolves the destinations.
LEMMA SendPreserves == IInv /\ Send => IInv'
<1> SUFFICES ASSUME IInv, Send PROVE IInv'
  OBVIOUS
<1>1. PICK n \in 0 .. MaxDests : input' \in [1 .. n -> Dests]
  BY DEF Send
<1>2. input' \in Seq(Dests) /\ Len(input') = n /\ n \in Nat
  BY <1>1, SizesAssumption, InputIsSeq
<1>3. CallTypes'
  BY <1>2, SizesAssumption DEF IInv, CallTypes, Loop, Send, Labels
<1>4. LinkTypes'
  BY DEF IInv, LinkTypes, Send
<1>5. Flags'
  <2>1. changed' \in BOOLEAN /\ encrypted' \in BOOLEAN
    BY Zenon DEF Send
  <2>2. QED
    BY <2>1, Zenon DEF IInv, Flags, Send
<1>6. Unsent' /\ Loop'
  BY <1>2 DEF IInv, Send, CallTypes, Unsent, Loop, Building
<1>7. Signed'
  <2>1. ~changed' => client_node = stdin_tx
    BY Zenon DEF Send
  <2>2. outbound' = <<>> /\ written' = <<>> /\ pc' = "resolve"
    BY DEF IInv, Send, Unsent, Loop, Building
  <2>3. UNCHANGED <<client_node, stdin_tx>>
    BY DEF Send
  <2>4. QED
    BY <2>1, <2>2, <2>3 DEF Signed
<1>8. QED
  BY <1>3, <1>4, <1>5, <1>6, <1>7 DEF IInv

-----------------------------------------------------------------------------
\* Resolving neither signs nor writes.
LEMMA ResolvePreserves == IInv /\ (ResolveNext \/ ResolveEnd) => IInv'
<1> SUFFICES ASSUME IInv, ResolveNext \/ ResolveEnd PROVE IInv'
  OBVIOUS
<1>1. LinkTypes' /\ Flags'
  <2>1. LinkTypes'
    BY DEF IInv, LinkTypes, ResolveNext, ResolveEnd, linkVars
  <2>2. Flags'
    BY Zenon DEF IInv, Flags, ResolveNext, ResolveEnd, linkVars
  <2>3. QED
    BY <2>1, <2>2
<1>2. CASE ResolveNext
  <2>1. input[next] \in Dests /\ next \in Nat
    BY <1>2 DEF IInv, CallTypes, ResolveNext
  <2>2. dests' \in Seq(Dests) /\ Len(dests') <= Len(dests) + 1
    <3>1. dests \in Seq(Dests)
      BY DEF IInv, CallTypes
    <3>2. dests' = dests \/ dests' = Append(dests, input[next])
      BY <1>2 DEF ResolveNext
    <3>3. QED
      BY <2>1, <3>1, <3>2
  <2>3. Len(dests') <= Len(input) /\ Len(dests') <= next /\ Len(dests) <= Len(dests')
    BY <1>2, <2>1, <2>2 DEF IInv, CallTypes, Loop, ResolveNext
  <2>4. CallTypes'
    BY <1>2, <2>2, <2>3, SizesAssumption DEF IInv, CallTypes, Loop, ResolveNext
  <2>5. Unsent' /\ Loop'
    BY <1>2, <2>1, <2>2, <2>3 DEF IInv, CallTypes, Unsent, Loop, ResolveNext, Building
  <2>6. Signed'
    BY <1>2 DEF IInv, Signed, ResolveNext, linkVars
  <2>7. QED
    BY <1>1, <2>4, <2>5, <2>6 DEF IInv
<1>3. CASE ResolveEnd
  <2>1. pc' \in {"insert", "error", "payloads"} /\ (pc' = "payloads" => dests # <<>>)
    BY <1>3 DEF ResolveEnd
  <2>2. CallTypes'
    BY <1>3, <2>1, SizesAssumption DEF IInv, CallTypes, ResolveEnd, Labels
  <2>3. Unsent' /\ Loop'
    BY <1>3, <2>1 DEF IInv, CallTypes, Unsent, Loop, ResolveEnd, Building
  <2>4. Signed'
    BY <1>3, <2>1 DEF IInv, Signed, ResolveEnd, linkVars
  <2>5. QED
    BY <1>1, <2>2, <2>3, <2>4 DEF IInv
<1>4. QED
  BY <1>2, <1>3

\* The payloads are made.
LEMMA PayloadsPreserve == IInv /\ CreatePayloads => IInv'
<1> SUFFICES ASSUME IInv, CreatePayloads PROVE IInv'
  OBVIOUS
<1> DEFINE one == dest_list' = dests /\ next' = Len(dests) + 1 /\ pc' \in {"error", "node"}
           several == UNCHANGED <<dest_list, next>> /\ pc' \in {"error", "batch"}
<1>1. /\ one \/ several
      /\ pc = "payloads"
      /\ UNCHANGED <<input, dests, total_size, node, outbound, written, lost,
                     response_channels, linkVars>>
  BY DEF CreatePayloads
<1>2. LinkTypes'
  BY <1>1 DEF IInv, LinkTypes, linkVars
<1>3. Flags'
  <2>1. each' \in BOOLEAN
    BY Zenon DEF CreatePayloads, PayloadForEach
  <2>2. QED
    BY <2>1, Zenon DEF IInv, Flags, CreatePayloads, linkVars
<1>4. CallTypes'
  <2>1. CASE one
    BY <1>1, <2>1, SizesAssumption DEF IInv, CallTypes, Labels
  <2>2. CASE several
    BY <1>1, <2>2, SizesAssumption DEF IInv, CallTypes, Labels
  <2>3. QED
    BY <1>1, <2>1, <2>2
<1>5. Unsent'
  BY <1>1 DEF IInv, Unsent, Building
<1>6. Signed'
  BY <1>1 DEF IInv, Signed, linkVars
<1>7. Loop'
  <2>1. Len(dests) > 0 /\ Len(dests) \in Nat
    BY <1>1 DEF IInv, Loop, CallTypes
  <2>2. Len(outbound') = 0 /\ Len(outbound) = 0
    BY <1>1 DEF IInv, Loop
  <2>3. CASE one
    BY <1>1, <2>1, <2>2, <2>3 DEF IInv, Loop, CallTypes
  <2>4. CASE several
    BY <1>1, <2>1, <2>2, <2>4 DEF IInv, Loop, CallTypes
  <2>5. QED
    BY <1>1, <2>3, <2>4
<1>8. QED
  BY <1>2, <1>3, <1>4, <1>5, <1>6, <1>7 DEF IInv

-----------------------------------------------------------------------------
\* A turn of the loop that adds a destination moves on by one; one that finds
\* the batch full finds something in it.
LEMMA BatchPreserves == IInv /\ (BatchNext \/ BatchEnd) => IInv'
<1> SUFFICES ASSUME IInv, BatchNext \/ BatchEnd PROVE IInv'
  OBVIOUS
<1> DEFINE size == PayloadSize + dests[next].size
           adds == /\ total_size + size <= MaxSize
                   /\ dest_list' = Append(dest_list, dests[next])
                   /\ total_size' = total_size + size
                   /\ next' = next + 1
                   /\ pc' = "batch" /\ next <= Len(dests)
           closes == /\ UNCHANGED <<next, dest_list, total_size>>
                     /\ pc' \in {"error", "node"}
                     /\ pc' = "node" => dest_list # <<>>
<1>1. /\ pc = "batch"
      /\ UNCHANGED <<input, encrypted, dests, each, node, outbound, written, lost,
                     response_channels, linkVars>>
  BY DEF BatchNext, BatchEnd
<1>2. next <= Len(dests) => dests[next] \in Dests /\ size \in Nat
  <2>1. next <= Len(dests) => dests[next] \in Dests
    BY SizesAssumption DEF IInv, CallTypes
  <2>2. \A d \in Dests : d.size \in Nat
    BY SizesAssumption DEF Dests
  <2>3. QED
    BY <2>1, <2>2, SizesAssumption
<1>3. adds \/ closes
  <2>1. CASE BatchEnd
    BY <1>1, <2>1 DEF BatchEnd, IInv, Loop, CallTypes
  <2>2. CASE BatchNext
    BY <1>1, <1>2, <2>2, SizesAssumption DEF BatchNext, IInv, Loop, CallTypes
  <2>3. QED
    BY <2>1, <2>2
<1>4. LinkTypes' /\ Flags'
  BY <1>1, Zenon DEF IInv, LinkTypes, Flags, linkVars
<1>5. Unsent' /\ Signed'
  BY <1>1, <1>3 DEF IInv, Unsent, Signed, Building, linkVars
<1>6. CallTypes' /\ Loop'
  <2>1. CASE closes
    BY <1>1, <2>1 DEF IInv, CallTypes, Loop, Labels
  <2>2. CASE adds
    <3>1. /\ dest_list' \in Seq(Dests) /\ Len(dest_list') = Len(dest_list) + 1
          /\ dest_list' # <<>>
      BY <1>2, <2>2 DEF IInv, CallTypes
    <3>2. Len(dest_list') <= Len(dests) /\ next' \in 1 .. MaxDests + 1
      BY <1>1, <2>2, <3>1, SizesAssumption DEF IInv, CallTypes, Loop
    <3>3. total_size' \in 0 .. MaxSize
      BY <1>2, <2>2, SizesAssumption DEF IInv, CallTypes
    <3>4. CallTypes'
      BY <1>1, <2>2, <3>1, <3>2, <3>3 DEF IInv, CallTypes
    <3>5. Loop'
      BY <1>1, <2>2, <3>1 DEF IInv, CallTypes, Loop
    <3>6. QED
      BY <3>4, <3>5
  <2>3. QED
    BY <1>3, <2>1, <2>2
<1>7. QED
  BY <1>4, <1>5, <1>6 DEF IInv

\* The node is read.
LEMMA NodePreserves == IInv /\ ReadNode => IInv'
<1> SUFFICES ASSUME IInv, ReadNode PROVE IInv'
  OBVIOUS
<1>1. /\ pc = "node" /\ pc' \in {"panicked", "hash"} /\ node' = client_node
      /\ UNCHANGED <<input, next, dests, dest_list, total_size, outbound, written,
                     lost, response_channels, linkVars>>
  BY DEF ReadNode
<1>2. LinkTypes'
  BY <1>1 DEF IInv, LinkTypes, linkVars
<1>3. Flags'
  BY Zenon DEF IInv, Flags, ReadNode, linkVars
<1>4. CallTypes'
  BY <1>1, SizesAssumption DEF IInv, CallTypes, LinkTypes, Labels
<1>5. Unsent' /\ Signed' /\ Loop'
  BY <1>1 DEF IInv, Unsent, Signed, Loop, CallTypes, Building, linkVars
<1>6. QED
  BY <1>2, <1>3, <1>4, <1>5 DEF IInv

\* A signed batch is one more batch, and takes at least one destination.
LEMMA HashPreserves == IInv /\ ReadHash => IInv'
<1> SUFFICES ASSUME IInv, ReadHash PROVE IInv'
  OBVIOUS
<1> DEFINE signs == /\ outbound' = Append(outbound, SignedBatch)
                    /\ pc' \in {"batch", "write"}
                    /\ pc' = "batch" => next <= Len(dests)
           fails == outbound' = outbound /\ pc' \in {"error", "panicked"}
<1>1. /\ pc = "hash" /\ dest_list' = <<>> /\ total_size' = 0 /\ node' = 0
      /\ UNCHANGED <<input, next, dests, written, lost, response_channels, linkVars>>
      /\ signs \/ fails
  BY DEF ReadHash, AfterBatch
<1>2. LinkTypes'
  BY <1>1 DEF IInv, LinkTypes, linkVars
<1>3. Flags'
  BY Zenon DEF IInv, Flags, ReadHash, linkVars
<1>4. SignedBatch \in Batches /\ SignedBatch.node = node
  <2>1. sig_chain_block_hash \in 0 .. MaxConns
    BY SizesAssumption DEF IInv, LinkTypes
  <2>2. QED
    BY <2>1 DEF SignedBatch, Batches, IInv, CallTypes
<1>5. outbound' \in Seq(Batches)
  <2>1. outbound \in Seq(Batches)
    BY DEF IInv, CallTypes
  <2>2. outbound' = Append(outbound, SignedBatch) \/ outbound' = outbound
    BY <1>1
  <2>3. QED
    BY <1>4, <2>1, <2>2
<1>6. CallTypes'
  BY <1>1, <1>5, SizesAssumption DEF IInv, CallTypes, Labels
<1>7. Unsent'
  BY <1>1 DEF IInv, Unsent, Building
<1>8. Signed'
  <2>1. CASE fails
    BY <1>1, <2>1 DEF IInv, Signed, linkVars
  <2>2. CASE signs
    <3>1. \A k \in DOMAIN outbound' :
             outbound'[k] = SignedBatch \/ (k \in DOMAIN outbound /\ outbound'[k] = outbound[k])
      BY <2>2, <1>4 DEF IInv, CallTypes
    <3>2. QED
      BY <1>1, <1>4, <2>2, <3>1 DEF IInv, Signed, linkVars
  <2>3. QED
    BY <1>1, <2>1, <2>2
<1>9. Loop'
  <2>1. Len(dest_list) > 0 /\ Len(dest_list) \in Nat /\ Len(outbound) \in Nat
    BY <1>1 DEF IInv, Loop, CallTypes
  <2>2. Len(outbound') <= Len(outbound) + 1 /\ Len(dest_list') = 0
    BY <1>1, <1>4 DEF IInv, CallTypes
  <2>3. Len(outbound') <= next - 1 /\ next <= Len(dests) + 1
    BY <1>1, <2>1, <2>2, <1>5 DEF IInv, Loop, CallTypes
  <2>4. Len(written) = 0 /\ lost = 0
    BY <1>1 DEF IInv, Unsent, Building
  <2>5. QED
    BY <1>1, <1>5, <2>2, <2>3, <2>4 DEF IInv, Loop, CallTypes
<1>10. QED
  BY <1>2, <1>3, <1>6, <1>7, <1>8, <1>9 DEF IInv

-----------------------------------------------------------------------------
\* A write puts a batch on the socket it was signed for, or loses it.
LEMMA WritePreserves == IInv /\ Write => IInv'
<1> SUFFICES ASSUME IInv, Write PROVE IInv'
  OBVIOUS
<1> DEFINE k == Len(written) + lost + 1
           item == [batch |-> outbound[k], conn |-> stdin_tx]
           puts == /\ k <= Len(outbound) /\ up /\ pc' = "write"
                   /\ written' = Append(written, item) /\ lost' = lost
           loses == /\ k <= Len(outbound) /\ pc' = "write"
                    /\ written' = written /\ lost' = lost + 1
           ends == pc' = "insert" /\ written' = written /\ lost' = lost
<1>1. /\ pc = "write"
      /\ UNCHANGED <<input, next, dests, dest_list, total_size, node, outbound,
                     response_channels, linkVars>>
      /\ puts \/ loses \/ ends
  BY DEF Write, WriteMessage
<1>2. LinkTypes'
  BY <1>1 DEF IInv, LinkTypes, linkVars
<1>3. Flags'
  BY Zenon DEF IInv, Flags, Write, linkVars
<1>4. /\ Len(written) \in Nat /\ lost \in Nat /\ k \in Nat \ {0}
      /\ Len(outbound) \in Nat /\ Len(outbound) <= MaxDests
  BY SizesAssumption DEF IInv, CallTypes, Loop
<1>5. puts => item \in [batch : Batches, conn : 1 .. MaxConns]
  <2>1. k <= Len(outbound) => outbound[k] \in Batches
    BY <1>4 DEF IInv, CallTypes
  <2>2. up => stdin_tx \in 1 .. MaxConns
    BY SizesAssumption DEF IInv, LinkTypes
  <2>3. QED
    BY <2>1, <2>2
<1>6. /\ written' \in Seq([batch : Batches, conn : 1 .. MaxConns])
      /\ puts => Len(written') = Len(written) + 1
  <2>1. written \in Seq([batch : Batches, conn : 1 .. MaxConns])
    BY DEF IInv, CallTypes
  <2>2. CASE puts
    BY <1>5, <2>1, <2>2
  <2>3. CASE ~puts
    BY <1>1, <2>1, <2>3
  <2>4. QED
    BY <2>2, <2>3
<1>7. lost' \in 0 .. MaxDests
  BY <1>1, <1>4, SizesAssumption DEF IInv, CallTypes
<1>8. CallTypes'
  BY <1>1, <1>6, <1>7 DEF IInv, CallTypes, Labels
<1>9. Unsent'
  BY <1>1 DEF IInv, Unsent, Building
<1>10. Loop'
  <2>1. pc' = "write" => Len(written') + lost' <= Len(outbound)
    <3>1. CASE puts
      BY <1>4, <1>6, <3>1
    <3>2. CASE loses \/ ends
      BY <1>4, <3>2
    <3>3. QED
      BY <1>1, <3>1, <3>2
  <2>2. pc' \in {"write", "insert"}
    BY <1>1
  <2>3. QED
    BY <1>1, <2>1, <2>2 DEF IInv, Loop
<1>11. Signed'
  <2>1. CASE puts
    <3>1. ~changed => item.batch.node = item.conn
      BY <1>4, <2>1 DEF IInv, Signed, CallTypes
    <3>2. \A j \in DOMAIN written' :
             written'[j] = item \/ (j \in DOMAIN written /\ written'[j] = written[j])
      BY <2>1, <1>5 DEF IInv, CallTypes
    <3>3. QED
      BY <1>1, <2>1, <3>1, <3>2 DEF IInv, Signed, linkVars
  <2>2. CASE loses \/ ends
    BY <1>1, <2>2 DEF IInv, Signed, linkVars
  <2>3. QED
    BY <1>1, <2>1, <2>2
<1>12. QED
  BY <1>2, <1>3, <1>8, <1>9, <1>10, <1>11 DEF IInv

\* The response channel is inserted.
LEMMA InsertPreserves == IInv /\ InsertResponse => IInv'
<1> SUFFICES ASSUME IInv, InsertResponse PROVE IInv'
  OBVIOUS
<1>1. /\ pc = "insert" /\ pc' \in {"ok", "panicked"} /\ response_channels' \in 0 .. 1
      /\ UNCHANGED <<input, next, dests, dest_list, total_size, node, outbound,
                     written, lost, linkVars>>
  BY DEF InsertResponse, IInv, CallTypes
<1>2. LinkTypes'
  BY <1>1 DEF IInv, LinkTypes, linkVars
<1>3. Flags'
  BY Zenon DEF IInv, Flags, InsertResponse, linkVars
<1>4. CallTypes' /\ Unsent' /\ Loop' /\ Signed'
  BY <1>1 DEF IInv, CallTypes, Unsent, Loop, Signed, Labels, Building, linkVars
<1>5. QED
  BY <1>2, <1>3, <1>4 DEF IInv

-----------------------------------------------------------------------------
\* The invariant holds throughout a call.
LEMMA AlwaysIInv == Spec => []IInv
<1>1. IInv /\ [Next]_vars => IInv'
  <2> SUFFICES ASSUME IInv, [Next]_vars PROVE IInv'
    OBVIOUS
  <2>1. CASE UNCHANGED vars
    <3>1. CallTypes' /\ LinkTypes' /\ Unsent' /\ Signed' /\ Loop'
      BY <2>1 DEF IInv, CallTypes, LinkTypes, Unsent, Signed, Loop, vars, callVars, linkVars
    <3>2. Flags'
      BY <2>1, Zenon DEF IInv, Flags, vars, callVars, linkVars
    <3>3. QED
      BY <3>1, <3>2 DEF IInv
  <2>2. QED
    BY <2>1, SendPreserves, ResolvePreserves, PayloadsPreserve, BatchPreserves,
       NodePreserves, HashPreserves, WritePreserves, InsertPreserves, LinkPreserves
       DEF Next, CallStep
<1>2. QED
  BY <1>1, InitIInv, PTL DEF Spec

\* For every list and limit the state of a call is well-typed; there are no
\* more batches, written or lost, than destinations.
THEOREM TypesAreCorrect == Spec => []TypeOK
<1>1. IInv => TypeOK
  <2> SUFFICES ASSUME IInv PROVE TypeOK
    OBVIOUS
  <2>1. CallTypes /\ LinkTypes
    BY DEF IInv
  <2>2. encrypted \in BOOLEAN /\ each \in BOOLEAN /\ up \in BOOLEAN /\ changed \in BOOLEAN
    BY Zenon DEF IInv, Flags
  <2>3. QED
    BY <2>1, <2>2 DEF CallTypes, LinkTypes, TypeOK, Labels
<1>2. QED
  BY <1>1, AlwaysIInv, PTL

\* Whatever batch or destination a call fails at, it has written nothing and
\* awaits no response.
THEOREM FailedCallSentNothing == Spec => []ErrorSendsNothing
<1>1. IInv => ErrorSendsNothing
  BY DEF IInv, Unsent, ErrorSendsNothing, Building
<1>2. QED
  BY <1>1, AlwaysIInv, PTL

\* However many batches there are, each is signed for the node of the socket
\* it is written to, unless the connection changed during the call.
THEOREM BatchesMatchTheirSocket == Spec => []SignedForItsSocket
<1>1. IInv => SignedForItsSocket
  BY DEF IInv, Signed, SignedForItsSocket
<1>2. QED
  BY <1>1, AlwaysIInv, PTL

-----------------------------------------------------------------------------
(* The size of a batch, which is a fold over its destinations *)

\* An inhabited set of natural numbers has a least element.
LEMMA Least ==
    ASSUME NEW T, T \subseteq Nat, T # {}
    PROVE  \E n \in T : \A m \in T : n <= m
<1>1. IsWellFoundedOn(OpToRel(<, Nat), Nat)
  BY NatLessThanWellFounded
<1>2. PICK n \in T : \A m \in T : ~ (<<m, n>> \in OpToRel(<, Nat))
  BY <1>1, WFMin
<1>3. \A m \in T : ~(m < n)
  BY <1>2 DEF OpToRel
<1>4. QED
  BY <1>3

\* Induction over the natural numbers, for a set.
LEMMA Induction ==
    ASSUME NEW T, T \subseteq Nat, 0 \in T, \A n \in T : n + 1 \in T
    PROVE  T = Nat
<1> SUFFICES ASSUME Nat \ T # {} PROVE FALSE
  OBVIOUS
<1>1. PICK n \in Nat \ T : \A m \in Nat \ T : n <= m
  BY Least
<1>2. n - 1 \in T
  BY <1>1
<1>3. QED
  BY <1>2


\* g is the fold behind Bytes, on the sets of indices up to n.
FoldsUpTo(g, n, base, extra, ds) ==
    g = [s \in SUBSET (1 .. n) |->
            IF s = {} THEN base ELSE g[s \ {Max(s)}] + extra + ds[Max(s)].size]

CanFold(n, base, extra, ds) ==
    \E g \in [SUBSET (1 .. n) -> Nat] : FoldsUpTo(g, n, base, extra, ds)

\* The largest index of a set that has the last one.
LEMMA MaxIsLast ==
    ASSUME NEW n \in Nat, NEW s \in SUBSET (1 .. n), n \in s
    PROVE  Max(s) = n
<1>1. \A y \in s : n >= y
  OBVIOUS
<1>2. \A x \in s : (\A y \in s : x >= y) => x = n
  OBVIOUS
<1>3. QED
  BY <1>1, <1>2 DEF Max

\* The fold exists.
LEMMA FoldExists ==
    ASSUME NEW base \in Nat, NEW extra \in Nat, NEW ds \in Seq(Dests)
    PROVE  CanFold(Len(ds), base, extra, ds)
<1> DEFINE T == {n \in Nat : n <= Len(ds) => CanFold(n, base, extra, ds)}
<1>1. 0 \in T
  <2> DEFINE g == [s \in SUBSET (1 .. 0) |-> base]
  <2>1. g \in [SUBSET (1 .. 0) -> Nat]
    OBVIOUS
  <2>2. \A s \in SUBSET (1 .. 0) : s = {}
    OBVIOUS
  <2>3. FoldsUpTo(g, 0, base, extra, ds)
    BY <2>2 DEF FoldsUpTo
  <2>4. QED
    BY <2>1, <2>3 DEF CanFold
<1>2. ASSUME NEW n \in T PROVE n + 1 \in T
  <2> SUFFICES ASSUME n + 1 <= Len(ds) PROVE CanFold(n + 1, base, extra, ds)
    OBVIOUS
  <2>1. n \in Nat /\ n <= Len(ds) /\ Len(ds) \in Nat
    OBVIOUS
  <2>2. PICK g \in [SUBSET (1 .. n) -> Nat] : FoldsUpTo(g, n, base, extra, ds)
    BY <1>2, <2>1 DEF CanFold
  <2>3. ds[n + 1].size \in Nat
    <3>1. ds[n + 1] \in Dests
      BY <2>1, ElementOfSeq
    <3>2. QED
      BY <3>1, SizesAssumption DEF Dests
  <2> DEFINE v(s) == IF n + 1 \in s THEN g[s \ {n + 1}] + extra + ds[n + 1].size ELSE g[s]
             h == [s \in SUBSET (1 .. n + 1) |-> v(s)]
  <2>4. \A s \in SUBSET (1 .. n + 1) : s \ {n + 1} \in SUBSET (1 .. n)
    BY <2>1
  <2>5. \A s \in SUBSET (1 .. n + 1) : n + 1 \notin s => s \in SUBSET (1 .. n)
    BY <2>1
  <2>6. h \in [SUBSET (1 .. n + 1) -> Nat]
    <3>1. \A s \in SUBSET (1 .. n + 1) : v(s) \in Nat
      BY <2>2, <2>3, <2>4, <2>5
    <3>2. QED
      BY <3>1
  <2>7. ASSUME NEW s \in SUBSET (1 .. n + 1)
        PROVE  h[s] = IF s = {} THEN base ELSE h[s \ {Max(s)}] + extra + ds[Max(s)].size
    <3>1. CASE n + 1 \in s
      <4>1. Max(s) = n + 1
        BY <2>1, <3>1, MaxIsLast
      <4>2. h[s \ {n + 1}] = g[s \ {n + 1}]
        BY <2>4
      <4>3. QED
        BY <3>1, <4>1, <4>2
    <3>2. CASE n + 1 \notin s
      <4>1. s \in SUBSET (1 .. n) /\ s \ {Max(s)} \in SUBSET (1 .. n)
        BY <2>5, <3>2
      <4>2. h[s] = g[s] /\ h[s \ {Max(s)}] = g[s \ {Max(s)}]
        BY <2>1, <4>1, <3>2
      <4>3. g[s] = IF s = {} THEN base ELSE g[s \ {Max(s)}] + extra + ds[Max(s)].size
        BY <2>2, <4>1 DEF FoldsUpTo
      <4>4. QED
        BY <4>2, <4>3
    <3>3. QED
      BY <3>1, <3>2
  <2>8. FoldsUpTo(h, n + 1, base, extra, ds)
    <3> DEFINE w == [s \in SUBSET (1 .. n + 1) |->
                        IF s = {} THEN base ELSE h[s \ {Max(s)}] + extra + ds[Max(s)].size]
    <3>1. \A s \in SUBSET (1 .. n + 1) : h[s] = w[s]
      BY <2>7
    <3>2. h = w
      BY <3>1
    <3>3. QED
      BY <3>2 DEF FoldsUpTo
  <2>9. QED
    BY <2>6, <2>8 DEF CanFold
<1>3. T = Nat
  BY <1>1, <1>2, Induction
<1>4. Len(ds) \in T
  BY <1>3
<1>5. QED
  BY <1>4

\* Bytes is the value of such a fold.
LEMMA BytesIsAFold ==
    ASSUME NEW base \in Nat, NEW extra \in Nat, NEW ds \in Seq(Dests)
    PROVE  \E g : /\ FoldsUpTo(g, Len(ds), base, extra, ds)
                  /\ Bytes(base, extra, ds) = g[1 .. Len(ds)]
<1> DEFINE iter == CHOOSE g : g = [s \in SUBSET (DOMAIN ds) |->
                      IF s = {} THEN base ELSE g[s \ {Max(s)}] + extra + ds[Max(s)].size]
<1>1. DOMAIN ds = 1 .. Len(ds)
  OBVIOUS
<1>2. Bytes(base, extra, ds) = iter[DOMAIN ds]
  BY Zenon DEF Bytes, FoldLeft, MapThenFoldSet
<1>3. \E g : g = [s \in SUBSET (DOMAIN ds) |->
                      IF s = {} THEN base ELSE g[s \ {Max(s)}] + extra + ds[Max(s)].size]
  <2>1. PICK g : FoldsUpTo(g, Len(ds), base, extra, ds)
    BY FoldExists DEF CanFold
  <2>2. QED
    BY <1>1, <2>1, Zenon DEF FoldsUpTo
<1>4. FoldsUpTo(iter, Len(ds), base, extra, ds)
  BY <1>1, <1>3, Zenon DEF FoldsUpTo
<1>5. QED
  BY <1>1, <1>2, <1>4, Zenon
\* It adds one destination after the other.
LEMMA FoldTurn ==
    ASSUME NEW n \in Nat, NEW g, NEW base, NEW extra, NEW ds,
           FoldsUpTo(g, n, base, extra, ds)
    PROVE  /\ g[1 .. 0] = base
           /\ \A k \in 1 .. n : g[1 .. k] = g[1 .. k - 1] + extra + ds[k].size
<1>1. 1 .. 0 = {} /\ 1 .. 0 \in SUBSET (1 .. n)
  OBVIOUS
<1>2. g[1 .. 0] = base
  BY <1>1 DEF FoldsUpTo
<1>3. ASSUME NEW k \in 1 .. n PROVE g[1 .. k] = g[1 .. k - 1] + extra + ds[k].size
  <2>1. 1 .. k \in SUBSET (1 .. n) /\ 1 .. k # {} /\ k \in 1 .. k /\ k \in Nat
    OBVIOUS
  <2>2. Max(1 .. k) = k
    BY <2>1, MaxIsLast
  <2>3. (1 .. k) \ {k} = 1 .. k - 1
    OBVIOUS
  <2>4. g[1 .. k] = g[(1 .. k) \ {Max(1 .. k)}] + extra + ds[Max(1 .. k)].size
    BY <2>1 DEF FoldsUpTo
  <2>5. QED
    BY <2>2, <2>3, <2>4
<1>4. QED
  BY <1>2, <1>3

\* Lists that start alike are folded alike.
LEMMA FoldsAgree ==
    ASSUME NEW n \in Nat, NEW m \in Nat, n <= m, NEW base \in Nat, NEW extra \in Nat,
           NEW g, NEW ds, FoldsUpTo(g, n, base, extra, ds),
           NEW h, NEW es, FoldsUpTo(h, m, base, extra, es),
           \A k \in 1 .. n : ds[k] = es[k] /\ ds[k].size \in Nat
    PROVE  g[1 .. n] = h[1 .. n] /\ g[1 .. n] \in Nat
<1> DEFINE T == {k \in Nat : k <= n => g[1 .. k] = h[1 .. k] /\ g[1 .. k] \in Nat}
<1>1. 0 \in T
  BY FoldTurn
<1>2. ASSUME NEW k \in T PROVE k + 1 \in T
  <2> SUFFICES ASSUME k + 1 <= n
               PROVE  g[1 .. k + 1] = h[1 .. k + 1] /\ g[1 .. k + 1] \in Nat
    OBVIOUS
  <2>1. k \in Nat /\ k + 1 \in 1 .. n /\ k + 1 \in 1 .. m /\ (k + 1) - 1 = k
    OBVIOUS
  <2>2. g[1 .. k + 1] = g[1 .. k] + extra + ds[k + 1].size
    BY <2>1, FoldTurn
  <2>3. h[1 .. k + 1] = h[1 .. k] + extra + es[k + 1].size
    BY <2>1, FoldTurn
  <2>4. g[1 .. k] = h[1 .. k] /\ g[1 .. k] \in Nat
    BY <2>1
  <2>5. QED
    BY <2>1, <2>2, <2>3, <2>4
<1>3. T = Nat
  BY <1>1, <1>2, Induction
<1>4. n \in T
  BY <1>3
<1>5. QED
  BY <1>4

\* Nothing adds nothing.
LEMMA BytesOfNone ==
    ASSUME NEW base \in Nat, NEW extra \in Nat
    PROVE  Bytes(base, extra, <<>>) = base
<1>1. <<>> \in Seq(Dests) /\ Len(<<>>) = 0
  BY EmptySeq
<1> DEFINE none == <<>>
<1>2. none \in Seq(Dests) /\ Len(none) = 0
  BY <1>1
<1> HIDE DEF none
<1>3. PICK g : FoldsUpTo(g, Len(none), base, extra, none)
                /\ Bytes(base, extra, none) = g[1 .. Len(none)]
  BY <1>2, BytesIsAFold
<1>4. FoldsUpTo(g, 0, base, extra, none) /\ Bytes(base, extra, none) = g[1 .. 0]
  BY <1>2, <1>3
<1>5. 0 \in Nat
  OBVIOUS
<1>6. g[1 .. 0] = base
  BY <1>4, <1>5, FoldTurn
<1>7. Bytes(base, extra, none) = base
  BY <1>4, <1>6
<1>8. QED
  BY <1>7 DEF none

\* One destination more adds its bytes.
LEMMA BytesOfAppend ==
    ASSUME NEW base \in Nat, NEW extra \in Nat, NEW ds \in Seq(Dests), NEW d \in Dests
    PROVE  /\ Bytes(base, extra, ds) \in Nat
           /\ Bytes(base, extra, Append(ds, d)) = Bytes(base, extra, ds) + extra + d.size
<1> DEFINE es == Append(ds, d)
           n == Len(ds)
<1>1. /\ es \in Seq(Dests) /\ n \in Nat /\ Len(es) = n + 1 /\ es[n + 1] = d
      /\ \A k \in 1 .. n : ds[k] = es[k]
  BY AppendProperties
<1>2. \A k \in 1 .. n : ds[k].size \in Nat
  <2>1. \A k \in 1 .. n : ds[k] \in Dests
    BY ElementOfSeq
  <2>2. QED
    BY <2>1, SizesAssumption DEF Dests
<1>3. PICK g : FoldsUpTo(g, n, base, extra, ds) /\ Bytes(base, extra, ds) = g[1 .. n]
  BY BytesIsAFold
<1> HIDE DEF es, n
<1>a. PICK h : FoldsUpTo(h, Len(es), base, extra, es)
                /\ Bytes(base, extra, es) = h[1 .. Len(es)]
  BY <1>1, BytesIsAFold
<1>4. FoldsUpTo(h, n + 1, base, extra, es) /\ Bytes(base, extra, es) = h[1 .. n + 1]
  BY <1>1, <1>a
<1>5. g[1 .. n] = h[1 .. n] /\ g[1 .. n] \in Nat
  BY <1>1, <1>2, <1>3, <1>4, FoldsAgree
<1>6. h[1 .. n + 1] = h[1 .. n] + extra + es[n + 1].size
  <2>1. n + 1 \in Nat /\ n + 1 \in 1 .. n + 1 /\ (n + 1) - 1 = n
    BY <1>1
  <2>2. QED
    BY <1>4, <2>1, FoldTurn
<1>7. QED
  BY <1>1, <1>3, <1>4, <1>5, <1>6 DEF es
-----------------------------------------------------------------------------
(* Batches respect the limit *)

\* The labels at which a batch is under construction.
Open == {"batch", "node", "hash"}

\* With a payload for each destination total_size is what the open batch
\* weighs; a common payload makes one batch, of all the destinations.
OpenFits ==
    pc \in Open =>
        \/ each /\ total_size = Bytes(0, PayloadSize, dest_list)
        \/ ~each /\ pc # "batch" /\ next > Len(dests) /\ SizeOf(dest_list) <= MaxSize

Fit == OpenFits /\ BatchesFit

\* Steps that touch no batch.
LEMMA OthersKeepFit ==
    ASSUME Fit, UNCHANGED <<outbound, each>>,
           \/ pc' \notin Open
           \/ UNCHANGED <<pc, next, dests, dest_list, total_size>>
    PROVE  Fit'
<1>1. BatchesFit'
  BY DEF Fit, BatchesFit, Weight
<1>2. OpenFits'
  <2>1. CASE pc' \notin Open
    BY <2>1 DEF OpenFits
  <2>2. CASE UNCHANGED <<pc, next, dests, dest_list, total_size>>
    BY <2>2, Zenon DEF Fit, OpenFits
  <2>3. QED
    BY <2>1, <2>2
<1>3. QED
  BY <1>1, <1>2 DEF Fit

\* A common payload is compared with the limit, total_size starts at 0.
LEMMA PayloadsKeepFit == IInv /\ Fit /\ CreatePayloads => Fit'
<1> SUFFICES ASSUME IInv, Fit, CreatePayloads PROVE Fit'
  OBVIOUS
<1>1. outbound = <<>> /\ outbound' = <<>> /\ dest_list = <<>> /\ total_size = 0
  BY DEF IInv, Loop, CreatePayloads
<1>2. BatchesFit'
  BY <1>1 DEF BatchesFit
<1>3. total_size' = 0 /\ dests' = dests
  BY <1>1 DEF CreatePayloads
<1>4. OpenFits'
  <2> SUFFICES ASSUME pc' \in Open PROVE OpenFits'
    BY DEF OpenFits
  <2>1. CASE each' /\ dest_list' = dest_list
    BY <1>1, <1>3, <2>1, BytesOfNone, SizesAssumption DEF OpenFits
  <2>2. CASE ~each' /\ ~(SizeOf(dests) > MaxSize) /\ pc' = "node" /\ dest_list' = dests
                   /\ next' = Len(dests) + 1
    <3>1. SizeOf(dests) \in Nat
      <4>1. dests \in Seq(Dests) /\ dests # <<>>
        BY DEF IInv, CallTypes, Loop, CreatePayloads
      <4>2. dests[1] \in Dests
        BY <4>1
      <4>3. QED
        BY <4>1, <4>2, BytesOfAppend, SizesAssumption DEF SizeOf
    <3>2. SizeOf(dests) <= MaxSize
      BY <2>2, <3>1, SizesAssumption
    <3>3. next' > Len(dests')
      BY <1>3, <2>2 DEF IInv, CallTypes
    <3>4. SizeOf(dest_list') <= MaxSize
      BY <2>2, <3>2
    <3>5. QED
      BY <2>2, <3>3, <3>4 DEF OpenFits
  <2>3. QED
    BY <2>1, <2>2 DEF CreatePayloads, Open
<1>5. QED
  BY <1>2, <1>4 DEF Fit

\* A destination adds to total_size what it adds to the batch.
LEMMA BatchKeepsFit == IInv /\ Fit /\ (BatchNext \/ BatchEnd) => Fit'
<1> SUFFICES ASSUME IInv, Fit, BatchNext \/ BatchEnd PROVE Fit'
  OBVIOUS
<1> DEFINE adds == /\ next <= Len(dests)
                   /\ dest_list' = Append(dest_list, dests[next])
                   /\ total_size' = total_size + (PayloadSize + dests[next].size)
           closes == UNCHANGED <<dest_list, total_size>>
<1>1. pc = "batch" /\ UNCHANGED <<outbound, each>> /\ (adds \/ closes)
  BY DEF BatchNext, BatchEnd
<1>2. BatchesFit'
  BY <1>1 DEF Fit, BatchesFit, Weight
<1>3. each /\ total_size = Bytes(0, PayloadSize, dest_list)
  BY <1>1 DEF Fit, OpenFits, Open
<1>4. total_size' = Bytes(0, PayloadSize, dest_list')
  <2>1. CASE adds
    <3>1. dests[next] \in Dests /\ dest_list \in Seq(Dests)
      BY <2>1 DEF IInv, CallTypes
    <3>2. dests[next].size \in Nat
      BY <3>1, SizesAssumption DEF Dests
    <3>3. /\ Bytes(0, PayloadSize, dest_list) \in Nat
          /\ Bytes(0, PayloadSize, dest_list') =
               Bytes(0, PayloadSize, dest_list) + PayloadSize + dests[next].size
      <4>1. 0 \in Nat /\ PayloadSize \in Nat
        BY SizesAssumption
      <4>2. /\ Bytes(0, PayloadSize, dest_list) \in Nat
            /\ Bytes(0, PayloadSize, Append(dest_list, dests[next])) =
                 Bytes(0, PayloadSize, dest_list) + PayloadSize + dests[next].size
        BY <3>1, <4>1, BytesOfAppend
      <4>3. QED
        BY <2>1, <4>2
    <3>4. QED
      BY <1>3, <2>1, <3>2, <3>3, SizesAssumption
  <2>2. CASE closes
    BY <1>3, <2>2
  <2>3. QED
    BY <1>1, <2>1, <2>2
<1>5. OpenFits'
  BY <1>1, <1>3, <1>4 DEF OpenFits
<1>6. QED
  BY <1>2, <1>5 DEF Fit

\* The batch that is signed fits, and the next one starts with nothing.
LEMMA HashKeepsFit == IInv /\ Fit /\ ReadHash => Fit'
<1> SUFFICES ASSUME IInv, Fit, ReadHash PROVE Fit'
  OBVIOUS
<1>1. /\ pc = "hash" /\ dest_list' = <<>> /\ total_size' = 0 /\ dest_list # <<>>
      /\ UNCHANGED <<next, dests, each>>
  BY DEF ReadHash, IInv, Loop
<1>2. Weight(SignedBatch) <= MaxSize
  BY <1>1 DEF Fit, OpenFits, Open, Weight, SignedBatch, IInv, CallTypes
<1>3. BatchesFit'
  <2>1. CASE outbound' = outbound
    BY <1>1, <2>1 DEF Fit, BatchesFit, Weight
  <2>2. CASE outbound' = Append(outbound, SignedBatch)
    <3>1. \A k \in DOMAIN outbound' :
             outbound'[k] = SignedBatch \/ (k \in DOMAIN outbound /\ outbound'[k] = outbound[k])
      BY <2>2 DEF IInv, CallTypes, SignedBatch
    <3>2. SignedBatch.dests = dest_list
      BY DEF SignedBatch
    <3>3. \A k \in DOMAIN outbound' : Weight(outbound'[k]) <= MaxSize /\ outbound'[k].dests # <<>>
      BY <1>1, <1>2, <3>1, <3>2 DEF Fit, BatchesFit
    <3>4. QED
      BY <1>1, <3>3 DEF BatchesFit, Weight
  <2>3. QED
    BY <2>1, <2>2 DEF ReadHash
<1>4. OpenFits'
  <2> SUFFICES ASSUME pc' \in Open PROVE OpenFits'
    BY DEF OpenFits
  <2>1. next <= Len(dests)
    BY DEF ReadHash, AfterBatch, Open
  <2>2. each
    BY <1>1, <2>1 DEF Fit, OpenFits, Open, IInv, CallTypes
  <2>3. QED
    BY <1>1, <2>2, BytesOfNone, SizesAssumption DEF OpenFits
<1>5. QED
  BY <1>3, <1>4 DEF Fit

\* However the destinations are split, no batch is empty and none is larger
\* than MAX_CLIENT_MESSAGE_SIZE: total_size is never stale.
THEOREM BatchesRespectTheLimit == Spec => []BatchesFit
<1>1. Init => Fit
  BY DEF Init, Fit, OpenFits, Open, BatchesFit
<1>2. IInv /\ Fit /\ [Next]_vars => Fit'
  <2> SUFFICES ASSUME IInv, Fit, [Next]_vars PROVE Fit'
    OBVIOUS
  <2>1. CASE CreatePayloads \/ BatchNext \/ BatchEnd \/ ReadHash
    BY <2>1, PayloadsKeepFit, BatchKeepsFit, HashKeepsFit
  <2>2. CASE ReadNode
    <3>1. pc = "node" /\ pc' \in {"panicked", "hash"}
          /\ UNCHANGED <<outbound, each, next, dests, dest_list, total_size>>
      BY <2>2 DEF ReadNode
    <3>2. BatchesFit'
      BY <3>1 DEF Fit, BatchesFit, Weight
    <3>3. OpenFits'
      BY <3>1 DEF Fit, OpenFits, Open
    <3>4. QED
      BY <3>2, <3>3 DEF Fit
  <2>3. CASE Send \/ ResolveNext \/ ResolveEnd \/ Write \/ InsertResponse
    <3>1. UNCHANGED <<outbound, each>>
      BY <2>3 DEF Send, ResolveNext, ResolveEnd, Write, InsertResponse
    <3>2. pc' \notin Open
      BY <2>3 DEF Send, ResolveNext, ResolveEnd, Write, InsertResponse, Open
    <3>3. QED
      BY <3>1, <3>2, OthersKeepFit
  <2>4. CASE LinkStep \/ UNCHANGED vars
    <3>1. UNCHANGED callVars
      BY <2>4 DEF LinkStep, Dial, InstallNode, Disconnect, UpdateHash, vars
    <3>2. QED
      BY <3>1, OthersKeepFit DEF callVars
  <2>5. QED
    BY <2>1, <2>2, <2>3, <2>4 DEF Next, CallStep
<1>3. Fit => BatchesFit
  BY DEF Fit
<1>4. QED
  BY <1>1, <1>2, <1>3, AlwaysIInv, PTL DEF Spec
-----------------------------------------------------------------------------
(* Splitting is lossless *)

\* f is the loop behind FlattenSeq, over the first n of ss.
JoinsUpTo(f, n, ss) ==
    f = [i \in 1 .. n |-> IF i = 1 THEN ss[i] ELSE f[i - 1] \o ss[i]]

CanJoin(n, S, ss) == \E f \in [1 .. n -> Seq(S)] : JoinsUpTo(f, n, ss)

\* The loop has values, which are sequences.
LEMMA JoinExists ==
    ASSUME NEW S, NEW ss \in Seq(Seq(S))
    PROVE  CanJoin(Len(ss), S, ss)
<1> DEFINE T == {n \in Nat : n <= Len(ss) => CanJoin(n, S, ss)}
<1>1. 0 \in T
  <2> DEFINE f == [i \in 1 .. 0 |-> ss[i]]
  <2>1. f \in [1 .. 0 -> Seq(S)] /\ JoinsUpTo(f, 0, ss)
    BY DEF JoinsUpTo
  <2>2. QED
    BY <2>1 DEF CanJoin
<1>2. ASSUME NEW n \in T PROVE n + 1 \in T
  <2> SUFFICES ASSUME n + 1 <= Len(ss) PROVE CanJoin(n + 1, S, ss)
    OBVIOUS
  <2>1. n \in Nat /\ n <= Len(ss) /\ Len(ss) \in Nat
    OBVIOUS
  <2>2. PICK f \in [1 .. n -> Seq(S)] : JoinsUpTo(f, n, ss)
    BY <1>2, <2>1 DEF CanJoin
  <2>3. ss[n + 1] \in Seq(S)
    BY <2>1, ElementOfSeq
  <2> DEFINE last == IF n = 0 THEN ss[1] ELSE f[n] \o ss[n + 1]
             h == [i \in 1 .. n + 1 |-> IF i <= n THEN f[i] ELSE last]
  <2>4. last \in Seq(S)
    <3>1. CASE n = 0
      BY <2>3, <3>1
    <3>2. CASE n # 0
      <4>1. f[n] \in Seq(S)
        BY <2>1, <3>2
      <4>2. QED
        BY <2>3, <3>2, <4>1, ConcatProperties
    <3>3. QED
      BY <3>1, <3>2
  <2>5. h \in [1 .. n + 1 -> Seq(S)]
    <3> HIDE DEF last
    <3>1. QED
      BY <2>1, <2>4
  <2>6. ASSUME NEW i \in 1 .. n + 1
        PROVE  h[i] = IF i = 1 THEN ss[i] ELSE h[i - 1] \o ss[i]
    <3>1. CASE i <= n
      <4>1. f[i] = IF i = 1 THEN ss[i] ELSE f[i - 1] \o ss[i]
        <5>1. i \in 1 .. n
          BY <2>1, <3>1
        <5>2. QED
          BY <2>2, <5>1, Zenon DEF JoinsUpTo
      <4>2. h[i] = f[i] /\ (i # 1 => h[i - 1] = f[i - 1])
        BY <2>1, <3>1
      <4>3. QED
        BY <4>1, <4>2
    <3>2. CASE i = n + 1
      <4>1. h[i] = last /\ (n # 0 => h[i - 1] = f[n])
        BY <2>1, <3>2
      <4>2. QED
        BY <2>1, <3>2, <4>1
    <3>3. QED
      BY <2>1, <3>1, <3>2
  <2>7. JoinsUpTo(h, n + 1, ss)
    <3> DEFINE w == [i \in 1 .. n + 1 |-> IF i = 1 THEN ss[i] ELSE h[i - 1] \o ss[i]]
    <3> HIDE DEF last
    <3>1. \A i \in 1 .. n + 1 : h[i] = w[i]
      BY <2>6
    <3>2. DOMAIN h = 1 .. n + 1 /\ DOMAIN w = 1 .. n + 1
      OBVIOUS
    <3> HIDE DEF h
    <3>3. w = h
      BY <2>5, <3>1, <3>2
    <3>4. QED
      BY <3>3 DEF JoinsUpTo
  <2>8. QED
    BY <2>5, <2>7 DEF CanJoin
<1>3. T = Nat
  BY <1>1, <1>2, Induction
<1>4. Len(ss) \in T
  BY <1>3
<1>5. QED
  BY <1>4

\* FlattenSeq is the last value of the loop.
LEMMA FlattenIsAJoin ==
    ASSUME NEW S, NEW ss \in Seq(Seq(S)), Len(ss) # 0
    PROVE  \E f : JoinsUpTo(f, Len(ss), ss) /\ FlattenSeq(ss) = f[Len(ss)]
<1> DEFINE flatten == CHOOSE f : f = [i \in 1 .. Len(ss) |->
                                        IF i = 1 THEN ss[i] ELSE f[i - 1] \o ss[i]]
<1>1. FlattenSeq(ss) = flatten[Len(ss)]
  BY Zenon DEF FlattenSeq
<1>2. \E f : f = [i \in 1 .. Len(ss) |-> IF i = 1 THEN ss[i] ELSE f[i - 1] \o ss[i]]
  <2>1. PICK f : JoinsUpTo(f, Len(ss), ss)
    BY JoinExists DEF CanJoin
  <2>2. QED
    BY <2>1, Zenon DEF JoinsUpTo
<1>3. JoinsUpTo(flatten, Len(ss), ss)
  BY <1>2, Zenon DEF JoinsUpTo
<1>4. QED
  BY <1>1, <1>3, Zenon

\* Two lists have the same sequences in their first n places.
Alike(S, n, ss, ts) == \A k \in 1 .. n : ss[k] = ts[k] /\ ss[k] \in Seq(S)

\* Lists that start alike are joined alike, into a sequence.
LEMMA JoinsAgree ==
    ASSUME NEW S, NEW n \in Nat,
           NEW f, NEW ss, JoinsUpTo(f, n, ss),
           NEW h, NEW ts, JoinsUpTo(h, n + 1, ts),
           Alike(S, n, ss, ts)
    PROVE  Alike(S, n, f, h)
<1> DEFINE T == {k \in Nat : k >= 1 /\ k <= n => f[k] = h[k] /\ f[k] \in Seq(S)}
<1>1. 0 \in T
  OBVIOUS
<1>2. ASSUME NEW k \in T PROVE k + 1 \in T
  <2> SUFFICES ASSUME k + 1 <= n PROVE f[k + 1] = h[k + 1] /\ f[k + 1] \in Seq(S)
    OBVIOUS
  <2>1. k \in Nat /\ k + 1 \in 1 .. n /\ k + 1 \in 1 .. n + 1 /\ (k + 1) - 1 = k
    OBVIOUS
  <2>2. f[k + 1] = IF k + 1 = 1 THEN ss[k + 1] ELSE f[k] \o ss[k + 1]
    BY <2>1 DEF JoinsUpTo
  <2>3. h[k + 1] = IF k + 1 = 1 THEN ts[k + 1] ELSE h[k] \o ts[k + 1]
    BY <2>1 DEF JoinsUpTo
  <2>4. ss[k + 1] = ts[k + 1] /\ ss[k + 1] \in Seq(S)
    BY <2>1 DEF Alike
  <2>5. CASE k = 0
    BY <2>2, <2>3, <2>4, <2>5
  <2>6. CASE k # 0
    <3>1. f[k] = h[k] /\ f[k] \in Seq(S)
      BY <2>1, <2>6
    <3>2. f[k] \o ss[k + 1] \in Seq(S)
      BY <2>4, <3>1, ConcatProperties
    <3>3. QED
      BY <2>1, <2>2, <2>3, <2>4, <2>6, <3>1, <3>2
  <2>7. QED
    BY <2>5, <2>6
<1>3. T = Nat
  BY <1>1, <1>2, Induction
<1>4. \A k \in 1 .. n : k \in T
  BY <1>3
<1>5. QED
  BY <1>4 DEF Alike

\* One list more is appended to the join of the others.
LEMMA FlattenOfAppend ==
    ASSUME NEW S, NEW ss \in Seq(Seq(S)), NEW s \in Seq(S)
    PROVE  /\ FlattenSeq(ss) \in Seq(S)
           /\ FlattenSeq(Append(ss, s)) = FlattenSeq(ss) \o s
<1> DEFINE ts == Append(ss, s)
           n == Len(ss)
<1>1. /\ ts \in Seq(Seq(S)) /\ n \in Nat /\ Len(ts) = n + 1 /\ ts[n + 1] = s
      /\ \A k \in 1 .. n : ss[k] = ts[k]
  BY AppendProperties
<1>2. \A k \in 1 .. n : ss[k] \in Seq(S)
  BY ElementOfSeq
<1> HIDE DEF ts
<1>a. PICK h : JoinsUpTo(h, Len(ts), ts) /\ FlattenSeq(ts) = h[Len(ts)]
  <2>1. Len(ts) # 0
    BY <1>1
  <2>2. QED
    BY <1>1, <2>1, FlattenIsAJoin
<1>3. JoinsUpTo(h, n + 1, ts) /\ FlattenSeq(ts) = h[n + 1]
  BY <1>1, <1>a
<1>4. CASE n = 0
  <2>1. ss = <<>>
    BY <1>4
  <2>2. FlattenSeq(ss) = <<>>
    BY <2>1 DEF FlattenSeq
  <2>3. h[1] = ts[1]
    BY <1>3, <1>4 DEF JoinsUpTo
  <2>4. FlattenSeq(ts) = s
    BY <1>1, <1>3, <1>4, <2>3
  <2>5. QED
    BY <2>2, <2>4, ConcatEmptySeq, EmptySeq DEF ts
<1>5. CASE n # 0
  <2>1. PICK f : JoinsUpTo(f, n, ss) /\ FlattenSeq(ss) = f[n]
    BY <1>5, FlattenIsAJoin
  <2>2. \A k \in 1 .. n : f[k] = h[k] /\ f[k] \in Seq(S)
    <3>1. n \in Nat /\ Alike(S, n, ss, ts)
      BY <1>1, <1>2 DEF Alike
    <3> HIDE DEF n
    <3>2. Alike(S, n, f, h)
      BY <1>3, <2>1, <3>1, JoinsAgree
    <3>3. QED
      BY <3>2 DEF Alike
  <2>3. f[n] = h[n] /\ f[n] \in Seq(S)
    BY <1>1, <1>5, <2>2
  <2>4. h[n + 1] = h[n] \o ts[n + 1]
    <3>1. n + 1 \in 1 .. n + 1 /\ n + 1 # 1 /\ (n + 1) - 1 = n
      BY <1>1, <1>5
    <3>2. QED
      BY <1>3, <3>1 DEF JoinsUpTo
  <2>5. QED
    BY <1>1, <1>3, <2>1, <2>3, <2>4 DEF ts
<1>6. QED
  BY <1>4, <1>5
\* The lists of the batches.
Parts == [k \in DOMAIN outbound |-> outbound[k].dests]
Rest == SubSeq(dests, next, Len(dests))

\* They are lists of destinations, and so is what they join to.
LEMMA PartsAreLists ==
    ASSUME outbound \in Seq(Batches)
    PROVE  Parts \in Seq(Seq(Dests)) /\ FlattenSeq(Parts) \in Seq(Dests)
<1>1. DOMAIN outbound = 1 .. Len(outbound) /\ Len(outbound) \in Nat
  OBVIOUS
<1>2. \A k \in 1 .. Len(outbound) : outbound[k].dests \in Seq(Dests)
  <2>1. \A k \in 1 .. Len(outbound) : outbound[k] \in Batches
    BY ElementOfSeq
  <2>2. QED
    BY <2>1 DEF Batches
<1>3. Parts \in [1 .. Len(outbound) -> Seq(Dests)]
  BY <1>1, <1>2 DEF Parts
<1>4. Parts \in Seq(Seq(Dests))
  BY <1>1, <1>3, SeqDef
<1>5. QED
  BY <1>4, FlattenOfAppend, EmptySeq

\* The first steps: nothing is split yet, or there is one batch of all.
LEMMA PayloadsLoseNobody ==
    ASSUME IInv, CreatePayloads \/ ResolveEnd
    PROVE  NobodyIsLeftOut'
<1>1. outbound' = <<>> /\ dests' = dests /\ dests \in Seq(Dests) /\ dest_list = <<>>
  BY DEF IInv, Loop, CallTypes, CreatePayloads, ResolveEnd
<1>2. (FlattenSeq(Parts) = <<>>)'
  <2>1. Parts' = <<>>
    BY <1>1 DEF Parts
  <2>2. QED
    BY <2>1 DEF FlattenSeq
<1>3. <<>> \o <<>> = <<>> /\ <<>> \o dests = dests /\ dests \o <<>> = dests
  BY <1>1, ConcatEmptySeq, EmptySeq
<1>4. CASE next' = 1 /\ dest_list' = <<>>
  <2>1. Rest' = dests
    BY <1>1, <1>4, SubSeqFull DEF Rest
  <2>2. QED
    BY <1>2, <1>3, <1>1, <1>4, <2>1 DEF NobodyIsLeftOut, Parts, Rest
<1>5. CASE next' = Len(dests) + 1 /\ dest_list' = dests
  <2>1. Len(dests) \in Int /\ Len(dests) + 1 \in Int /\ Len(dests) < Len(dests) + 1
    BY <1>1
  <2>2. Rest' = <<>>
    BY <1>1, <1>5, <2>1, SubSeqEmpty DEF Rest
  <2>3. QED
    BY <1>2, <1>3, <1>1, <1>5, <2>2 DEF NobodyIsLeftOut, Parts, Rest
<1>6. CASE pc' = "error"
  BY <1>6 DEF NobodyIsLeftOut
<1>7. QED
  BY <1>1, <1>4, <1>5, <1>6 DEF CreatePayloads, ResolveEnd, IInv, Loop

\* A destination moves from the rest to the open batch.
LEMMA BatchLosesNobody ==
    ASSUME IInv, NobodyIsLeftOut, BatchNext \/ BatchEnd
    PROVE  NobodyIsLeftOut'
<1>1. pc = "batch" /\ UNCHANGED <<outbound, dests>>
  BY DEF BatchNext, BatchEnd
<1>2. /\ FlattenSeq(Parts) \o dest_list \o Rest = dests
      /\ FlattenSeq(Parts') = FlattenSeq(Parts)
  BY <1>1 DEF NobodyIsLeftOut, Parts, Rest
<1>3. /\ FlattenSeq(Parts) \in Seq(Dests) /\ dest_list \in Seq(Dests)
      /\ dests \in Seq(Dests) /\ next \in Nat \ {0}
  BY PartsAreLists DEF IInv, CallTypes
<1>4. CASE UNCHANGED <<dest_list, next>>
  BY <1>1, <1>2, <1>4 DEF NobodyIsLeftOut, Parts, Rest
<1>5. CASE /\ next <= Len(dests)
           /\ dest_list' = Append(dest_list, dests[next]) /\ next' = next + 1
  <2> DEFINE d == dests[next]
  <2>1. d \in Dests /\ <<d>> \in Seq(Dests)
    BY <1>3, <1>5
  <2>2. dest_list' = dest_list \o <<d>>
    BY <1>3, <1>5, <2>1, AppendIsConcat
  <2>3. next \in 1 .. Len(dests) /\ Len(dests) \in next .. Len(dests)
    BY <1>3, <1>5
  <2>4. Rest = <<d>> \o Rest'
    BY <1>1, <1>3, <1>5, <2>3, SubSeqRecursiveFirst DEF Rest
  <2>5. Rest' \in Seq(Dests)
    <3>1. \A i \in next + 1 .. Len(dests) : dests[i] \in Dests
      BY <1>3
    <3>2. Len(dests) \in Int /\ next + 1 \in Int
      BY <1>3
    <3>3. QED
      BY <1>1, <1>5, <3>1, <3>2, SubSeqProperties DEF Rest
  <2> HIDE DEF d
  <2>6. (FlattenSeq(Parts) \o dest_list) \o (<<d>> \o Rest')
          = (FlattenSeq(Parts) \o (dest_list \o <<d>>)) \o Rest'
    <3> DEFINE F == FlattenSeq(Parts)
               R == Rest'
    <3>1. F \o dest_list \in Seq(Dests)
      BY <1>3, ConcatProperties
    <3> HIDE DEF F, R
    <3>2. ((F \o dest_list) \o <<d>>) \o R = (F \o dest_list) \o (<<d>> \o R)
      BY <2>1, <2>5, <3>1, ConcatAssociative DEF R
    <3>3. (F \o dest_list) \o <<d>> = F \o (dest_list \o <<d>>)
      BY <1>3, <2>1, ConcatAssociative DEF F
    <3>4. QED
      BY <3>2, <3>3 DEF F, R
  <2>7. FlattenSeq(Parts') \o dest_list' \o Rest' = dests'
    BY <1>1, <1>2, <2>2, <2>4, <2>6
  <2>8. QED
    BY <2>7 DEF NobodyIsLeftOut, Parts, Rest
<1>6. QED
  BY <1>4, <1>5 DEF BatchNext, BatchEnd

\* The open batch becomes the last of the batches.
LEMMA HashLosesNobody ==
    ASSUME IInv, NobodyIsLeftOut, ReadHash
    PROVE  NobodyIsLeftOut'
<1>1. pc = "hash" /\ dest_list' = <<>> /\ UNCHANGED <<next, dests>>
  BY DEF ReadHash
<1>2. CASE pc' \in {"error", "panicked"}
  BY <1>2 DEF NobodyIsLeftOut
<1>3. CASE outbound' = Append(outbound, SignedBatch)
  <2>1. /\ FlattenSeq(Parts) \in Seq(Dests) /\ Parts \in Seq(Seq(Dests))
        /\ dest_list \in Seq(Dests) /\ outbound \in Seq(Batches)
    BY PartsAreLists DEF IInv, CallTypes
  <2>2. Parts' = Append(Parts, dest_list)
    <3>1. DOMAIN outbound' = 1 .. Len(outbound) + 1 /\ DOMAIN outbound = 1 .. Len(outbound)
      BY <1>3, <2>1
    <3>2. \A k \in 1 .. Len(outbound) : outbound'[k] = outbound[k]
      BY <1>3, <2>1
    <3>3. outbound'[Len(outbound) + 1].dests = dest_list
      BY <1>3, <2>1 DEF SignedBatch
    <3>4. Len(Parts) = Len(outbound)
      BY <2>1, <3>1 DEF Parts
    <3>5. QED
      BY <2>1, <3>1, <3>2, <3>3, <3>4 DEF Parts
  <2>3. FlattenSeq(Parts') = FlattenSeq(Parts) \o dest_list
    BY <2>1, <2>2, FlattenOfAppend
  <2>4. FlattenSeq(Parts) \o dest_list \in Seq(Dests)
    BY <2>1, ConcatProperties
  <2>5. (FlattenSeq(Parts) \o dest_list) \o <<>> = FlattenSeq(Parts) \o dest_list
    BY <2>4, ConcatEmptySeq
  <2>6. FlattenSeq(Parts) \o dest_list \o Rest = dests
    BY <1>1 DEF NobodyIsLeftOut, Parts, Rest
  <2>7. FlattenSeq(Parts') \o dest_list' \o Rest' = dests'
    BY <1>1, <2>3, <2>5, <2>6 DEF Rest
  <2>8. QED
    BY <2>7 DEF NobodyIsLeftOut, Parts, Rest
<1>4. QED
  BY <1>2, <1>3 DEF ReadHash

\* For every list of destinations and every limit: a call that gets through
\* sends to each destination, once and in the caller's order.
THEOREM SplitsWithoutLoss == Spec => []NobodyIsLeftOut
<1>1. Init => NobodyIsLeftOut
  BY DEF Init, NobodyIsLeftOut
<1>2. IInv /\ NobodyIsLeftOut /\ [Next]_vars => NobodyIsLeftOut'
  <2> SUFFICES ASSUME IInv, NobodyIsLeftOut, [Next]_vars PROVE NobodyIsLeftOut'
    OBVIOUS
  <2>1. CASE CreatePayloads \/ ResolveEnd \/ BatchNext \/ BatchEnd \/ ReadHash
    BY <2>1, PayloadsLoseNobody, BatchLosesNobody, HashLosesNobody
  <2>2. CASE Send \/ ResolveNext
    BY <2>2 DEF Send, ResolveNext, NobodyIsLeftOut
  <2>3. CASE ReadNode \/ Write \/ InsertResponse
    <3>1. pc \in {"node", "write", "insert"} /\ UNCHANGED <<outbound, dests, dest_list, next>>
      BY <2>3 DEF ReadNode, Write, InsertResponse
    <3>2. QED
      BY <3>1 DEF NobodyIsLeftOut
  <2>4. CASE LinkStep \/ UNCHANGED vars
    <3>1. UNCHANGED callVars
      BY <2>4 DEF LinkStep, Dial, InstallNode, Disconnect, UpdateHash, vars
    <3>2. QED
      BY <3>1 DEF callVars, NobodyIsLeftOut
  <2>5. QED
    BY <2>1, <2>2, <2>3, <2>4 DEF Next, CallStep
<1>3. QED
  BY <1>1, <1>2, AlwaysIInv, PTL DEF Spec

-----------------------------------------------------------------------------
(* Quotients *)

\* Quotient and remainder.
LEMMA Divides ==
    ASSUME NEW v \in Nat, NEW d \in Nat \ {0}
    PROVE  /\ v \div d \in Nat /\ v % d \in 0 .. d - 1
           /\ v = d * (v \div d) + (v % d)
<1>1. v % d \in 0 .. d - 1
  OBVIOUS
<1>2. v \div d \in Int
  OBVIOUS
<1>3. v = d * (v \div d) + (v % d)
  OBVIOUS
<1>4. v \div d >= 0
  OBVIOUS
<1>5. QED
  BY <1>1, <1>2, <1>3, <1>4

\* They are the only ones.
LEMMA OneQuotient ==
    ASSUME NEW d \in Nat \ {0}, NEW p \in Nat, NEW q \in Nat,
           NEW r \in 0 .. d - 1, NEW s \in 0 .. d - 1,
           d * p + r = d * q + s
    PROVE  p = q /\ r = s
<1>1. ~ (p > q)
  <2> SUFFICES ASSUME p > q PROVE FALSE
    OBVIOUS
  <2>1. d * (p - q) = s - r
    OBVIOUS
  <2>2. p - q >= 1 /\ p - q \in Nat
    OBVIOUS
  <2>3. d * (p - q) >= d
    BY <2>2
  <2>4. QED
    BY <2>1, <2>3
<1>2. ~ (q > p)
  <2> SUFFICES ASSUME q > p PROVE FALSE
    OBVIOUS
  <2>1. d * (q - p) = r - s
    OBVIOUS
  <2>2. q - p >= 1 /\ q - p \in Nat
    OBVIOUS
  <2>3. d * (q - p) >= d
    BY <2>2
  <2>4. QED
    BY <2>1, <2>3
<1>3. p = q
  BY <1>1, <1>2
<1>4. QED
  BY <1>3

\* The last digit and the one before it make the remainder by d * d.
LEMMA LowHalves ==
    ASSUME NEW d \in Nat \ {0}, NEW v \in Nat
    PROVE  ((v \div d) % d) * d + (v % d) = v % (d * d)
<1>1. PICK q \in Nat, r \in 0 .. d - 1 : q = v \div d /\ r = v % d /\ v = d * q + r
  BY Divides
<1>2. PICK p \in Nat, s \in 0 .. d - 1 : p = q \div d /\ s = q % d /\ q = d * p + s
  BY Divides
<1>3. v = (d * d) * p + (d * s + r)
  <2>1. d * q = d * (d * p) + d * s
    BY <1>2
  <2>2. d * (d * p) = (d * d) * p
    OBVIOUS
  <2>3. PICK x \in Int, y \in Int, z \in Int :
           x = d * q /\ y = (d * d) * p /\ z = d * s
    OBVIOUS
  <2>4. v = x + r /\ x = y + z
    BY <1>1, <2>1, <2>2, <2>3
  <2>5. v = y + (z + r)
    BY <2>4
  <2>6. QED
    BY <2>3, <2>5
<1>4. d * s + r \in 0 .. (d * d) - 1
  <2>1. d * s <= d * (d - 1)
    OBVIOUS
  <2>2. d * (d - 1) = d * d - d
    OBVIOUS
  <2>3. d * s >= 0 /\ d * s \in Int
    OBVIOUS
  <2>4. QED
    BY <2>1, <2>2, <2>3
<1>5. d * d \in Nat \ {0}
  OBVIOUS
<1>6. PICK e \in Nat \ {0} : e = d * d
  BY <1>5
<1>7. /\ v \div e \in Nat /\ v % e \in 0 .. e - 1 /\ v = e * (v \div e) + (v % e)
  BY <1>6, Divides
<1>8. PICK t \in 0 .. e - 1 : t = d * s + r
  BY <1>4, <1>6
<1>9. e * (v \div e) + (v % e) = e * p + t
  BY <1>3, <1>6, <1>7, <1>8
<1>10. v % e = t
  BY <1>7, <1>9, OneQuotient
<1>11. s * d = d * s
  OBVIOUS
<1>12. QED
  BY <1>1, <1>2, <1>6, <1>8, <1>10, <1>11

-----------------------------------------------------------------------------
(* Integers as bytes *)

\* The numbers of values of 1, 2, 4 and 8 bytes.
LEMMA Widths ==
    /\ Byte \in Nat \ {0} /\ Byte2 \in Nat \ {0} /\ Byte4 \in Nat \ {0}
    /\ Byte8 \in Nat \ {0}
    /\ FD \in Nat /\ FE \in Nat /\ FF \in Nat /\ FF < Byte /\ FD < Byte2
<1>1. Byte \in Nat \ {0} /\ Byte > 3
  BY SerializationAssumption
<1>2. Byte2 \in Nat \ {0}
  BY <1>1 DEF Byte2
<1>3. Byte4 \in Nat \ {0}
  BY <1>2 DEF Byte4
<1>4. Byte8 \in Nat \ {0}
  BY <1>3 DEF Byte8
<1>5. Byte * Byte >= Byte
  BY <1>1
<1>6. FD < Byte2
  BY <1>1, <1>5 DEF FD, Byte2
<1>7. QED
  BY <1>1, <1>2, <1>3, <1>4, <1>6 DEF FD, FE, FF

\* b is two byte strings put together.
Joins(b, p, x) == b = p \o x

\* Their elements.
LEMMA Joined ==
    ASSUME NEW p \in Seq(Nat), NEW x \in Seq(Nat), NEW b, Joins(b, p, x)
    PROVE  /\ b \in Seq(Nat) /\ Len(b) = Len(p) + Len(x)
           /\ \A i \in 1 .. Len(p) : b[i] = p[i]
           /\ \A i \in 1 .. Len(x) : b[Len(p) + i] = x[i]
           /\ \A n \in Nat : n = Len(p) => Left(b, n) = x
BY DEF Joins, Left

\* put_u16 of the last two bytes, and what get_u16 makes of it, whatever
\* follows.
LEMMA TwoBytes ==
    ASSUME NEW v \in Nat
    PROVE  /\ put_u16(v) \in Seq(Nat) /\ Len(put_u16(v)) = 2
           /\ \A b, i : b[i] = put_u16(v)[1] /\ b[i + 1] = put_u16(v)[2]
                            => get_u16(b, i) = v % Byte2
<1>1. v \div Byte \in Nat /\ (v \div Byte) % Byte \in Nat /\ v % Byte \in Nat
  BY Widths, Divides
<1>2. /\ put_u16(v) \in Seq(Nat) /\ Len(put_u16(v)) = 2
      /\ put_u16(v)[1] = (v \div Byte) % Byte /\ put_u16(v)[2] = v % Byte
  BY <1>1 DEF put_u16, put_u8
<1>3. ((v \div Byte) % Byte) * Byte + (v % Byte) = v % Byte2
  BY Widths, LowHalves DEF Byte2
<1>4. QED
  BY <1>2, <1>3 DEF get_u16

\* The same for put_u32 and get_u32.
LEMMA FourBytes ==
    ASSUME NEW v \in Nat
    PROVE  /\ put_u32(v) \in Seq(Nat) /\ Len(put_u32(v)) = 4
           /\ \A b : \A i \in Nat :
                (\A k \in 0 .. 3 : b[i + k] = put_u32(v)[1 + k])
                   => get_u32(b, i) = v % Byte4
<1>1. v \div Byte2 \in Nat /\ (v \div Byte2) % Byte2 \in Nat /\ v % Byte2 \in Nat
  BY Widths, Divides
<1>2. PICK p \in Seq(Nat), q \in Seq(Nat) :
         p = put_u16(v \div Byte2) /\ q = put_u16(v) /\ Len(p) = 2 /\ Len(q) = 2
  BY <1>1, TwoBytes
<1>3. PICK all : all = put_u32(v)
  OBVIOUS
<1>4. /\ all \in Seq(Nat) /\ Len(all) = 4
      /\ all[1] = p[1] /\ all[2] = p[2] /\ all[3] = q[1] /\ all[4] = q[2]
  <2>1. Joins(all, p, q)
    BY <1>2, <1>3 DEF put_u32, Joins
  <2>2. /\ all \in Seq(Nat) /\ Len(all) = Len(p) + Len(q)
        /\ \A i \in 1 .. Len(p) : all[i] = p[i]
        /\ \A i \in 1 .. Len(q) : all[Len(p) + i] = q[i]
    BY <2>1, Joined
  <2>3. ASSUME NEW i \in 1 .. 2 PROVE all[i] = p[i] /\ all[2 + i] = q[i]
    BY <1>2, <2>2
  <2>4. all[1] = p[1] /\ all[2] = p[2] /\ all[2 + 1] = q[1] /\ all[2 + 2] = q[2]
    BY <2>3
  <2>5. QED
    BY <1>2, <2>2, <2>4
<1>5. ASSUME NEW b, NEW i \in Nat, \A k \in 0 .. 3 : b[i + k] = all[1 + k]
      PROVE  get_u32(b, i) = v % Byte4
  <2>1. b[i] = p[1] /\ b[i + 1] = p[2] /\ b[i + 2] = q[1] /\ b[(i + 2) + 1] = q[2]
    <3>1. b[i + 0] = all[1 + 0] /\ b[i + 1] = all[1 + 1] /\ b[i + 2] = all[1 + 2]
          /\ b[i + 3] = all[1 + 3]
      BY <1>5
    <3>2. i + 0 = i /\ (i + 2) + 1 = i + 3
      OBVIOUS
    <3>3. QED
      BY <1>4, <3>1, <3>2
  <2>2. get_u16(b, i) = (v \div Byte2) % Byte2
    BY <1>1, <1>2, <2>1, TwoBytes
  <2>3. get_u16(b, i + 2) = v % Byte2
    BY <1>2, <2>1, TwoBytes
  <2>4. ((v \div Byte2) % Byte2) * Byte2 + (v % Byte2) = v % Byte4
    BY Widths, LowHalves DEF Byte4
  <2>5. QED
    BY <2>2, <2>3, <2>4 DEF get_u32
<1>6. QED
  BY <1>3, <1>4, <1>5

\* And for put_u64 and get_u64.
LEMMA EightBytes ==
    ASSUME NEW v \in Nat
    PROVE  /\ put_u64(v) \in Seq(Nat) /\ Len(put_u64(v)) = 8
           /\ \A b : \A i \in Nat :
                (\A k \in 0 .. 7 : b[i + k] = put_u64(v)[1 + k])
                   => get_u64(b, i) = v % Byte8
<1>1. v \div Byte4 \in Nat /\ (v \div Byte4) % Byte4 \in Nat /\ v % Byte4 \in Nat
  BY Widths, Divides
<1>2. PICK p \in Seq(Nat), q \in Seq(Nat) :
         p = put_u32(v \div Byte4) /\ q = put_u32(v) /\ Len(p) = 4 /\ Len(q) = 4
  BY <1>1, FourBytes
<1>3. PICK all : all = put_u64(v)
  OBVIOUS
<1>4. /\ all \in Seq(Nat) /\ Len(all) = 8
      /\ \A k \in 0 .. 3 : all[1 + k] = p[1 + k]
      /\ \A k \in 0 .. 3 : all[5 + k] = q[1 + k]
  <2>1. Joins(all, p, q)
    BY <1>2, <1>3 DEF put_u64, Joins
  <2>2. /\ all \in Seq(Nat) /\ Len(all) = Len(p) + Len(q)
        /\ \A i \in 1 .. Len(p) : all[i] = p[i]
        /\ \A i \in 1 .. Len(q) : all[Len(p) + i] = q[i]
    BY <2>1, Joined
  <2>3. ASSUME NEW k \in 0 .. 3
        PROVE  all[1 + k] = p[1 + k] /\ all[5 + k] = q[1 + k]
    <3>1. 1 + k \in 1 .. 4 /\ 4 + (1 + k) = 5 + k
      OBVIOUS
    <3>2. all[1 + k] = p[1 + k] /\ all[4 + (1 + k)] = q[1 + k]
      BY <1>2, <2>2, <3>1
    <3>3. QED
      BY <3>1, <3>2
  <2>4. QED
    BY <1>2, <2>2, <2>3
<1>5. ASSUME NEW b, NEW i \in Nat, \A k \in 0 .. 7 : b[i + k] = all[1 + k]
      PROVE  get_u64(b, i) = v % Byte8
  <2>1. \A k \in 0 .. 3 : b[i + k] = p[1 + k]
    <3> SUFFICES ASSUME NEW k \in 0 .. 3 PROVE b[i + k] = p[1 + k]
      OBVIOUS
    <3>1. k \in 0 .. 7
      OBVIOUS
    <3>2. b[i + k] = all[1 + k]
      BY <1>5, <3>1
    <3>3. QED
      BY <1>4, <3>2
  <2>2. \A k \in 0 .. 3 : b[(i + 4) + k] = q[1 + k]
    <3> SUFFICES ASSUME NEW k \in 0 .. 3 PROVE b[(i + 4) + k] = q[1 + k]
      OBVIOUS
    <3>1. k + 4 \in 0 .. 7 /\ (i + 4) + k = i + (k + 4) /\ 1 + (k + 4) = 5 + k
      OBVIOUS
    <3>2. b[i + (k + 4)] = all[1 + (k + 4)]
      BY <1>5, <3>1
    <3>3. QED
      BY <1>4, <3>1, <3>2
  <2>3. get_u32(b, i) = (v \div Byte4) % Byte4
    BY <1>1, <1>2, <2>1, FourBytes
  <2>4. get_u32(b, i + 4) = v % Byte4
    <3>1. i + 4 \in Nat
      OBVIOUS
    <3>2. QED
      BY <1>2, <2>2, <3>1, FourBytes
  <2>5. ((v \div Byte4) % Byte4) * Byte4 + (v % Byte4) = v % Byte8
    BY Widths, LowHalves DEF Byte8
  <2>6. QED
    BY <2>3, <2>4, <2>5 DEF get_u64
<1>6. QED
  BY <1>3, <1>4, <1>5

\* The four forms of an integer.
LEMMA Forms ==
    ASSUME NEW v \in Nat
    PROVE  \/ v < FD /\ write_var_u64(v) = put_u8(v)
           \/ v >= FD /\ v < Byte2 /\ write_var_u64(v) = <<FD>> \o put_u16(v)
           \/ v >= FD /\ v < Byte4 /\ write_var_u64(v) = <<FE>> \o put_u32(v)
           \/ v >= FD /\ write_var_u64(v) = <<FF>> \o put_u64(v)
<1> FD \in Nat /\ Byte2 \in Nat /\ Byte4 \in Nat /\ FD < Byte2
  BY Widths
<1>1. CASE v < FD
  BY <1>1 DEF write_var_u64
<1>2. CASE v >= FD /\ v < Byte2
  BY <1>2 DEF write_var_u64
<1>3. CASE v >= FD /\ v >= Byte2 /\ v < Byte4
  BY <1>3 DEF write_var_u64
<1>4. CASE v >= FD /\ v >= Byte2 /\ v >= Byte4
  BY <1>4 DEF write_var_u64
<1>5. QED
  BY <1>1, <1>2, <1>3, <1>4

\* A value that fits is its own remainder.
LEMMA Fits ==
    ASSUME NEW v \in Nat, NEW d \in Nat \ {0}, v < d
    PROVE  v % d = v
<1>1. v \div d \in Nat /\ v % d \in 0 .. d - 1 /\ d * (v \div d) + (v % d) = v
  BY Divides
<1>2. d * 0 = 0 /\ v \in 0 .. d - 1
  OBVIOUS
<1>3. d * (v \div d) + (v % d) = d * 0 + v
  BY <1>1, <1>2
<1>4. QED
  BY <1>1, <1>2, <1>3, OneQuotient

\* What is read of a prefix of one byte.
LEMMA AfterPrefix ==
    ASSUME NEW h \in Seq(Nat), NEW y \in Seq(Nat), NEW b, Joins(b, h, y)
    PROVE  Len(h) = 1 => read_u8(b).val = h[1] /\ read_u8(b).rest = y
<1>1. /\ \A n \in Nat : n = Len(h) => Left(b, n) = y
      /\ \A i \in 1 .. Len(h) : b[i] = h[i]
  BY Joined
<1>2. Len(h) = 1 => b[1] = h[1] /\ Left(b, 1) = y
  BY <1>1
<1>3. QED
  BY <1>2 DEF read_u8

\* The bytes of an integer with a prefix, and what follows them.
LEMMA Regroup ==
    ASSUME NEW c \in Nat, NEW p \in Seq(Nat), NEW x \in Seq(Nat), NEW w, NEW b,
           Joins(w, <<c>>, p), Joins(b, w, x)
    PROVE  \E h \in Seq(Nat), y \in Seq(Nat) :
              Len(h) = 1 /\ h[1] = c /\ Joins(y, p, x) /\ Joins(b, h, y)
<1>1. PICK h : h = <<c>>
  OBVIOUS
<1>2. h \in Seq(Nat) /\ Len(h) = 1 /\ h[1] = c
  BY <1>1
<1>3. PICK y : Joins(y, p, x)
  BY DEF Joins
<1>4. y \in Seq(Nat)
  BY <1>3, Joined
<1>5. (<<c>> \o p) \o x = <<c>> \o (p \o x)
  OBVIOUS
<1>6. b = h \o y
  BY <1>1, <1>3, <1>5, Zenon DEF Joins
<1>7. QED
  BY <1>2, <1>3, <1>4, <1>6 DEF Joins

\* What read_var_u64 makes of a prefix.
LEMMA ReadByPrefix ==
    ASSUME NEW h \in Seq(Nat), NEW y \in Seq(Nat), NEW b, Joins(b, h, y)
    PROVE  Len(h) = 1 =>
             /\ h[1] = FD => read_var_u64(b) = read_u16(y)
             /\ h[1] = FE => read_var_u64(b) = read_u32(y)
             /\ h[1] = FF => read_var_u64(b) = read_u64(y)
             /\ h[1] \notin {FD, FE, FF} => read_var_u64(b) = read_u8(y)
<1>1. Len(h) = 1 => read_u8(b).val = h[1] /\ read_u8(b).rest = y
  BY AfterPrefix
<1>2. FD # FE /\ FD # FF /\ FE # FF
  BY SerializationAssumption DEF FD, FE, FF
<1>3. QED
  BY <1>1, <1>2 DEF read_var_u64

\* read_var_u64 undoes write_var_u64 from 0xFD on.
LEMMA ReadBack ==
    ASSUME NEW v \in Nat, v < Byte8, v >= FD, NEW x \in Seq(Nat), NEW b,
           Joins(b, write_var_u64(v), x)
    PROVE  read_var_u64(b) = [val |-> v, rest |-> x]
<1> FD \in Nat /\ FE \in Nat /\ FF \in Nat
  BY Widths
<1>1. CASE v < Byte2 /\ write_var_u64(v) = <<FD>> \o put_u16(v)
  <2>1. PICK p \in Seq(Nat) : p = put_u16(v) /\ Len(p) = 2
    BY TwoBytes
  <2>2. PICK h \in Seq(Nat), y \in Seq(Nat) :
           Len(h) = 1 /\ h[1] = FD /\ Joins(y, p, x) /\ Joins(b, h, y)
    <3>1. Joins(write_var_u64(v), <<FD>>, p)
      BY <1>1, <2>1 DEF Joins
    <3>2. QED
      BY <3>1, Regroup
  <2>3. read_var_u64(b) = read_u16(y)
    BY <2>2, ReadByPrefix
  <2>4. /\ \A n \in Nat : n = Len(p) => Left(y, n) = x
        /\ \A i \in 1 .. Len(p) : y[i] = p[i]
    BY <2>2, Joined
  <2>5. Left(y, 2) = x /\ y[1] = p[1] /\ y[1 + 1] = p[2]
    BY <2>1, <2>4
  <2>6. get_u16(y, 1) = v % Byte2
    BY <2>1, <2>5, TwoBytes
  <2>7. v % Byte2 = v
    BY <1>1, Widths, Fits
  <2>8. QED
    BY <2>3, <2>5, <2>6, <2>7 DEF read_u16
<1>2. CASE v < Byte4 /\ write_var_u64(v) = <<FE>> \o put_u32(v)
  <2>1. PICK p \in Seq(Nat) : p = put_u32(v) /\ Len(p) = 4
    BY FourBytes
  <2>2. PICK h \in Seq(Nat), y \in Seq(Nat) :
           Len(h) = 1 /\ h[1] = FE /\ Joins(y, p, x) /\ Joins(b, h, y)
    <3>1. Joins(write_var_u64(v), <<FE>>, p)
      BY <1>2, <2>1 DEF Joins
    <3>2. QED
      BY <3>1, Regroup
  <2>3. read_var_u64(b) = read_u32(y)
    BY <2>2, ReadByPrefix
  <2>4. /\ \A n \in Nat : n = Len(p) => Left(y, n) = x
        /\ \A i \in 1 .. Len(p) : y[i] = p[i]
    BY <2>2, Joined
  <2>5. Left(y, 4) = x /\ \A k \in 0 .. 3 : y[1 + k] = p[1 + k]
    BY <2>1, <2>4
  <2>6. get_u32(y, 1) = v % Byte4
    BY <2>1, <2>5, FourBytes
  <2>7. v % Byte4 = v
    BY <1>2, Widths, Fits
  <2>8. QED
    BY <2>3, <2>5, <2>6, <2>7 DEF read_u32
<1>3. CASE write_var_u64(v) = <<FF>> \o put_u64(v)
  <2>1. PICK p \in Seq(Nat) : p = put_u64(v) /\ Len(p) = 8
    BY EightBytes
  <2>2. PICK h \in Seq(Nat), y \in Seq(Nat) :
           Len(h) = 1 /\ h[1] = FF /\ Joins(y, p, x) /\ Joins(b, h, y)
    <3>1. Joins(write_var_u64(v), <<FF>>, p)
      BY <1>3, <2>1 DEF Joins
    <3>2. QED
      BY <3>1, Regroup
  <2>3. read_var_u64(b) = read_u64(y)
    BY <2>2, ReadByPrefix
  <2>4. /\ \A n \in Nat : n = Len(p) => Left(y, n) = x
        /\ \A i \in 1 .. Len(p) : y[i] = p[i]
    BY <2>2, Joined
  <2>5. Left(y, 8) = x /\ \A k \in 0 .. 7 : y[1 + k] = p[1 + k]
    BY <2>1, <2>4
  <2>6. get_u64(y, 1) = v % Byte8
    BY <2>1, <2>5, EightBytes
  <2>7. v % Byte8 = v
    BY Widths, Fits
  <2>8. QED
    BY <2>3, <2>5, <2>6, <2>7 DEF read_u64
<1>4. QED
  BY <1>1, <1>2, <1>3, Forms

\* A value without a prefix is skipped.
LEMMA Skipped ==
    ASSUME NEW v \in Nat, v < FD, NEW x \in Seq(Nat), NEW b, Joins(b, write_var_u64(v), x)
    PROVE  read_var_u64(b) = read_u8(x)
<1>1. FD \in Nat /\ FE \in Nat /\ FF \in Nat /\ FD < FE /\ FE < FF /\ FF < Byte /\ Byte \in Nat \ {0}
  BY Widths, SerializationAssumption DEF FD, FE, FF
<1>2. PICK h \in Seq(Nat) : h = write_var_u64(v) /\ Len(h) = 1 /\ h[1] = v
  <2>1. v % Byte = v
    BY <1>1, Fits
  <2>2. write_var_u64(v) = put_u8(v)
    <3>1. ~(v >= FD)
      BY <1>1
    <3> QED
      BY <3>1, Forms
  <2>3. write_var_u64(v) = <<v>>
    BY <2>1, <2>2 DEF put_u8
  <2>4. <<v>> \in Seq(Nat) /\ Len(<<v>>) = 1 /\ <<v>>[1] = v
    OBVIOUS
  <2> QED
    BY <2>3, <2>4
<1>3. h[1] \notin {FD, FE, FF}
  BY <1>1, <1>2
<1> QED
  BY <1>2, <1>3, ReadByPrefix

\* Every value with a prefix, and what follows it, is read back, whatever the
\* number of values of a byte: the widths change at the right places.  Every
\* value without one is skipped.
THEOREM PrefixedIntegersAreReadBack == Spec => []PrefixedIntIsReadBack
<1>1. PrefixedIntsAreReadBack
  <2> SUFFICES ASSUME NEW v \in Vals, NEW x \in Strings
               PROVE  /\ v >= FD => read_var_u64(write_var_u64(v) \o x) = [val |-> v, rest |-> x]
                      /\ v < FD => read_var_u64(write_var_u64(v) \o x) = read_u8(x)
    BY DEF PrefixedIntsAreReadBack
  <2>1. v \in Nat /\ v < Byte8
    BY Widths, SerializationAssumption
  <2>2. x \in Seq(Nat)
    <3>1. x \in Seq(0 .. Byte - 1)
      BY SerializationAssumption
    <3>2. QED
      BY <3>1, Widths
  <2>3. PICK b : Joins(b, write_var_u64(v), x)
    BY DEF Joins
  <2>4. v >= FD => read_var_u64(b) = [val |-> v, rest |-> x]
    BY <2>1, <2>2, <2>3, ReadBack
  <2>5. v < FD => read_var_u64(b) = read_u8(x)
    BY <2>1, <2>2, <2>3, Skipped
  <2>6. QED
    BY <2>3, <2>4, <2>5 DEF Joins
<1>2. PrefixedIntIsReadBack
  BY <1>1 DEF PrefixedIntIsReadBack
<1>3. QED
  BY <1>2, PTL

-----------------------------------------------------------------------------
(* What is signed *)

\* Two byte strings that begin with parts of the same length.
LEMMA SamePrefix ==
    ASSUME NEW p \in Seq(Nat), NEW q \in Seq(Nat), NEW x \in Seq(Nat), NEW y \in Seq(Nat),
           NEW b, Joins(b, p, x), Joins(b, q, y)
    PROVE  Len(p) = Len(q) => p = q /\ x = y
<1>1. /\ b \in Seq(Nat) /\ Len(b) = Len(p) + Len(x)
      /\ \A i \in 1 .. Len(p) : b[i] = p[i]
      /\ \A n \in Nat : n = Len(p) => Left(b, n) = x
  BY Joined
<1>2. /\ Len(b) = Len(q) + Len(y)
      /\ \A i \in 1 .. Len(q) : b[i] = q[i]
      /\ \A n \in Nat : n = Len(q) => Left(b, n) = y
  BY Joined
<1>3. Len(p) \in Nat /\ Len(q) \in Nat
  OBVIOUS
<1>4. Len(p) = Len(q) => x = y
  BY <1>1, <1>2, <1>3
<1>5. Len(p) = Len(q) => \A i \in 1 .. Len(p) : p[i] = q[i]
  BY <1>1, <1>2
<1>6. Len(p) = Len(q) => p = q
  BY <1>5, SeqEqual
<1>7. QED
  BY <1>4, <1>6

\* The length of an integer, by its first byte.
WidthOf(first) ==
    IF first = FD THEN 3 ELSE IF first = FE THEN 5 ELSE IF first = FF THEN 9 ELSE 1

\* A byte and what follows it.
LEMMA Prefixed ==
    ASSUME NEW c \in Nat, NEW p \in Seq(Nat), NEW w, Joins(w, <<c>>, p)
    PROVE  w \in Seq(Nat) /\ Len(w) = Len(p) + 1 /\ w[1] = c
BY DEF Joins

\* Each encoding has the length its first byte tells.
LEMMA WidthOfInteger ==
    ASSUME NEW v \in Nat, NEW w, w = write_var_u64(v)
    PROVE  /\ w \in Seq(Nat) /\ Len(w) > 0 /\ Len(w) = WidthOf(w[1])
           /\ v < FD => w = <<v>>
           /\ v >= FD => w[1] >= FD
<1> FD \in Nat /\ FE \in Nat /\ FF \in Nat
  BY Widths
<1> FD < FE /\ FE < FF
  BY SerializationAssumption DEF FD, FE, FF
<1>1. CASE v < FD /\ w = put_u8(v)
  <2>1. v % Byte = v
    BY <1>1, Fits, Widths DEF FD, FF
  <2>2. w = <<v>>
    BY <1>1, <2>1 DEF put_u8
  <2>3. QED
    BY <1>1, <2>2 DEF WidthOf
<1>3. CASE v >= FD /\ w = <<FD>> \o put_u16(v)
  <2>1. PICK p \in Seq(Nat) : p = put_u16(v) /\ Len(p) = 2
    BY TwoBytes
  <2>2. Joins(w, <<FD>>, p)
    BY <1>3, <2>1 DEF Joins
  <2>3. w \in Seq(Nat) /\ Len(w) = Len(p) + 1 /\ w[1] = FD
    BY <2>2, Prefixed
  <2>4. Len(w) = 3
    BY <2>1, <2>3
  <2>5. QED
    BY <1>3, <2>3, <2>4 DEF WidthOf
<1>4. CASE v >= FD /\ w = <<FE>> \o put_u32(v)
  <2>1. PICK p \in Seq(Nat) : p = put_u32(v) /\ Len(p) = 4
    BY FourBytes
  <2>2. Joins(w, <<FE>>, p)
    BY <1>4, <2>1 DEF Joins
  <2>3. w \in Seq(Nat) /\ Len(w) = Len(p) + 1 /\ w[1] = FE
    BY <2>2, Prefixed
  <2>4. Len(w) = 5
    BY <2>1, <2>3
  <2>5. QED
    BY <1>4, <2>3, <2>4 DEF WidthOf
<1>5. CASE v >= FD /\ w = <<FF>> \o put_u64(v)
  <2>1. PICK p \in Seq(Nat) : p = put_u64(v) /\ Len(p) = 8
    BY EightBytes
  <2>2. Joins(w, <<FF>>, p)
    BY <1>5, <2>1 DEF Joins
  <2>3. w \in Seq(Nat) /\ Len(w) = Len(p) + 1 /\ w[1] = FF
    BY <2>2, Prefixed
  <2>4. Len(w) = 9
    BY <2>1, <2>3
  <2>5. QED
    BY <1>5, <2>3, <2>4 DEF WidthOf
<1>6. QED
  BY <1>1, <1>3, <1>4, <1>5, Forms

\* No encoding of an integer is a prefix of that of another one.
LEMMA IntegerIsPrefix ==
    ASSUME NEW v \in Nat, NEW u \in Nat, v < Byte8, u < Byte8,
           NEW x \in Seq(Nat), NEW y \in Seq(Nat), NEW b,
           Joins(b, write_var_u64(v), x), Joins(b, write_var_u64(u), y)
    PROVE  v = u /\ x = y
<1>1. PICK w \in Seq(Nat) : /\ w = write_var_u64(v) /\ Len(w) > 0 /\ Len(w) = WidthOf(w[1])
                            /\ v < FD => w = <<v>>
                            /\ v >= FD => w[1] >= FD
  BY WidthOfInteger
<1>2. PICK z \in Seq(Nat) : /\ z = write_var_u64(u) /\ Len(z) > 0 /\ Len(z) = WidthOf(z[1])
                            /\ u < FD => z = <<u>>
                            /\ u >= FD => z[1] >= FD
  BY WidthOfInteger
<1>3. Joins(b, w, x) /\ Joins(b, z, y)
  BY <1>1, <1>2
<1>4. w[1] = z[1]
  <2>1. \A i \in 1 .. Len(w) : b[i] = w[i]
    BY <1>3, Joined
  <2>2. \A i \in 1 .. Len(z) : b[i] = z[i]
    BY <1>3, Joined
  <2>3. b[1] = w[1] /\ b[1] = z[1]
    BY <1>1, <1>2, <2>1, <2>2
  <2>4. QED
    BY <2>3
<1>5. w = z /\ x = y
  <2>1. Len(w) = Len(z)
    BY <1>1, <1>2, <1>4
  <2>2. QED
    BY <1>3, <2>1, SamePrefix
<1> FD \in Nat
  BY Widths
<1>6. CASE v < FD
  <2>1. w = <<v>> /\ w[1] = v
    BY <1>1, <1>6
  <2>2. u < FD
    BY <1>2, <1>4, <1>6, <2>1
  <2>3. z[1] = u
    BY <1>2, <2>2
  <2>4. QED
    BY <1>4, <1>5, <2>1, <2>3
<1>7. CASE v >= FD
  <2>1. u >= FD
    <3> SUFFICES ASSUME u < FD PROVE FALSE
      OBVIOUS
    <3>1. z[1] = u
      BY <1>2
    <3>2. QED
      BY <1>1, <1>4, <1>7, <3>1
  <2>2. read_var_u64(b) = [val |-> v, rest |-> x]
    BY <1>7, ReadBack
  <2>3. read_var_u64(b) = [val |-> u, rest |-> y]
    BY <2>1, ReadBack
  <2>4. QED
    BY <1>5, <2>2, <2>3
<1>8. QED
  BY <1>6, <1>7

\* Two parts and what follows them.
LEMMA Reassociated ==
    ASSUME NEW p \in Seq(Nat), NEW q \in Seq(Nat), NEW x \in Seq(Nat), NEW w, NEW b,
           Joins(w, p, q), Joins(b, w, x)
    PROVE  /\ w \in Seq(Nat)
           /\ \E y \in Seq(Nat) : Joins(y, q, x) /\ Joins(b, p, y)
<1>1. PICK y : Joins(y, q, x)
  BY DEF Joins
<1>2. w \in Seq(Nat) /\ y \in Seq(Nat)
  BY <1>1, Joined
<1>3. (p \o q) \o x = p \o (q \o x)
  OBVIOUS
<1>4. Joins(b, p, y)
  BY <1>1, <1>3, Zenon DEF Joins
<1>5. QED
  BY <1>1, <1>2, <1>4

\* Strings are sequences of numbers, with a length of 64 bits.
LEMMA StringsAreBytes ==
    ASSUME NEW s \in Strings
    PROVE  s \in Seq(Nat) /\ Len(s) \in Nat /\ Len(s) < Byte8
<1>1. s \in Seq(0 .. Byte - 1) /\ Len(s) < Byte8
  BY SerializationAssumption
<1>2. QED
  BY <1>1, Widths

\* No encoding of a byte string is a prefix of that of another one.
LEMMA StringIsPrefix ==
    ASSUME NEW s \in Strings, NEW t \in Strings,
           NEW x \in Seq(Nat), NEW y \in Seq(Nat), NEW b,
           Joins(b, write_var_bytes(s), x), Joins(b, write_var_bytes(t), y)
    PROVE  s = t /\ x = y
<1>1. /\ s \in Seq(Nat) /\ Len(s) \in Nat /\ Len(s) < Byte8
      /\ t \in Seq(Nat) /\ Len(t) \in Nat /\ Len(t) < Byte8
  BY StringsAreBytes
<1>2. write_var_u64(Len(s)) \in Seq(Nat) /\ write_var_u64(Len(t)) \in Seq(Nat)
  BY <1>1, WidthOfInteger
<1>3. /\ Joins(write_var_bytes(s), write_var_u64(Len(s)), s)
      /\ Joins(write_var_bytes(t), write_var_u64(Len(t)), t)
  BY DEF Joins, write_var_bytes
<1>4. PICK sx \in Seq(Nat) : Joins(sx, s, x) /\ Joins(b, write_var_u64(Len(s)), sx)
  BY <1>1, <1>2, <1>3, Reassociated
<1>5. PICK ty \in Seq(Nat) : Joins(ty, t, y) /\ Joins(b, write_var_u64(Len(t)), ty)
  BY <1>1, <1>2, <1>3, Reassociated
<1>6. Len(s) = Len(t) /\ sx = ty
  BY <1>1, <1>4, <1>5, IntegerIsPrefix
<1>7. Joins(sx, s, x) /\ Joins(sx, t, y)
  BY <1>4, <1>5, <1>6
<1>8. QED
  BY <1>1, <1>6, <1>7, SamePrefix

\* An encoded byte string is a sequence of numbers.
LEMMA EncodedString ==
    ASSUME NEW s \in Strings
    PROVE  write_var_bytes(s) \in Seq(Nat)
<1>1. s \in Seq(Nat) /\ Len(s) \in Nat
  BY StringsAreBytes
<1>2. write_var_u64(Len(s)) \in Seq(Nat)
  BY <1>1, WidthOfInteger
<1>3. QED
  BY <1>1, <1>2 DEF write_var_bytes

\* A Boolean is one byte.
LEMMA EncodedBool ==
    /\ \A m : write_bool(m) \in Seq(Nat) /\ Len(write_bool(m)) = 1
    /\ \A m, n \in BOOLEAN : write_bool(m) = write_bool(n) => m = n
<1>1. ASSUME NEW m PROVE write_bool(m) \in Seq(Nat) /\ Len(write_bool(m)) = 1
  BY DEF write_bool
<1>2. ASSUME NEW m \in BOOLEAN PROVE write_bool(m)[1] = IF m THEN 1 ELSE 0
  BY DEF write_bool
<1>3. QED
  BY <1>1, <1>2

\* The parts of what is signed for an element.
LEMMA ElemParts ==
    ASSUME NEW e \in Elems, NEW b, b = serialize_unsigned(e)
    PROVE  \E x \in Seq(Nat), y \in Seq(Nat) :
              /\ Joins(b, write_var_bytes(e.id), x)
              /\ Joins(x, write_var_bytes(e.next_pubkey), y)
              /\ Joins(y, write_bool(e.mining), e.vrf)
<1>1. e.id \in Strings /\ e.next_pubkey \in Strings /\ e.vrf \in Strings
  BY DEF Elems
<1>2. PICK p \in Seq(Nat), q \in Seq(Nat), r \in Seq(Nat), s \in Seq(Nat) :
         /\ p = write_var_bytes(e.id) /\ q = write_var_bytes(e.next_pubkey)
         /\ r = write_bool(e.mining) /\ s = e.vrf
  <2>1. write_bool(e.mining) \in Seq(Nat)
    BY EncodedBool
  <2>2. QED
    BY <1>1, <2>1, EncodedString, StringsAreBytes
<1>3. PICK w : Joins(w, p, q)
  BY DEF Joins
<1>4. PICK z : Joins(z, w, r)
  BY DEF Joins
<1>5. Joins(b, z, s)
  BY <1>2, <1>3, <1>4, Zenon DEF Joins, serialize_unsigned
<1>6. w \in Seq(Nat)
  BY <1>3, Joined
<1>7. PICK y \in Seq(Nat) : Joins(y, r, s) /\ Joins(b, w, y)
  BY <1>4, <1>5, <1>6, Reassociated
<1>8. PICK x \in Seq(Nat) : Joins(x, q, y) /\ Joins(b, p, x)
  BY <1>3, <1>7, Reassociated
<1>9. QED
  BY <1>2, <1>7, <1>8

\* Different elements are signed as different bytes.
LEMMA ElemsDiffer ==
    ASSUME NEW e \in Elems, NEW f \in Elems,
           serialize_unsigned(e) = serialize_unsigned(f)
    PROVE  e = f
<1>1. PICK b : b = serialize_unsigned(e) /\ b = serialize_unsigned(f)
  OBVIOUS
<1>2. PICK x \in Seq(Nat), y \in Seq(Nat) :
              /\ Joins(b, write_var_bytes(e.id), x)
              /\ Joins(x, write_var_bytes(e.next_pubkey), y)
              /\ Joins(y, write_bool(e.mining), e.vrf)
  BY <1>1, ElemParts
<1>3. PICK u \in Seq(Nat), v \in Seq(Nat) :
              /\ Joins(b, write_var_bytes(f.id), u)
              /\ Joins(u, write_var_bytes(f.next_pubkey), v)
              /\ Joins(v, write_bool(f.mining), f.vrf)
  BY <1>1, ElemParts
<1>4. /\ e.id \in Strings /\ e.next_pubkey \in Strings /\ e.vrf \in Strings
      /\ f.id \in Strings /\ f.next_pubkey \in Strings /\ f.vrf \in Strings
      /\ e.mining \in BOOLEAN /\ f.mining \in BOOLEAN
  BY DEF Elems
<1>5. e.id = f.id /\ x = u
  BY <1>2, <1>3, <1>4, StringIsPrefix
<1>6. e.next_pubkey = f.next_pubkey /\ y = v
  <2>1. Joins(x, write_var_bytes(f.next_pubkey), v)
    BY <1>3, <1>5
  <2>2. QED
    BY <1>2, <1>4, <2>1, StringIsPrefix
<1>7. write_bool(e.mining) = write_bool(f.mining) /\ e.vrf = f.vrf
  <2>1. Joins(y, write_bool(e.mining), e.vrf) /\ Joins(y, write_bool(f.mining), f.vrf)
    BY <1>2, <1>3, <1>6
  <2>2. PICK p \in Seq(Nat), q \in Seq(Nat) :
           p = write_bool(e.mining) /\ q = write_bool(f.mining) /\ Len(p) = 1 /\ Len(q) = 1
    BY EncodedBool
  <2>3. e.vrf \in Seq(Nat) /\ f.vrf \in Seq(Nat)
    BY <1>4, StringsAreBytes
  <2>4. p = q /\ e.vrf = f.vrf
    <3>1. Joins(y, p, e.vrf) /\ Joins(y, q, f.vrf)
      BY <2>1, <2>2
    <3>2. Len(p) = Len(q) => p = q /\ e.vrf = f.vrf
      BY <2>3, <3>1, SamePrefix
    <3>3. QED
      BY <2>2, <3>2
  <2>5. QED
    BY <2>2, <2>4
<1>8. e.mining = f.mining
  BY <1>4, <1>7, EncodedBool
<1>9. QED
  BY <1>5, <1>6, <1>7, <1>8 DEF Elems

\* An integer of 32 bits is four bytes.
LEMMA EncodedU32 ==
    ASSUME NEW v \in Nonces
    PROVE  /\ write_u32(v) \in Seq(Nat) /\ Len(write_u32(v)) = 4
           /\ get_u32(write_u32(v), 1) = v
<1>1. v \in Nat /\ v < Byte4
  BY Widths, SerializationAssumption
<1>2. put_u32(v) \in Seq(Nat) /\ Len(put_u32(v)) = 4 /\ get_u32(put_u32(v), 1) = v % Byte4
  BY <1>1, FourBytes
<1>3. v % Byte4 = v
  BY <1>1, Widths, Fits
<1>4. QED
  BY <1>2, <1>3 DEF write_u32

\* No two of them begin the same bytes.
LEMMA U32IsPrefix ==
    ASSUME NEW v \in Nonces, NEW u \in Nonces, NEW x \in Seq(Nat), NEW y \in Seq(Nat),
           NEW b, Joins(b, write_u32(v), x), Joins(b, write_u32(u), y)
    PROVE  v = u /\ x = y
<1>1. /\ write_u32(v) \in Seq(Nat) /\ Len(write_u32(v)) = 4
      /\ get_u32(write_u32(v), 1) = v
  BY EncodedU32
<1>2. /\ write_u32(u) \in Seq(Nat) /\ Len(write_u32(u)) = 4
      /\ get_u32(write_u32(u), 1) = u
  BY EncodedU32
<1>3. write_u32(v) = write_u32(u) /\ x = y
  BY <1>1, <1>2, SamePrefix
<1>4. QED
  BY <1>1, <1>2, <1>3

\* The parts of what is signed for a chain.
LEMMA ChainParts ==
    ASSUME NEW c \in Chains, NEW b, b = serialize_metadata(c)
    PROVE  \E x2, x3, x4, x5, x6 \in Seq(Nat) :
              /\ Joins(b, write_u32(c.nonce), x2)
              /\ Joins(x2, write_u32(c.data_size), x3)
              /\ Joins(x3, write_var_bytes(c.block_hash), x4)
              /\ Joins(x4, write_var_bytes(c.src_id), x5)
              /\ Joins(x5, write_var_bytes(c.src_pubkey), x6)
              /\ Joins(x6, write_var_bytes(c.dest_id), write_var_bytes(c.dest_pubkey))
<1>1. /\ c.nonce \in Nonces /\ c.data_size \in Nonces /\ c.block_hash \in Strings
      /\ c.src_id \in Strings /\ c.src_pubkey \in Strings /\ c.dest_id \in Strings
      /\ c.dest_pubkey \in Strings
  BY DEF Chains
<1>2. PICK p1, p2 \in Seq(Nat) : p1 = write_u32(c.nonce) /\ p2 = write_u32(c.data_size)
  BY <1>1, EncodedU32
<1>3. PICK p3, p4, p5, p6, p7 \in Seq(Nat) :
         /\ p3 = write_var_bytes(c.block_hash) /\ p4 = write_var_bytes(c.src_id)
         /\ p5 = write_var_bytes(c.src_pubkey) /\ p6 = write_var_bytes(c.dest_id)
         /\ p7 = write_var_bytes(c.dest_pubkey)
  BY <1>1, EncodedString
<1>4. PICK w2, w3, w4, w5, w6 :
         /\ Joins(w2, p1, p2) /\ Joins(w3, w2, p3) /\ Joins(w4, w3, p4)
         /\ Joins(w5, w4, p5) /\ Joins(w6, w5, p6)
  BY DEF Joins
<1>5. Joins(b, w6, p7)
  BY <1>2, <1>3, <1>4, Zenon DEF Joins, serialize_metadata
<1>6. w2 \in Seq(Nat)
  BY <1>4, Joined
<1>7. w3 \in Seq(Nat)
  BY <1>4, <1>6, Joined
<1>8. w4 \in Seq(Nat)
  BY <1>4, <1>7, Joined
<1>9. w5 \in Seq(Nat)
  BY <1>4, <1>8, Joined
<1>10. PICK x6 \in Seq(Nat) : Joins(x6, p6, p7) /\ Joins(b, w5, x6)
  BY <1>4, <1>5, <1>9, Reassociated
<1>11. PICK x5 \in Seq(Nat) : Joins(x5, p5, x6) /\ Joins(b, w4, x5)
  BY <1>4, <1>8, <1>10, Reassociated
<1>12. PICK x4 \in Seq(Nat) : Joins(x4, p4, x5) /\ Joins(b, w3, x4)
  BY <1>4, <1>7, <1>11, Reassociated
<1>13. PICK x3 \in Seq(Nat) : Joins(x3, p3, x4) /\ Joins(b, w2, x3)
  BY <1>4, <1>6, <1>12, Reassociated
<1>14. PICK x2 \in Seq(Nat) : Joins(x2, p2, x3) /\ Joins(b, p1, x2)
  BY <1>4, <1>13, Reassociated
<1>15. QED
  BY <1>2, <1>3, <1>10, <1>11, <1>12, <1>13, <1>14

\* A chain is its fields.
LEMMA SameChain ==
    ASSUME NEW c \in Chains, NEW d \in Chains,
           c.nonce = d.nonce, c.data_size = d.data_size, c.block_hash = d.block_hash,
           c.src_id = d.src_id, c.src_pubkey = d.src_pubkey,
           c.dest_id = d.dest_id, c.dest_pubkey = d.dest_pubkey
    PROVE  c = d
<1>1. c = [nonce |-> c.nonce, data_size |-> c.data_size, block_hash |-> c.block_hash,
           src_id |-> c.src_id, src_pubkey |-> c.src_pubkey, dest_id |-> c.dest_id,
           dest_pubkey |-> c.dest_pubkey]
  BY DEF Chains
<1>2. d = [nonce |-> d.nonce, data_size |-> d.data_size, block_hash |-> d.block_hash,
           src_id |-> d.src_id, src_pubkey |-> d.src_pubkey, dest_id |-> d.dest_id,
           dest_pubkey |-> d.dest_pubkey]
  BY DEF Chains
<1>3. QED
  BY <1>1, <1>2, Zenon

\* Different chains are signed as different bytes.
LEMMA ChainsDiffer ==
    ASSUME NEW c \in Chains, NEW d \in Chains,
           serialize_metadata(c) = serialize_metadata(d)
    PROVE  c = d
<1>1. PICK b : b = serialize_metadata(c) /\ b = serialize_metadata(d)
  OBVIOUS
<1>2. PICK x2, x3, x4, x5, x6 \in Seq(Nat) :
              /\ Joins(b, write_u32(c.nonce), x2)
              /\ Joins(x2, write_u32(c.data_size), x3)
              /\ Joins(x3, write_var_bytes(c.block_hash), x4)
              /\ Joins(x4, write_var_bytes(c.src_id), x5)
              /\ Joins(x5, write_var_bytes(c.src_pubkey), x6)
              /\ Joins(x6, write_var_bytes(c.dest_id), write_var_bytes(c.dest_pubkey))
  BY <1>1, ChainParts
<1>3. PICK y2, y3, y4, y5, y6 \in Seq(Nat) :
              /\ Joins(b, write_u32(d.nonce), y2)
              /\ Joins(y2, write_u32(d.data_size), y3)
              /\ Joins(y3, write_var_bytes(d.block_hash), y4)
              /\ Joins(y4, write_var_bytes(d.src_id), y5)
              /\ Joins(y5, write_var_bytes(d.src_pubkey), y6)
              /\ Joins(y6, write_var_bytes(d.dest_id), write_var_bytes(d.dest_pubkey))
  BY <1>1, ChainParts
<1>4. /\ c.nonce \in Nonces /\ c.data_size \in Nonces /\ c.block_hash \in Strings
      /\ c.src_id \in Strings /\ c.src_pubkey \in Strings /\ c.dest_id \in Strings
      /\ c.dest_pubkey \in Strings
  BY DEF Chains
<1>5. /\ d.nonce \in Nonces /\ d.data_size \in Nonces /\ d.block_hash \in Strings
      /\ d.src_id \in Strings /\ d.src_pubkey \in Strings /\ d.dest_id \in Strings
      /\ d.dest_pubkey \in Strings
  BY DEF Chains
<1>6. c.nonce = d.nonce /\ x2 = y2
  BY <1>2, <1>3, <1>4, <1>5, U32IsPrefix
<1>7. c.data_size = d.data_size /\ x3 = y3
  <2>1. Joins(x2, write_u32(d.data_size), y3)
    BY <1>3, <1>6
  <2>2. QED
    BY <1>2, <1>4, <1>5, <2>1, U32IsPrefix
<1>8. c.block_hash = d.block_hash /\ x4 = y4
  <2>1. Joins(x3, write_var_bytes(d.block_hash), y4)
    BY <1>3, <1>7
  <2>2. QED
    BY <1>2, <1>4, <1>5, <2>1, StringIsPrefix
<1>9. c.src_id = d.src_id /\ x5 = y5
  <2>1. Joins(x4, write_var_bytes(d.src_id), y5)
    BY <1>3, <1>8
  <2>2. QED
    BY <1>2, <1>4, <1>5, <2>1, StringIsPrefix
<1>10. c.src_pubkey = d.src_pubkey /\ x6 = y6
  <2>1. Joins(x5, write_var_bytes(d.src_pubkey), y6)
    BY <1>3, <1>9
  <2>2. QED
    BY <1>2, <1>4, <1>5, <2>1, StringIsPrefix
<1>11. c.dest_id = d.dest_id /\ write_var_bytes(c.dest_pubkey) = write_var_bytes(d.dest_pubkey)
  <2>1. Joins(x6, write_var_bytes(d.dest_id), write_var_bytes(d.dest_pubkey))
    BY <1>3, <1>10
  <2>2. /\ write_var_bytes(c.dest_pubkey) \in Seq(Nat)
        /\ write_var_bytes(d.dest_pubkey) \in Seq(Nat)
    BY <1>4, <1>5, EncodedString
  <2>3. QED
    BY <1>2, <1>4, <1>5, <2>1, <2>2, StringIsPrefix
<1>12. c.dest_pubkey = d.dest_pubkey
  <2>1. PICK p \in Seq(Nat) : p = write_var_bytes(c.dest_pubkey)
    BY <1>4, EncodedString
  <2>2. p \o <<>> = p /\ <<>> \in Seq(Nat)
    OBVIOUS
  <2>3. /\ Joins(p, write_var_bytes(c.dest_pubkey), <<>>)
        /\ Joins(p, write_var_bytes(d.dest_pubkey), <<>>)
    BY <1>11, <2>1, <2>2, Zenon DEF Joins
  <2>4. QED
    BY <1>4, <1>5, <2>2, <2>3, StringIsPrefix
<1>13. QED
  BY <1>6, <1>7, <1>8, <1>9, <1>10, <1>11, <1>12, SameChain

\* Pairs of members of finite sets.
LEMMA FinitePairs ==
    ASSUME NEW A, IsFiniteSet(A), NEW B, IsFiniteSet(B)
    PROVE  IsFiniteSet(A \X B)
BY FS_Product

\* A set whose members are told apart by a function into a finite set.
LEMMA FiniteByInjection ==
    ASSUME NEW A, NEW B, IsFiniteSet(B), NEW f \in [A -> B],
           \A x, y \in A : f[x] = f[y] => x = y
    PROVE  IsFiniteSet(A)
<1>1. f \in Injection(A, B)
  BY DEF Injection, IsInjective
<1>2. QED
  BY <1>1, FS_Injection

\* The values of a function that tells them apart.
LEMMA CountByInjection ==
    ASSUME NEW A, IsFiniteSet(A), NEW f, f = [x \in A |-> f[x]],
           \A x, y \in A : f[x] = f[y] => x = y
    PROVE  Cardinality({f[x] : x \in A}) = Cardinality(A)
<1> DEFINE B == {f[x] : x \in A}
<1>1. f \in [A -> B]
  OBVIOUS
<1>2. \A y \in B : \E x \in A : f[x] = y
  OBVIOUS
<1> HIDE DEF B
<1>3. f \in Injection(A, B)
  BY <1>1 DEF Injection, IsInjective
<1>4. f \in Surjection(A, B)
  BY <1>1, <1>2 DEF Surjection
<1>5. f \in Bijection(A, B)
  BY <1>3, <1>4 DEF Bijection
<1>6. ExistsBijection(A, B)
  BY <1>5 DEF ExistsBijection
<1>7. Cardinality(B) = Cardinality(A)
  BY <1>6, FS_Bijection
<1>8. QED
  BY <1>7 DEF B

\* The sets the fields range over are finite.
LEMMA FiniteFields == IsFiniteSet(Strings) /\ IsFiniteSet(Nonces) /\ IsFiniteSet(BOOLEAN)
<1>1. IsFiniteSet(Strings)
  BY SerializationAssumption
<1>2. IsFiniteSet(Nonces)
  <2>1. Byte4 - 1 \in Int
    BY Widths
  <2>2. IsFiniteSet(0 .. Byte4 - 1)
    BY <2>1, FS_Interval
  <2>3. Nonces \in SUBSET (0 .. Byte4 - 1)
    BY SerializationAssumption
  <2>4. QED
    BY <2>2, <2>3, FS_Subset
<1>3. IsFiniteSet(BOOLEAN)
  <2>1. IsFiniteSet({TRUE})
    BY FS_Singleton
  <2>2. IsFiniteSet({TRUE} \cup {FALSE})
    BY <2>1, FS_AddElement
  <2>3. BOOLEAN = {TRUE} \cup {FALSE}
    OBVIOUS
  <2>4. QED
    BY <2>2, <2>3
<1>4. QED
  BY <1>1, <1>2, <1>3

\* So are the elements.
LEMMA FiniteElems == IsFiniteSet(Elems)
<1>1. PICK B : B = (Strings \X Strings) \X (BOOLEAN \X Strings)
  OBVIOUS
<1>2. IsFiniteSet(B)
  <2>1. IsFiniteSet(Strings \X Strings) /\ IsFiniteSet(BOOLEAN \X Strings)
    BY FiniteFields, FinitePairs
  <2>2. QED
    BY <1>1, <2>1, FinitePairs
<1>3. PICK f : f = [e \in Elems |-> <<<<e.id, e.next_pubkey>>, <<e.mining, e.vrf>>>>]
  OBVIOUS
<1>4. f \in [Elems -> B]
  BY <1>1, <1>3 DEF Elems
<1>5. ASSUME NEW e \in Elems, NEW g \in Elems, f[e] = f[g] PROVE e = g
  <2>1. <<<<e.id, e.next_pubkey>>, <<e.mining, e.vrf>>>>
          = <<<<g.id, g.next_pubkey>>, <<g.mining, g.vrf>>>>
    BY <1>3, <1>5, Zenon
  <2>2. e.id = g.id /\ e.next_pubkey = g.next_pubkey /\ e.mining = g.mining /\ e.vrf = g.vrf
    BY <2>1, Zenon
  <2>3. QED
    BY <2>2 DEF Elems
<1>6. QED
  BY <1>2, <1>4, <1>5, FiniteByInjection

\* And the chains.
LEMMA FiniteChains == IsFiniteSet(Chains)
<1>1. PICK N : N = Nonces \X Nonces
  OBVIOUS
<1>2. PICK P : P = Strings \X Strings
  OBVIOUS
<1>3. PICK B : B = (N \X Strings) \X (P \X P)
  OBVIOUS
<1>4. IsFiniteSet(B)
  <2>1. IsFiniteSet(N) /\ IsFiniteSet(P)
    BY <1>1, <1>2, FiniteFields, FinitePairs
  <2>2. IsFiniteSet(N \X Strings) /\ IsFiniteSet(P \X P)
    BY <2>1, FiniteFields, FinitePairs
  <2>3. QED
    BY <1>3, <2>2, FinitePairs
<1>5. PICK f : f = [c \in Chains |->
         <<<<<<c.nonce, c.data_size>>, c.block_hash>>,
           <<<<c.src_id, c.src_pubkey>>, <<c.dest_id, c.dest_pubkey>>>>>>]
  OBVIOUS
<1>6. f \in [Chains -> B]
  BY <1>1, <1>2, <1>3, <1>5 DEF Chains
<1>7. ASSUME NEW c \in Chains, NEW d \in Chains, f[c] = f[d] PROVE c = d
  <2>1. <<<<<<c.nonce, c.data_size>>, c.block_hash>>,
          <<<<c.src_id, c.src_pubkey>>, <<c.dest_id, c.dest_pubkey>>>>>>
        = <<<<<<d.nonce, d.data_size>>, d.block_hash>>,
            <<<<d.src_id, d.src_pubkey>>, <<d.dest_id, d.dest_pubkey>>>>>>
    BY <1>5, <1>7, Zenon
  <2>2. /\ c.nonce = d.nonce /\ c.data_size = d.data_size /\ c.block_hash = d.block_hash
        /\ c.src_id = d.src_id /\ c.src_pubkey = d.src_pubkey
        /\ c.dest_id = d.dest_id /\ c.dest_pubkey = d.dest_pubkey
    BY <2>1, Zenon
  <2>3. QED
    BY <2>2, SameChain
<1>8. QED
  BY <1>4, <1>6, <1>7, FiniteByInjection

\* For every finite set of byte strings, of any bytes, as many bytes are signed
\* as there are elements and as there are chains: the length before every
\* string but the last keeps the fields apart.
THEOREM SignaturesAreUnambiguous == Spec => []SignedBytesAreUnambiguous
<1>1. Cardinality({serialize_unsigned(e) : e \in Elems}) = Cardinality(Elems)
  <2>1. PICK f : f = [e \in Elems |-> serialize_unsigned(e)]
    OBVIOUS
  <2>2. f = [e \in Elems |-> f[e]] /\ \A e \in Elems : f[e] = serialize_unsigned(e)
    BY <2>1, Zenon
  <2>3. \A e, g \in Elems : f[e] = f[g] => e = g
    BY <2>2, ElemsDiffer
  <2>4. Cardinality({f[e] : e \in Elems}) = Cardinality(Elems)
    BY <2>2, <2>3, FiniteElems, CountByInjection
  <2>5. {f[e] : e \in Elems} = {serialize_unsigned(e) : e \in Elems}
    BY <2>2, Zenon
  <2>6. QED
    BY <2>4, <2>5
<1>2. Cardinality({serialize_metadata(c) : c \in Chains}) = Cardinality(Chains)
  <2>1. PICK f : f = [c \in Chains |-> serialize_metadata(c)]
    OBVIOUS
  <2>2. f = [c \in Chains |-> f[c]] /\ \A c \in Chains : f[c] = serialize_metadata(c)
    BY <2>1, Zenon
  <2>3. \A c, d \in Chains : f[c] = f[d] => c = d
    BY <2>2, ChainsDiffer
  <2>4. Cardinality({f[c] : c \in Chains}) = Cardinality(Chains)
    BY <2>2, <2>3, FiniteChains, CountByInjection
  <2>5. {f[c] : c \in Chains} = {serialize_metadata(c) : c \in Chains}
    BY <2>2, Zenon
  <2>6. QED
    BY <2>4, <2>5
<1>3. SignedBytesAreUnambiguous
  BY <1>1, <1>2 DEF SignedBytesAreUnambiguous, BytesAreUnambiguous
<1>4. QED
  BY <1>3, PTL
=============================================================================
