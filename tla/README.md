# A TLA+ model of the NKN SDK for Rust

The SDK (`src/src/*.rs`) lets a program talk to the NKN network: a `Client`
keeps a websocket to one node and sends and receives messages over it; a
`Session` (the NCP protocol) makes a byte stream with flow control out of such
messages; a `MultiClient` runs several clients side by side; `NanoPay` pays by
ever larger claims; `rpc_call` asks the network's JSON-RPC servers. This project models
the parts in which several tasks share state or a protocol runs over many steps,
checks them with TLC on small instances and proves the safety properties with
TLAPS for every size.

The repository has no documentation and no tests. What the code is meant to do
is taken from the code, its comments and its own assertions (`unwrap`,
`expect`).

## 1. Inventory

| Part | State | Operations | What is hard |
|---|---|---|---|
| RPC client (`rpc.rs`) | per call: the shared result, a position per task | `rpc_call`, `http_post`, one wrapper per RPC | tasks race to store the result; late answers; the join order; `Arc::try_unwrap` |
| Client, connection (`client.rs` 99-789) | `closed`, `stdin_tx`, `client_node`, `reconnect` channel, per connection a websocket, handler, ping and challenge task | `new`, `connect`, `connect_to_node`, `handle_reconnect`, `reconnect`, `close` | two connectors, tasks of old connections that outlive them, panics inside tasks, a poisoned lock |
| Client, receiving (`client.rs` 624-651, 741-944) | `rxx`, `connect` and `message` channels (all of capacity one), `sig_chain_block_hash` | websocket task, handler task, `handle_message`, `wait_for_connect`, `wait_for_message` | three blocking hand-overs in a row, `close()` in the middle of them |
| Client, sending (`client.rs` 375-402, 1000-1390) | the batch under construction, the signed batches, `response_channels` | `send`, `send_messages`, `process_dests`, `encrypt_payload`, `create_payloads`, `create_outbound_message`, `write_message` | the size limit, an error half way, a reconnection during the call |
| NCP session (`session.rs`) | both windows, byte counters, handshake results, channels of capacity one | `dial`, `accept`, `read`, `write`, `flush_send_buffer`, `receive_with`, `get_send_seq`, `get_data_to_send`, close | sequence ids that wrap, acknowledgements for arbitrary ids, windows lowered by rejected handshakes |
| NCP sequence ids (`utils.rs` 137-167) | none | `next_seq`, `seq_in_between`, `compare_seq` | wrap-around |
| NCP connection (`connection.rs`) | ack queue, send times, window, retransmission timeout | `tx`, `send_ack`, `check_timeout` | each takes the locks of connection and session |
| MultiClient (`multiclient.rs`) | map of clients under one lock, message cache | `new`, `send_data`; `close` is `todo!()` | the lock is kept while a task waits for messages |
| NanoPay (`nanopay.rs`) | amounts, id, pending transaction | `increase_amount`; `claim`, `flush` and a flush task | a flush that takes a while, claims meanwhile |
| Use of the tokio workers (all tasks of a client) | the workers that are taken | blocking `send` and `recv` of crossbeam channels in async tasks (`client.rs` 445, 709, 747, 961) | tasks that could run find no worker |
| Wallet, account (`wallet.rs`, `account.rs`) | keys, the RPC configuration | key handling, RPC wrappers | sequential |
| Cryptography, signatures (`crypto.rs`, `signature.rs`) | none | pure functions | external libraries |
| Transactions and encodings (`tx.rs`, `payload.rs`, `program.rs`, `sigchain.rs`, `serialization.rs`) | none | builders, byte layouts | numeric edges |
| Messages, errors (`message.rs`, `error.rs`, `constants.rs`) | none | data types | - |
| Library root, demo, build (`lib.rs`, `main.rs`, `build.rs`) | none | wrappers, a demonstration, generated code | - |

How they interact. `Client::new` spawns the two connectors; a connector calls
`rpc_call` for a node's address, dials it, overwrites the shared `stdin_tx` and
`client_node` and spawns the tasks of the connection. Those tasks and the
application's own calls read the two shared variables whenever they need them
and therefore find the current connection, not their own. A task that fails to
write asks for a reconnection over a channel of capacity one. Frames travel
websocket task -> `rxx` -> handler task -> message channel -> application.
A `Session` does no I/O: it writes through the callback `send_with` and is given
packets with `receive_with`; `start_session` adds the futures that do both for a
number of connections, all sharing one mutex of the session.

What makes each part correct:

* RPC: a success is genuine and is never lost to a later answer; an error means
  that every server failed; the call ends.
* Connection: nobody unwraps a socket or node that is not there; messages are
  signed for the node they are sent to; a dead socket is replaced; a replaced
  connection winds down; `close()` is final.
* Receiving: every message of a connection is delivered once and in order;
  blocked hand-overs resolve; `close()` stops the deliveries.
* Sending: every destination is in exactly one batch, no batch is too large, a
  failed call has sent nothing; the bytes that are signed stand for one message
  only.
* Session: the peer's window is respected; what was agreed in the handshake
  stays; what was acknowledged leaves the window; what was received can be read.
* NCP connections: a future gets the locks it needs; an id taken from
  `send_chan` has data; the runs in an acknowledgement stand for exactly the ids
  they replace.
* MultiClient: the first connection is reported; `send_data` reaches the clients
  that are registered.
* NanoPay: the amount is what was claimed; what is lost is bounded; nothing
  panics under a lock; `close()` ends the flush task.
* Workers: a live connection is served however many calls block.
* Encodings: the signed bytes stand for one message; an integer can be read back.

`PROJECT.json` lists the hazards, each at its line, with the properties aimed at
them.

## 2. Plan

| Order | Module | Composes or uses | State |
|---|---|---|---|
| 1 | `RpcCall`, `RpcCallProofs` | - | done, safety proved |
| 2 | `ClientConnect`, `ClientConnectProofs` | - | done, safety proved |
| 3 | `Delivery`, `ClientReceive`, `ClientReceiveProofs` | the connector steps of `ClientConnect`; implements `Delivery` | done, safety and refinement proved |
| 4 | `Outbound`, `OutboundProofs` | the connection steps of `ClientConnect` | done, safety proved |
| 5 | `NcpSeq`, `Session`, `MCSession`, `SessionProofs` | `Session` extends `NcpSeq` | done, safety proved |
| 6 | `NcpTasks`, `NcpTasksProofs` | extends `NcpSeq`; the channels of `Session` | done, safety proved |
| 7 | `MultiClient` | - | done, proved in `RuntimeProofs` |
| 8 | `NanoPay`, `NanoPayProofs` | - | done, safety proved |
| 9 | `Serialization`, `MCOutbound` | `MCOutbound` extends `Outbound` and `Serialization` | done, proved in `OutboundProofs` |
| 10 | `Workers` | the tasks of `ClientConnect`, `ClientReceive`, `handle_reply` | done, proved in `RuntimeProofs` |
| 11 | `handle_reply`, receipts and response channels, with message ids | `Outbound`, `ClientReceive` | left |

Every safety property of a passing run has a theorem. The liveness properties are
out of the prover's reach; what they rest on is proved (section 5).

## 3. The modules and the code

Every definition that stands for code is listed with its lines under `map` in
`PROJECT.json`. The definitions called a *Variant* in the modules are plausible
mistakes: `PROJECT.json` pairs each with the definition it replaces and the
property that then fails. They play no part in the specifications.

**RpcCall.** One call. `pc[i]` is the place of task i in its loop: it looks at
the shared result (`Check`), posts to the next address (`HttpPost`), and stores
the answer unless a success is there (`Store`); between any two of these other
tasks run. The addresses of task i are the configured list rotated by i
(`AddressOf`). `answers` is a history variable: what each server told each task.
The panic of `http_post` on an answer with neither result nor error is
modelled, and so is its way through `join_handle.await.unwrap()`.

**ClientConnect.** Connections are numbered by their dials and `stdin_tx`,
`client_node` hold the number of the connection they belong to. Every task is a
program counter. A task's step ends where it reads shared state anew or may
block, so that the read of `closed` and the sleep and dial after it are separate
from each other. `connect_to_node` cannot fail, only panic (`ConnectPanic`,
`NodeStatePanic`): the code `expect`s the dial. `SendPanics` is the application's
`send_data` without a node, which panics under the lock of `client_node`.
`opened_late` and `overlapped` are history variables.

**ClientReceive.** The frame's way through the three channels. A frame is
abstracted to the branch of `handle_message` it takes. The websocket task can be
blocked in `txx.send`, the handler in either of its sends; `HandleMessage`
reads `closed` a second time, as the code does, and what it has decided to send it
sends after `close()` too. The connector steps are those of `ClientConnect`, less
constrained: any order of installations is allowed, which includes what two
connectors do.

**Delivery** is what an application may rely on: a connection is a queue of
messages, moved one by one to the application's inbox, given up only by a
connection that fails or after `close()`. `ClientReceive` implements it with
`queue` mapped to the messages with the handler, in `rxx` and with the websocket
task, in that order, and `inbox` to the message channel.

**Outbound.** One call of `Client::send`, one action per loop turn, lock or
write, while the connection changes (`Dial`, `InstallNode`, `Disconnect`,
`UpdateHash`). Payloads and destinations are sizes. `written` says which batch
went to which socket, `lost` counts the writes that failed, which the code only
logs (`client.rs:1092`). A missing node panics, and so do a node's key and a block
hash that are not hexadecimal (`client.rs:1290`, 1314), under the locks they are read
with; what a poisoned lock does to others is in `ClientConnect`.

**Serialization, MCOutbound.** The variable-length integers and byte strings of
`serialization.rs` and the bytes `sigchain.rs` has signed for a batch. A byte has
`Byte` values and an integer is two, four or eight of them long, so that the
changes of width come within reach of TLC; the three prefixes are the three
greatest values of a byte, as 0xFD, 0xFE and 0xFF are. The `put_u16`, `put_u32`
and `put_u64` of the library `bytes` are written by halves, the more significant
one first, and so are the `get_`s that read them; a reader that panics for want of
bytes is left out. `MCOutbound` joins the encodings with the call that signs. The
lengths which that call really writes are 0 or 32, below 0xFD: of those
`PrefixedIntIsReadBack` says that `read_var_u64` does not read them back.

**NcpSeq.** `next_seq`, `seq_in_between`, `compare_seq` with `MaxSeq` for
`u32::MAX`. `%` of TLA+ is never negative; Rust's is, and the code corrects it,
to the same value.

**Session.** One end of a session, driven by an owner who calls one operation
after the other; `receive_with` needs exclusive access, and a call that waits
for what only another exclusive call could do is `"stuck"`. Windows are sets of
sequence ids, data is its length. `receive_with` is translated in the order of
the code: close, handshake (whose window and mtu tests lower the session's
values before a later test rejects the packet), acknowledgements, bytes read,
data. Two peculiarities of the code shape what a session can do and are part of
the model:

* a packet longer than ten bytes is dropped (`session.rs:586`). The packets of
  `MCSession` are therefore ones whose encoding is at most ten bytes, apart from
  the one marked `big`. The handshake the SDK itself sends, with its window of
  4 MiB and client ids of a realistic length, is longer than that.
* the send buffer is an array of 1024 bytes (`BufferLen`) and never empty, so that
  every flush makes a packet (`Flush`), and always one of 1024 bytes
  (`session.rs:216`), of which the model keeps the id. `WindowIsRespected` is about
  `bytes_write`, the bytes `write` counts, and not about the length of the packets.
  With an mtu beyond 1024, `write` panics when it copies more than the buffer holds
  (`session.rs:554`).

A packet that does not decode panics (`ReceiveGarbled`, `session.rs:589`).

**NcpTasks.** `start_session` and `start_conn`: the futures flush, check, and
per connection tx, send_ack and check_timeout, next to an application that
writes and receives through the same mutex. `join_all` and `join!` poll the
futures in one task, so that a future blocked in a channel call stops them all
(`thread`). Tokio's locks are fair: each is a queue whose first element holds
it. The ack queue, a heap in the code, is the sequence of its ids in the order in
which they are popped: `Pushed` inserts an id at its place. `start_session` works on clones of the connections, each behind a mutex of its
own; they share the ack queue with the originals but not the window
(`clone_window`). The code behind the lock
of the session is left out where the lock is never granted, and
`OnlyFlushGetsTheSession`, proved, says that it is not; what only that code fills
(`time_sent_seq`, `resend_chan`) stays empty.

**Workers.** The tasks of a client on `NumWorkers` threads. A task in a crossbeam
`recv` or `send` occupies one; a task in an await does not, and needs one to go
on. The decisions of the tasks are those of the modules above: a handler returns
when it finds the client closed (`client.rs:743`), which leaves in `rxx` what is
there, ends with its websocket task, and may panic on any frame. The application
takes what is in its channels, calls `reconnect`, also while a connection lives, and
`close`. A dial succeeds, and `handle_reply` keeps its worker from the start: it
waits in `recv`, and sending a reply awaits nothing.

**MultiClient.** The task of each sub-client, `send_data` and
`wait_for_connect` over the `std::sync::Mutex` of `clients`, which the first
sub-client to be registered keeps in the variable `cc` for good.
`close` and `get_clients` are `todo!()`.

**NanoPay.** The payer's `increase_amount`, the claimer's `claim`, `flush`,
`close` and its flush task. The user and the task share fields behind mutexes:
every lock both may take starts a step. The transactions reach `claim` in any order,
some lost, some repeated, also those of a nano pay that was left for another. `Transaction::verify` is `todo!()` (`tx.rs:182`): the
model admits that panic and both results the function is declared to return.
`accepted`, `sent` and `races` are history variables; `races` says which of four
things have happened: two flushes at once (`"flush"`), a claim that wrote what the
task was flushing (`"claim"`), a flush that recorded the amount of a
transaction that is not of the present nano pay (`"record"`), and a claim that took up
again a nano pay of which something was claimed before another came (`"again"`).

## 4. Runs

| Run | Instance | What it shows |
|---|---|---|
| `rpc_call` | 3 servers, 2 tasks | a success is genuine and stays; failure needs every server and task; `try_unwrap` succeeds; every step brings somebody forward and nobody back; the call ends |
| `client_connect` | 2 connections, 1 challenge, intervals 2..3 | what the tasks unwrap is there; socket and node agree outside the named windows; `close()` stops dialing; a request for a reconnection panics only once `handle_reconnect` has ended |
| `client_connect_live` | 2 connections | a dead socket noticed by its sleeping ping task is replaced; the ping task of a replaced connection ends |
| `client_receive` | 2 connections, 2 frames | delivery in order and exactly once, that is, `ClientReceive` implements `Delivery`; at most one more send after `close()`; blocked hand-overs resolve and what was read is delivered |
| `outbound` | 3 destinations of sizes 1, 3 and 4, limit 4, 2 connections, bytes of 8 values | batches fit, cover the list, nothing is sent by a failed call, batches are signed for their socket, the signed bytes stand for one message only, and integers with a prefix, and no others, are read back |
| `session` | 5 ids, window 4, mtu 3, buffer 2, 4 bytes, 34 packets | the window is respected, the handshake is final, no acknowledgement takes data out of the send window (finding 4) |
| `ncp_tasks` | 4 ids, 2 connections, windows 0 and 2, lists of 2 runs, 2 ids acknowledged | only flush gets the session; an id that tx took has data; runs of acks stand for their ids; send_ack gets its connection only if the window was 0 |
| `workers` | 1 client, 2 connections, 1 call of `reconnect`, `close`, 7 workers | a frame that was read has a handler, unless that returned after `close()` or panicked; the last connection is served; a dead one gives its workers back |
| `multi_client` | 3 sub-clients, 3 calls | the first connection is reported; `send_data` reaches nobody (finding 7) |
| `nanopay` | increments of 1, balances 1 and 9, flush from 2, duration 1, 3 payments, 3 heights, 5 calls | the amount is what was claimed, and more only after a nano pay that was left is taken up again; the loss is bounded; a panic under the lock needs two flushes; `close()` ends the task |
| `node_lock` | 1 connection | violation, finding 1 |
| `session_read` | as `session` | violation, finding 2 |

**Bounds.** Two connections are the least with a current and a replaced one, and
two connectors can be at work on both. Two frames fill `rxx` while the websocket
task is blocked with the next one, over each of two connections; the safety
properties and the refinement of this run are proved for any number. Three
servers let a task start in the middle of the list and wrap. In `outbound` a
destination of size 1, with its payload, fits twice into a batch, one of size 3
fills it exactly, one of size 4 is too large by one: a list of three closes a
batch in its middle and at its end, and fails after a batch was built. Its
integers straddle every change of width. Five sequence ids wrap within the bytes
a session may write, since `Flush` makes packets without bytes being written;
the four of `ncp_tasks` wrap, too. Two ids to acknowledge are enough for a run
that could be merged and for a list that is full. Seven workers leave one for the
six tasks that may block at once: `handle_reconnect`, `handle_reply`, two handlers
and two challenge tasks. With six, `reconnect()` on a connection that lives takes
them all, and neither challenge is read (finding 10). Three payments let the payer
start a new nano pay after one that expired while the claimer holds the old one, and
the claimer go back to it; five calls reach a claim that fails after the switch, a
flush of what is still held, a further claim, another switch and a return. The bounds are the constants
named *bound* in the modules; `BoundReached` keeps the bound on dials from
counting against a liveness property.

**Deadlock** is only checked for `rpc_call`. The others may stop: a client whose
tasks have all ended, a session whose owner waits for ever.

**Fairness.** `rpc_call`: every task and the caller run on (tokio) and every
request gets an answer or an error (the HTTP client's doing). `ClientConnect`:
connectors, pings and challenges run on; the seed servers eventually give an
address and a dial eventually completes or fails; a websocket task whose sender
was dropped ends (`stdin_to_ws` does), and a handler notices the end of its
websocket task, for which the application has to keep taking messages so that
the handler does not wait in a send. Nothing is assumed about failures, about the
end of a socket that was not replaced, or about further calls. `ClientReceive`:
the tasks run on and the application takes what is in its channels while it has
them. `Workers`: a task that may run gets a worker that is free, the nodes send
what is due, a replaced socket ends and the application receives from both channels;
strong fairness is assumed of the handler's `send` and of that of `reconnect` alone,
since a crossbeam channel keeps its blocked senders in a queue. `MultiClient`: `Client::new` returns and a task that
may take the lock, or report, does; no client is assumed to connect. `NanoPay`:
the flush task runs on, and its requests are answered or fail. All models but
`Workers` assume a worker for each task.

`DeadSocketIsReplaced` speaks of a ping task that sleeps when the socket dies. If
the handler sets `done` before the ping task's check, that task ends without a
request (`client.rs:682`) and the socket is not replaced until the application
calls `reconnect`.

`LossIsBounded` speaks of a claimer whose user made no claim while the task
flushed: such a claim is overwritten by what the flush records
(`nanopay.rs:310`). It also leaves out a claimer for which a flush was recorded
against another nano pay, which needs no overlap: a claim with a new id fails after
the switch, `flush(true)` sends the transaction that is still held, and its amount
stays in `prev_flush_amount` (`nanopay.rs:313`) when the next claim is of the new
id, whose first amounts then seem to be flushed already.

## 5. Proofs

Assumptions are those of the modules: `ServersAssumption`,
`ConcurrencyAssumption`, `ConnsAssumption`, `IntervalAssumption`,
`FramesAssumption`, `SizesAssumption`, `MaxSeqAssumption`, `SessionAssumption`,
`PacketsAssumption`, `NcpTasksAssumption`, `MultiClientAssumption`,
`NanoPayAssumption`, `SerializationAssumption` and `WorkersAssumption`. They say that
there may be one connection, that counts, sizes and a packet's unsigned
fields are natural numbers, that windows, mtu, amounts to add and the least
amount to flush are positive, that there are at least two sequence ids, and that a
byte has more than three values. The integers to encode are `u64`s and the nonces
`u32`s; of the strings to encode there are finitely many, each shorter than a
`u64` can say.

Several results are about data of any length: a fold over a list, a run popped
from a queue, the acknowledgements of a packet. The induction they take is done by
the least counterexample: `Least` gets the least element of a set of natural
numbers from the well-foundedness of `<`, and `Induction` states it as a rule about
sets rather than about an operator, which the provers can use. The folds of the
community modules are reached the same way: `FoldExists`, `SumExists`, `JoinExists`
and `LoopHasValues` show that the recursive function behind a fold exists,
`BytesIsAFold`, `TotalIsASum` and `FlattenIsAJoin` that the fold is its value, and
`FoldsAgree`, `SumsCompare` and `JoinsAgree` compare it for two lists.

**RpcCallProofs**, for every number of servers and tasks. The invariants of the
run are not inductive: that an error is exhaustive depends on which addresses a
task has behind it. `Inductive` adds

* `Positions`: the addresses before `pos[i]` have answered task i, the others
  not; this rests on the lemmas that the rotated list visits every server
  exactly once (`AddressIsServer`, `AddressesAreDistinct`, `EveryServerHasATurn`);
* `Responses`: an answer about to be stored is the one in `answers`;
* `Errors`, `Origin`: while the result is an error every answer behind a task
  was an error, and a success is one of the answers;
* `Joining`, `Returned`: the tasks joined are done, and what is returned is the
  shared result.

From `CallIsInductive` follow `TypesAreCorrect`, `SuccessComesFromAServer`,
`FailureNeedsAllServers` and `UnwrapIsSafe`; `SuccessIsKept` is an action
property.

So is `CallOnlyAdvances`, the safety half of `CallEnds`: every step adds to
`TaskProgress` of one task or to `CallerProgress`, and takes from none.
`CallIsNeverStuck` bounds the two measures, so that a call takes at most
2 * NumTasks + 4 + NumTasks * (3 * NumServers + 2) steps, and says that the task the
caller joins has ended or is in its loop. What fairness adds is that a task in its
loop runs on and its request is answered.

**ClientConnectProofs**, for every number of connections, challenges and
intervals. `IInv` is the conjunction of `Types` and `Flags`; `Work` (the
socket is that of the last dial, and a connector works on a connection it has
dialed); `Served` (the tasks of a connection come after the first node); `Late` (a
connector that has dialed after `close()` is past its last dial); `Ended` (nobody
panics in a request before `handle_reconnect` has ended); and `Match` (unless the
connectors overlapped, the one about to install a node is alone and its
connection the current one, without which the installation does not preserve
`NodeMatchesSocket`). It gives `TasksFindTheirNode`, `NodeIsThatOfTheSocket`,
`ClosedClientStopsDialing`, `RequestsAreServed` and `TypesAreCorrect`.

`ReplacementIsNotDropped` is the safety half of `DeadSocketIsReplaced`: while the
current socket is dead and somebody is at it (`Repairing`: its ping task sleeps, a
request is made or queued, `handle_reconnect` dials), every step leaves somebody at
it, or there is another socket, a closed client or no `handle_reconnect` any more.
It needs `Fresh`: the tasks of a connection are started once, and two connectors
never settle the same connection; a ping task could otherwise be put back to its
start while its request is under way.

**ClientReceiveProofs**, for every number of connections and frames.
`ReceivingImplementsDelivery` is the refinement. The mapping alone does not make
every step a step of `Delivery`: the queue is put together from three places, and
a frame that moves from one to the next keeps its turn only if the place it moves
to was empty. `Flow` says so: a live handler holds a frame only while it works on
it, a websocket task only while it is blocked, `rxx` holds at most one, what the
handler is about to send is an inbound message. Then each action has one lemma
(`ReadMaps` ... `AppMaps`) that names the step of `Delivery` it is: a read is an
arrival, `message_tx.send` a delivery, `recv` no step unless the client is closed.
`MessagesKeepTheirOrder` adds `Order`: every message under way has the number
that its place in the three calls for. `CloseStopsTheHandlers` adds `Late`: a
handler that has completed a send after `close()` is no longer able to decide on
another. `TypesAreCorrect` adds `Ranges` (what is held was read from the socket)
and `Reported` (a running handler finds a node installed).

**OutboundProofs**, for every list of destinations, limit and number of
connections. `CallTypes`, `LinkTypes`, `Flags`, `Unsent` (nothing is written
before all the batches are there), `Signed` (while the connection stays the same
every batch is for the node of the socket) and `Loop` (a batch that is closed has
a destination, so that there are no more batches than destinations) give
`FailedCallSentNothing`, `BatchesMatchTheirSocket` and `TypesAreCorrect`.

`BatchesRespectTheLimit` adds `OpenFits`: with a payload for each destination
`total_size` is what the batch under construction weighs, which ties the running
sum of the loop to a fold over the batch (`BytesOfAppend`); with one payload for all
the only batch was weighed as a whole. `SplitsWithoutLoss` is
inductive with the types alone: closing a batch appends its list to what the
batches join to (`FlattenOfAppend`).

The encodings. `PrefixedIntegersAreReadBack`: a value below the product of two widths is
put together again from its halves (`LowHalves`), from which `TwoBytes`,
`FourBytes` and `EightBytes` show what each reader makes of each writer's bytes, and
`ReadBack` goes through the three forms with a prefix; `Skipped` is about the one
without. `SignaturesAreUnambiguous`
rests on the first byte of an integer giving its width (`WidthOfInteger`): no
encoded integer, and hence no encoded string, is a proper prefix of another
(`IntegerIsPrefix`, `StringIsPrefix`), so that equal byte strings have equal fields
from left to right (`ElemsDiffer`, `ChainsDiffer`). `vrf`, written without a length,
is the rest. `CountByInjection` turns that into the equality of cardinalities the
run checks.

**SessionProofs**, for every id space, window, mtu and set of packets.
`SendsWithinWindow` needs `WindowInv`: `WindowIsRespected` alone does not say
that the session's window is at most the peer's, nor that nothing was written
before the handshake was accepted, when rejected handshakes may have lowered the
window below any bytes already written. `HandshakeSettles` is an action property.
`NextIsAhead` shows that `next_seq` moves forward in the order of `compare_seq`,
across the wrap. `AckLoopNeverTurns` is the cause of `AcksRemoveNothing`,
independent of the instance: the removal loop of `receive_with` never executes
its body, for any acknowledgement. `AcksLeaveTheWindow` carries it through the
loop over all the acknowledgements of a packet (`AcksKeepData`, by induction) to
the action property. `TypesAreCorrect` needs that the start of the window, which
the same loop moves on, stays an id (`AdvanceIsAnId`); `EveryIdIsReached` is the
lemma that its search, forward and across the wrap, comes upon any id.

**NcpTasksProofs**, for every number of connections, window and list size.
`SessionIsForFlush` rests on the order in which futures enter the session's
queue: `Types`, `Started` (flush is in the queue once it was polled, which is
before the others are), `Behind` (every other future waits behind flush) and
`InCall` (a write of the application in progress has the session). `TakenHasData` has
`DataInv`: an id in `send_chan` or taken has data, and so has the one before
`end_seq` while a writer is blocked with it; `BackAndForth` is the lemma that
`next_seq` by -1 undoes `next_seq` by 1. `AcksWaitForTx` has `ConnInv`
(`ConnTypes`, `Cloned`, `Holds`): the tx of a connection queues for it
first and gives it up only when the cloned window is 0. `AcksAreListed` is the
action property about `send_ack`: an id that is pushed leaves the queue a sequence
of ids (`PushedIsQueue`), the ids that are popped are the run of successors that is
listed (`RunOfQueue`, `RunAndRest`), and `CollectMoves` puts queue and list
together. `TypesAreCorrect` adds `LockInv`: a write that is blocked on `send_chan`
waits in the queue of the window's lock, without which giving the lock back would
not leave a queue.

**RuntimeProofs** is about the two modules in which calls block threads and locks.
`Workers`, for every set of clients and every number of connections, requests and
workers: `WorkersTypesAreCorrect`, and `FramesAreTaken`, with `Partners`, which adds
that the websocket task and the handler of a connection exist from the same dial on,
that frames are only with a connection that was dialed, and that a handler returns
only after `close()`.

`MultiClient` (whose specification is `SubSpec`, so that one module can be about
both), for every set of sub-clients and number of calls. `OneIsRegistered` (whoever is
registered holds the lock) gives `NothingIsSent` and `SubClientTypesAreCorrect`.
`OnlyTheFirstIsReported` is the safety half of `FirstConnectIsReported`: the report
of the first connection finds room in the channel, and there is one for all
sub-clients; `ReportIsUnderWay` ties the channel to the place of the task that
reports.

**NanoPayProofs**, for all amounts, heights and numbers of payments and calls.
`PanicComesOfTwoFlushes`: a flush finds the transaction it looked for unless
another one took it in between, which needs `Types`, `Recorded` (an overlap is in
`races`), `Present` (a flush that has seen a transaction still has one, if it was
alone) and `Given` (a claim in progress is about a transaction).
`TypesAreCorrect` needs `References` and the conjuncts next to it: what is held,
read, claimed or sent is a transaction that was made.

`AmountsAddUp` needs `Claims`, which says what the two amounts are in the middle of
a claim as well: `Past` (what was accepted was made), `Known` (`amount` is the
greatest claim of the present nano pay, and 0 after the reset; it may be less once
one was taken up again, `Marked`), `AtLabel` (what `claim` has tested where it is) and
`Summed` (between the switch and the reset `amount` is counted in
`prev_claimed_amount` already; the sum is at least the total, and equal to it unless
`Marked`). A new claim changes one summand of the total (`TotalOfChange`), by as
much as it raises `amount` (`RaisedTotal`).

`LossStaysBounded` needs `Loss`: while no claim met a flush and none was recorded
against another nano pay (`Clean`), `prev_flush_amount` was sent of the present nano
pay (`Covered`), the transaction held is the one claimed, and with none held all that
was claimed was sent (`Held`), a claim that is about to switch leaves less than the
minimum (`AtUser`), a flush finds what it has read in place (`AtFlush`), the task
does not flush while a claim stores (`Apart`), and every nano pay but the present
one is within the bound (`Settled`).

`CloseLeavesTwelveSteps` is the safety half of `CloseEndsTheTask`: once the claimer
is closed it stays so, every step of the task lowers `StepsLeft` of its place, which
is at most twelve, and no other step changes that place.

**Only model-checked**: everything about liveness, which takes fairness and
`ENABLED`: `CallEnds`, `DeadSocketIsReplaced`, `ReplacedConnectionEnds`,
`MessagesAreDelivered`, `ConnectionIsServed`, `DeadConnectionFreesWorkers`,
`FirstConnectIsReported`, `CloseEndsTheTask`. `CallOnlyAdvances`,
`ReplacementIsNotDropped`, `OnlyTheFirstIsReported` and `CloseLeavesTwelveSteps` are the
parts of them that need no fairness, `FramesAreTaken` what the two of `Workers` rest
on. What the operators of the proofs' modules compute is proved for every input.

## 6. Not modelled

* What follows a reply: the response channels, and the receipts the handler
  sends. A reply finds no channel, since the channel is registered under the raw
  message id and looked up under its hexadecimal form (`client.rs:395`, 922).
  `handle_reply` appears as a user of a worker only.
* The wallet's RPC address, which `connect_to_node` replaces by the node's.
* The code of `connection.rs` and `session.rs` behind the lock of the session
  that its future never gets, `receive_ack`, which the ack loop never calls, and
  functions nobody calls (`start_check_bytes_read`, the free `start_flush`).
* Wallet and account: one owner, one call at a time; what they compute is key
  derivation and encryption by external libraries. Cryptography: the same.
* The builders of transactions, payloads and programs: straight-line
  constructions of protocol buffers. `serialize_unsigned` of `tx.rs`, which
  encodes the whole transaction, its programs included, is one of them.
* Messages and errors, the library root, the demonstration and the build: data
  types, declarations, generated code. Payload contents: no property depends on
  them.

## 7. Findings

The first two are runs in which an assertion of the code fails. The others are
what properties that hold say about the code.

1. `node_lock`: a send before the first connection panics while it holds the
   lock of `client_node` (`client.rs:1290`); the connector that then installs
   its node panics on the poisoned lock (`client.rs:653`), which leaves a socket
   without a handler.
2. `session_read`: `receive_with` stores data only for an id that already has
   data, and acknowledges it all the same; `read` then panics in its `unwrap`.
3. `RequestsFailAfterTheEnd`: the ping and challenge tasks expect their request
   for a reconnection to be accepted (`client.rs:697`, 735), but
   `handle_reconnect` ends after `close()` and with a failed dial; the task then
   panics. The property says that this is the only way to it.
4. `AcksRemoveNothing`: `receive_with` passes `(start, end, target)` to
   `seq_in_between`, which takes `(seq, start, end)`. Acknowledged data stays in
   the send window.
5. `OnlyFlushGetsTheSession`: `start_session` polls its futures while the flush
   future keeps the session's mutex, across its sleep and for ever
   (`session.rs:733`); the futures of the connections never send, acknowledge or
   time out, and the application's calls wait.
6. `AcksNeedAClosedWindow`: the loop of `send_ack` ends only when the queue is
   empty and the list full (`connection.rs:240`), and otherwise pops an empty
   queue and panics (`AckPanic`). It gets there only for a window of 0; with any
   other window tx keeps the lock of the connection. The queue is a heap with the
   greatest id first, so that neighbouring ids are not merged into runs; a run's
   count is then left out of the packet, and `receive_with` ignores
   acknowledgements without counts (`session.rs:611`).
7. `SendDataFindsNobody`: the sub-client that registers first waits for a message
   with the lock of `clients` (`multiclient.rs:124`); `send_data` sends with
   nobody, and waits for ever once a client is registered.
8. `PanicNeedsTwoFlushes`, `LossIsBounded`: a user's flush next to one of the task
   panics on the transaction the other has taken and poisons its mutex, and a
   claim during a flush is lost with what the flush records (`nanopay.rs:283`,
   310). A flush between a claim that failed after the switch and the next one
   records the amount of the old nano pay, which is then set against the new one's
   (`nanopay.rs:313`). A single send that fails ends the flush task (`nanopay.rs:209`), and the
   task sleeps until `FORCE_FLUSH_DELTA` blocks after the expiration where the test
   before it asks for that many blocks before it (`nanopay.rs:177`, 181).
   `AmountIsWhatWasClaimed`: the same transaction is refused twice in a row
   (`nanopay.rs:355`), but one of a nano pay that was left is taken while it has
   time: `claim` adds the amount of the other to `prev_claimed_amount`, and the
   amount given again counts next to what is there of it already (`nanopay.rs:362`,
   387).
9. `PrefixedIntIsReadBack`: `read_var_u64` reads a value back only from 0xFD on. Below,
   where `write_var_u64` writes no prefix, it skips the value and returns the byte
   behind it (`serialization.rs:36`). All the lengths that are signed are of that
   kind. The readers of `serialization.rs` have no caller.
10. `ConnectionIsServed`: the tasks of a client block workers of the runtime in
   `recv`. One connection takes four, two at once, which `reconnect()` on a live one
   makes, take six; with no more workers than that, no websocket task runs, and the
   challenge tasks wait for ever for what they would read.
