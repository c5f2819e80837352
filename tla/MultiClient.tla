---------------------------- MODULE MultiClient ----------------------------
(***************************************************************************)
(* A MultiClient (src/src/multiclient.rs): the task of each sub-client,    *)
(* the lock of clients they share with send_data, and the connect channel. *)
(*                                                                         *)
(* clients is a std::sync::Mutex: any of the threads that wait for it may  *)
(* be the next to get it.  The task of a sub-client keeps it in the        *)
(* variable cc for the rest of its life.  The channel it then receives     *)
(* from is the one of the MultiClient, into which only these tasks send,   *)
(* each after it has received: the first recv() never returns, and the     *)
(* code after it is not modelled.  close and get_clients are todo!().      *)
(***************************************************************************)
EXTENDS Integers, FiniteSets

CONSTANTS
    Subs,       \* the sub-clients, -offset .. num_sub_clients - 1
    NoSub,      \* nobody
    MaxCalls    \* bound: calls of the application

ASSUME MultiClientAssumption == NoSub \notin Subs /\ MaxCalls \in Nat

VARIABLES
    sub_pc,         \* of the task of each sub-client
    lock,           \* who has clients locked
    clients,        \* the keys of clients
    node_chan,      \* nodes in the connect channel, bounded(1)
    app,            \* the call the application is in
    calls,          \* calls made so far
    sent,           \* sub-clients send_data has sent with
    reported        \* whether wait_for_connect has returned

subVars == <<sub_pc, lock, clients, node_chan, app, calls, sent, reported>>

SubTypeOK ==
    /\ sub_pc \in [Subs -> {"new", "connecting", "lock", "send", "recv", "failed"}]
    /\ lock \in Subs \cup {NoSub}
    /\ clients \subseteq Subs
    /\ node_chan \in 0 .. 1
    /\ app \in {"idle", "connect", "len", "iterate", "panicked"}
    /\ calls \in 0 .. MaxCalls
    /\ sent \subseteq Subs
    /\ reported \in BOOLEAN

SubInit ==
    /\ sub_pc = [i \in Subs |-> "new"]
    /\ lock = NoSub /\ clients = {} /\ node_chan = 0
    /\ app = "idle" /\ calls = 0 /\ sent = {} /\ reported = FALSE

appVars == <<app, calls, sent, reported>>

-----------------------------------------------------------------------------
(* The task of a sub-client *)

\* Client::new, which may fail; closed is never set.
Create(i) ==
    /\ sub_pc[i] = "new"
    /\ \E r \in {"connecting", "failed"} : sub_pc' = [sub_pc EXCEPT ![i] = r]
    /\ UNCHANGED <<lock, clients, node_chan, appVars>>

\* client.wait_for_connect() returns, if the client ever connects.
Connected(i) ==
    /\ sub_pc[i] = "connecting"
    /\ sub_pc' = [sub_pc EXCEPT ![i] = "lock"]
    /\ UNCHANGED <<lock, clients, node_chan, appVars>>

\* Variant: the guard of clients is dropped after the insertion.
RegisterAndUnlock(i) ==
    /\ sub_pc[i] = "lock"
    /\ lock = NoSub
    /\ clients' = clients \cup {i}
    /\ sub_pc' = [sub_pc EXCEPT ![i] = "send"]
    /\ UNCHANGED <<lock, node_chan, appVars>>

\* The client is inserted.  default_client is set in a copy of the field.
Register(i) ==
    /\ sub_pc[i] = "lock"
    /\ lock = NoSub
    /\ lock' = i
    /\ clients' = clients \cup {i}
    /\ sub_pc' = [sub_pc EXCEPT ![i] = "send"]
    /\ UNCHANGED <<node_chan, appVars>>

\* Variant: the task receives before it reports.
ReportLast(i) ==
    /\ sub_pc[i] = "send"
    /\ sub_pc' = [sub_pc EXCEPT ![i] = "recv"]
    /\ UNCHANGED <<lock, clients, node_chan, appVars>>

\* The node goes to the connect channel, and the task waits for messages.
Report(i) ==
    /\ sub_pc[i] = "send"
    /\ node_chan = 0
    /\ node_chan' = 1
    /\ sub_pc' = [sub_pc EXCEPT ![i] = "recv"]
    /\ UNCHANGED <<lock, clients, appVars>>

-----------------------------------------------------------------------------
(* The application *)

\* wait_for_connect, or send_data: destinations that cannot be resolved make
\* unwrap() panic, no destination ends the call, and otherwise clients is
\* locked for its length.
Call ==
    /\ app = "idle"
    /\ calls < MaxCalls
    /\ calls' = calls + 1
    /\ app' \in {"connect", "len", "idle", "panicked"}
    /\ UNCHANGED <<sub_pc, lock, clients, node_chan, sent, reported>>

\* rx.recv() on the connect channel.
WaitForConnect ==
    /\ app = "connect"
    /\ node_chan = 1
    /\ node_chan' = 0
    /\ reported' = TRUE
    /\ app' = "idle"
    /\ UNCHANGED <<sub_pc, lock, clients, calls, sent>>

\* clients.lock().unwrap().len(): the lock is free again afterwards.
SendLen ==
    /\ app = "len"
    /\ lock = NoSub
    /\ app' = "iterate"
    /\ UNCHANGED <<sub_pc, lock, clients, node_chan, calls, sent, reported>>

\* The loop over clients, under the lock, sends with each of them.
SendIterate ==
    /\ app = "iterate"
    /\ lock = NoSub
    /\ sent' = sent \cup clients
    /\ app' = "idle"
    /\ UNCHANGED <<sub_pc, lock, clients, node_chan, calls, reported>>

-----------------------------------------------------------------------------
SubStep(i) == Create(i) \/ Connected(i) \/ Register(i) \/ Report(i)

SubNext ==
    \/ \E i \in Subs : SubStep(i)
    \/ Call \/ WaitForConnect \/ SendLen \/ SendIterate

\* The runtime runs every task; whether a client connects, and what the
\* application calls, is up to them.
SubFairness ==
    \A i \in Subs : WF_subVars(Create(i)) /\ WF_subVars(Register(i)) /\ WF_subVars(Report(i))

SubSpec == SubInit /\ [][SubNext]_subVars /\ SubFairness

-----------------------------------------------------------------------------
(* Properties *)

\* Once a sub-client is registered it keeps clients locked: no second one is
\* ever registered, however many connect.
OneSubClientHasTheLock == \A i \in clients : lock = i

\* send_data sends with no sub-client: it comes before the first of them is
\* registered, or it waits for clients for ever.
SendDataFindsNobody == sent = {}

\* As soon as some sub-client has connected, one is reported: it is in the
\* connect channel or wait_for_connect has returned.
FirstConnectIsReported ==
    (\E i \in Subs : sub_pc[i] = "lock") ~> (node_chan = 1 \/ reported)
=============================================================================
