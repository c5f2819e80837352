------------------------------ MODULE RpcCall ------------------------------
(***************************************************************************)
(* One JSON-RPC call of the SDK (rpc_call in src/src/rpc.rs).              *)
(*                                                                         *)
(* The caller spawns n tasks.  Task i posts the request to every server    *)
(* address in turn, starting at address i modulo the number of addresses,  *)
(* until some task has stored a successful answer in the shared result.    *)
(* The caller then joins the tasks in the order it spawned them and        *)
(* unwraps the shared result.                                              *)
(***************************************************************************)
EXTENDS Integers

CONSTANTS
    NumServers,   \* config.rpc_server_address.len()
    Concurrency   \* config.rpc_concurrency, a u32

ASSUME ServersAssumption == NumServers \in Nat
ASSUME ConcurrencyAssumption == Concurrency \in Nat

Servers == 0 .. NumServers - 1

\* rpc_concurrency = 0 stands for one task per address.
NumTasks == IF Concurrency > 0 THEN Concurrency ELSE NumServers
Tasks == 0 .. NumTasks - 1

\* Variant: the addresses before the starting one are not appended.
AddressOfNoWrap(i, k) ==
    LET left == i % NumServers
    IN  IF left + k < NumServers THEN left + k ELSE NumServers - 1

\* The k-th address of task i: split_at(i % len), then [right, left].concat().
AddressOf(i, k) ==
    LET left == i % NumServers
    IN  IF left + k < NumServers THEN left + k ELSE left + k - NumServers

NoServer == -1

\* Err(_) holds no server; an answer holds the server that gave it.
CouldntFind == [ok |-> FALSE, from |-> NoServer]
Results == [ok : BOOLEAN, from : Servers \cup {NoServer}]

VARIABLES
    caller,    \* program counter of rpc_call
    spawned,   \* number of tasks spawned so far
    joined,    \* number of join handles awaited so far
    pc,        \* program counter of each task
    pos,       \* number of addresses the task is done with
    response,  \* res, the answer a task has and has not stored yet
    result,    \* the shared Arc<Mutex<Result<D, String>>>
    ret,       \* what rpc_call returns
    answers    \* history: what server s answered task i

vars == <<caller, spawned, joined, pc, pos, response, result, ret, answers>>

TypeOK ==
    /\ caller \in {"entry", "spawn", "join", "unwrap", "returned", "panicked"}
    /\ spawned \in 0 .. NumTasks
    /\ joined \in 0 .. NumTasks
    /\ pc \in [Tasks -> {"none", "check", "post", "store", "done", "panicked"}]
    /\ pos \in [Tasks -> 0 .. NumServers]
    /\ response \in [Tasks -> Results]
    /\ result \in Results
    /\ ret \in Results
    /\ answers \in [Tasks -> [Servers -> {"none", "ok", "err"}]]

Init ==
    /\ caller = "entry"
    /\ spawned = 0
    /\ joined = 0
    /\ pc = [i \in Tasks |-> "none"]
    /\ pos = [i \in Tasks |-> 0]
    /\ response = [i \in Tasks |-> CouldntFind]
    /\ result = CouldntFind
    /\ ret = CouldntFind
    /\ answers = [i \in Tasks |-> [s \in Servers |-> "none"]]

-----------------------------------------------------------------------------
(* The caller *)

\* No address configured: an early return, before any task exists.
Enter ==
    /\ caller = "entry"
    /\ caller' = IF NumServers = 0 THEN "returned" ELSE "spawn"
    /\ UNCHANGED <<spawned, joined, pc, pos, response, result, ret, answers>>

Spawn ==
    /\ caller = "spawn"
    /\ \/ /\ spawned < NumTasks
          /\ pc' = [pc EXCEPT ![spawned] = "check"]
          /\ spawned' = spawned + 1
          /\ UNCHANGED caller
       \/ /\ spawned = NumTasks
          /\ caller' = "join"
          /\ UNCHANGED <<pc, spawned>>
    /\ UNCHANGED <<joined, pos, response, result, ret, answers>>

\* Variant: the first task that completes ends the wait.
JoinFirst ==
    /\ caller = "join"
    /\ pc[joined] = "done"
    /\ joined' = joined + 1
    /\ caller' = "unwrap"
    /\ UNCHANGED <<spawned, pc, pos, response, result, ret, answers>>

\* for join_handle in join_handles.drain(..) { join_handle.await.unwrap() }
Join ==
    /\ caller = "join"
    /\ \/ /\ joined < NumTasks
          /\ pc[joined] = "done"
          /\ joined' = joined + 1
          /\ UNCHANGED caller
       \/ /\ joined < NumTasks
          /\ pc[joined] = "panicked"
          /\ caller' = "panicked"
          /\ UNCHANGED joined
       \/ /\ joined = NumTasks
          /\ caller' = "unwrap"
          /\ UNCHANGED joined
    /\ UNCHANGED <<spawned, pc, pos, response, result, ret, answers>>

\* A task drops its clone of the Arc when it completes or unwinds.
HoldsResult(i) == pc[i] \in {"check", "post", "store"}

\* Arc::try_unwrap(result): an error while some task still holds a clone.
Unwrap ==
    /\ caller = "unwrap"
    /\ caller' = "returned"
    /\ ret' = IF \E i \in Tasks : HoldsResult(i) THEN CouldntFind ELSE result
    /\ UNCHANGED <<spawned, joined, pc, pos, response, result, answers>>

-----------------------------------------------------------------------------
(* A spawned task *)

\* Loop head: the next address, unless the call has succeeded already.
Check(i) ==
    /\ pc[i] = "check"
    /\ pc' = [pc EXCEPT ![i] = IF pos[i] = NumServers \/ result.ok
                               THEN "done" ELSE "post"]
    /\ UNCHANGED <<caller, spawned, joined, pos, response, result, ret, answers>>

\* Variant: the error member of an answer is not looked at.
HttpPostIgnoresError(i) ==
    LET server == AddressOf(i, pos[i])
    IN  /\ pc[i] = "post"
        /\ response' = [response EXCEPT ![i] = [ok |-> TRUE, from |-> server]]
        /\ \E a \in {"ok", "err"} : answers' = [answers EXCEPT ![i][server] = a]
        /\ pc' = [pc EXCEPT ![i] = "store"]
        /\ UNCHANGED <<caller, spawned, joined, pos, result, ret>>

\* http_post: a decoded answer, or an error of the transport, the body, the
\* JSON or the server; an answer that holds neither a result nor an error is
\* unwrapped and panics.
HttpPost(i) ==
    LET server == AddressOf(i, pos[i])
    IN  /\ pc[i] = "post"
        /\ \/ \E ok \in BOOLEAN :
                /\ response' = [response EXCEPT ![i] = [ok |-> ok, from |-> server]]
                /\ answers' = [answers EXCEPT ![i][server] =
                                 IF ok THEN "ok" ELSE "err"]
                /\ pc' = [pc EXCEPT ![i] = "store"]
           \/ /\ pc' = [pc EXCEPT ![i] = "panicked"]
              /\ UNCHANGED <<response, answers>>
        /\ UNCHANGED <<caller, spawned, joined, pos, result, ret>>

\* Variant: the last answer wins.
StoreLast(i) ==
    /\ pc[i] = "store"
    /\ result' = response[i]
    /\ pos' = [pos EXCEPT ![i] = pos[i] + 1]
    /\ pc' = [pc EXCEPT ![i] = "check"]
    /\ UNCHANGED <<caller, spawned, joined, response, ret, answers>>

\* Variant: a task asks the same server again after an error.
StoreStays(i) ==
    /\ pc[i] = "store"
    /\ result' = IF result.ok THEN result ELSE response[i]
    /\ pc' = [pc EXCEPT ![i] = "check"]
    /\ UNCHANGED <<caller, spawned, joined, pos, response, ret, answers>>

\* let mut lock = result.lock().unwrap(); if lock.is_err() { *lock = res }
Store(i) ==
    /\ pc[i] = "store"
    /\ result' = IF result.ok THEN result ELSE response[i]
    /\ pos' = [pos EXCEPT ![i] = pos[i] + 1]
    /\ pc' = [pc EXCEPT ![i] = "check"]
    /\ UNCHANGED <<caller, spawned, joined, response, ret, answers>>

-----------------------------------------------------------------------------
CallerStep == Enter \/ Spawn \/ Join \/ Unwrap
TaskStep(i) == Check(i) \/ HttpPost(i) \/ Store(i)

\* The call is over and so are its tasks.
Finished ==
    /\ caller \in {"returned", "panicked"}
    /\ \A i \in Tasks : ~HoldsResult(i)
    /\ UNCHANGED vars

Next == CallerStep \/ (\E i \in Tasks : TaskStep(i)) \/ Finished

Spec == Init /\ [][Next]_vars

\* tokio runs every ready task; every request gets an answer or an error.
Fairness == WF_vars(CallerStep) /\ \A i \in Tasks : WF_vars(TaskStep(i))
FairSpec == Spec /\ Fairness

-----------------------------------------------------------------------------
(* Properties *)

\* A stored success stays: an answer that arrives late, from a request that
\* was in flight when another task succeeded, does not replace it.
FirstSuccessWins == [][result.ok => result' = result]_vars

\* A success comes from a server: the shared result and the returned value
\* are only Ok if that server answered some task with a result.
SuccessIsGenuine ==
    \A r \in {result, ret} :
        r.ok => /\ r.from \in Servers
                /\ \E i \in Tasks : answers[i][r.from] = "ok"

\* rpc_call only fails after a full round: when it returns an error, every
\* task has asked every server and every one of them answered with an error.
FailureIsExhaustive ==
    caller = "returned" /\ ~ret.ok =>
        \A i \in Tasks, s \in Servers : answers[i][s] = "err"

\* Arc::try_unwrap never reports "couldn't unwrap": when the caller gets
\* there no task holds a clone of the result any more.
TryUnwrapSucceeds == caller = "unwrap" => \A i \in Tasks : ~HoldsResult(i)

\* How far a task is, three steps to an address, and how far the caller is.
TaskProgress(i) ==
    CASE pc[i] = "none" -> 0
      [] pc[i] = "check" -> 3 * pos[i] + 1
      [] pc[i] = "post" -> 3 * pos[i] + 2
      [] pc[i] = "store" -> 3 * pos[i] + 3
      [] pc[i] \in {"done", "panicked"} -> 3 * NumServers + 2

CallerProgress ==
    CASE caller = "entry" -> 0
      [] caller = "spawn" -> spawned + 1
      [] caller = "join" -> NumTasks + joined + 2
      [] caller = "unwrap" -> 2 * NumTasks + 3
      [] caller \in {"returned", "panicked"} -> 2 * NumTasks + 4

\* No task asks a server again or starts over, whatever the others do: every
\* step brings the caller or a task forward and nobody back.
EveryStepIsProgress ==
    [][/\ CallerProgress' >= CallerProgress
       /\ \A i \in Tasks : TaskProgress(i)' >= TaskProgress(i)
       /\ \/ CallerProgress' > CallerProgress
          \/ \E i \in Tasks : TaskProgress(i)' > TaskProgress(i)]_vars

\* The call comes to an end when every request does.
CallEnds == <>(caller \in {"returned", "panicked"})
=============================================================================
