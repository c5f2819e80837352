--------------------------- MODULE RpcCallProofs ---------------------------
(***************************************************************************)
(* Proofs about RpcCall for any number of servers and any concurrency.     *)
(***************************************************************************)
EXTENDS RpcCall, TLAPS

-----------------------------------------------------------------------------
(* The rotation of the address list *)

\* [right, left].concat() only holds configured addresses.
LEMMA AddressIsServer ==
    ASSUME NEW i \in Tasks, NEW k \in Nat, k < NumServers
    PROVE  AddressOf(i, k) \in Servers
<1> i \in Nat /\ NumServers \in Nat
    BY ServersAssumption DEF Tasks
<1> i % NumServers \in 0 .. NumServers - 1
    BY SMT
<1> QED
    BY DEF AddressOf, Servers

\* It holds none of them twice.
LEMMA AddressesAreDistinct ==
    ASSUME NEW i \in Tasks, NEW k \in Nat, NEW l \in Nat,
           k < NumServers, l < NumServers, k # l
    PROVE  AddressOf(i, k) # AddressOf(i, l)
<1> i \in Nat /\ NumServers \in Nat
    BY ServersAssumption DEF Tasks
<1> i % NumServers \in 0 .. NumServers - 1
    BY SMT
<1> QED
    BY DEF AddressOf

\* It holds all of them.
LEMMA EveryServerHasATurn ==
    ASSUME NEW i \in Tasks, NEW s \in Servers
    PROVE  \E k \in 0 .. NumServers - 1 : AddressOf(i, k) = s
<1> DEFINE left == i % NumServers
           turn == IF s >= left THEN s - left ELSE s - left + NumServers
<1>1. i \in Nat /\ NumServers \in Nat /\ s \in 0 .. NumServers - 1
    BY ServersAssumption DEF Tasks, Servers
<1>2. left \in 0 .. NumServers - 1
    BY <1>1, SMT
<1>3. turn \in 0 .. NumServers - 1
    BY <1>1, <1>2
<1>4. AddressOf(i, turn) = s
    BY <1>1, <1>2 DEF AddressOf
<1> QED
    BY <1>3, <1>4

-----------------------------------------------------------------------------
(* The inductive invariant *)

\* A task that asks a server, or holds its answer, has not used up its list;
\* one that is done has, unless the call succeeded.
Positions ==
    \A i \in Tasks :
        /\ pc[i] \in {"post", "store"} => pos[i] < NumServers
        /\ pc[i] = "done" => pos[i] = NumServers \/ result.ok

\* An answer that is about to be stored is the one the server gave.
Responses ==
    \A i \in Tasks :
        pc[i] = "store" =>
            /\ response[i].from = AddressOf(i, pos[i])
            /\ answers[i][response[i].from] = IF response[i].ok THEN "ok" ELSE "err"

\* As long as the call has not succeeded, every address a task is done with
\* answered with an error.
Errors ==
    ~result.ok =>
        \A i \in Tasks : \A k \in 0 .. pos[i] - 1 :
            answers[i][AddressOf(i, k)] = "err"

\* A success was given to some task by an address it is done with, and so
\* will not ask again.
Origin ==
    result.ok =>
        \E i \in Tasks : \E k \in 0 .. pos[i] - 1 :
            result.from = AddressOf(i, k) /\ answers[i][result.from] = "ok"

\* Only tasks that are done have been joined, and all of them before the
\* result is unwrapped.
Joining ==
    /\ caller \in {"entry", "spawn"} => joined = 0
    /\ caller = "unwrap" => joined = NumTasks
    /\ caller = "returned" /\ NumServers > 0 => joined = NumTasks
    /\ \A i \in Tasks : i < joined => pc[i] = "done"

\* What is returned is what was stored.
Returned == ret.ok => ret = result

Inductive ==
    /\ TypeOK
    /\ Positions
    /\ Responses
    /\ Errors
    /\ Origin
    /\ Joining
    /\ Returned
    /\ FailureIsExhaustive

-----------------------------------------------------------------------------
(* Initialisation and preservation *)

\* The tasks rpc_call spawns are numbered from 0.
LEMMA TasksAreNumbered == NumTasks \in Nat /\ Tasks \subseteq Nat
BY ServersAssumption, ConcurrencyAssumption DEF NumTasks, Tasks

\* A call starts with no task, no answer and "couldn't find" as its result.
LEMMA InitInductive == Init => Inductive
<1> SUFFICES ASSUME Init PROVE Inductive
    OBVIOUS
<1> USE TasksAreNumbered, ServersAssumption
<1>1. TypeOK
    BY DEF Init, TypeOK, Results, CouldntFind, NoServer
<1>2. Positions /\ Responses /\ Errors
    BY DEF Init, Positions, Responses, Errors
<1>3. Origin /\ Returned /\ FailureIsExhaustive
    BY DEF Init, Origin, Returned, FailureIsExhaustive, CouldntFind
<1>4. Joining
    BY DEF Init, Joining
<1> QED
    BY <1>1, <1>2, <1>3, <1>4 DEF Inductive

\* The steps of rpc_call itself: entry, spawning, joining and unwrapping.
LEMMA CallerPreserves == Inductive /\ CallerStep => Inductive'
<1> SUFFICES ASSUME Inductive, CallerStep PROVE Inductive'
    OBVIOUS
<1> USE TasksAreNumbered, ServersAssumption
<1> USE DEF Inductive
<1>1. CASE Enter
  <2>1. TypeOK'
      BY <1>1 DEF Enter, TypeOK
  <2>2. Positions' /\ Responses' /\ Errors' /\ Origin' /\ Returned'
      BY <1>1 DEF Enter, Positions, Responses, Errors, Origin, Returned
  <2>3. Joining'
      BY <1>1 DEF Enter, Joining
  <2>4. FailureIsExhaustive'
      BY <1>1 DEF Enter, FailureIsExhaustive, Servers
  <2> QED
      BY <2>1, <2>2, <2>3, <2>4
<1>2. CASE Spawn
  <2>1. TypeOK'
      BY <1>2 DEF Spawn, TypeOK, Tasks
  <2>2. \A i \in Tasks : pc'[i] = pc[i] \/ pc'[i] = "check"
      BY <1>2 DEF Spawn, TypeOK
  <2>3. Positions' /\ Responses' /\ Errors' /\ Origin' /\ Returned'
      BY <1>2, <2>2 DEF Spawn, Positions, Responses, Errors, Origin, Returned
  <2>4. Joining'
      BY <1>2 DEF Spawn, Joining, TypeOK
  <2>5. FailureIsExhaustive'
      BY <1>2 DEF Spawn, FailureIsExhaustive
  <2> QED
      BY <2>1, <2>3, <2>4, <2>5
<1>3. CASE Join
  <2>1. TypeOK'
      BY <1>3 DEF Join, TypeOK
  <2>2. Positions' /\ Responses' /\ Errors' /\ Origin' /\ Returned'
      BY <1>3 DEF Join, Positions, Responses, Errors, Origin, Returned
  <2>3. Joining'
      BY <1>3 DEF Join, Joining, TypeOK, Tasks
  <2>4. FailureIsExhaustive'
      BY <1>3 DEF Join, FailureIsExhaustive
  <2> QED
      BY <2>1, <2>2, <2>3, <2>4
<1>4. CASE Unwrap
  <2>1. \A i \in Tasks : pc[i] = "done"
      BY <1>4 DEF Unwrap, Joining, Tasks, TypeOK
  <2>2. ret' = result
      BY <1>4, <2>1 DEF Unwrap, HoldsResult
  <2>3. TypeOK'
      BY <1>4, <2>2 DEF Unwrap, TypeOK
  <2>4. Positions' /\ Responses' /\ Errors' /\ Origin' /\ Returned'
      BY <1>4, <2>2 DEF Unwrap, Positions, Responses, Errors, Origin, Returned
  <2>5. Joining'
      BY <1>4 DEF Unwrap, Joining
  <2>6. FailureIsExhaustive'
    <3> SUFFICES ASSUME ~result.ok, NEW i \in Tasks, NEW s \in Servers
                 PROVE  answers[i][s] = "err"
        BY <1>4, <2>2 DEF Unwrap, FailureIsExhaustive
    <3>1. PICK k \in 0 .. NumServers - 1 : AddressOf(i, k) = s
        BY EveryServerHasATurn
    <3>2. pos[i] = NumServers
        BY <2>1 DEF Positions
    <3> QED
        BY <3>1, <3>2 DEF Errors
  <2> QED
      BY <2>3, <2>4, <2>5, <2>6
<1> QED
    BY <1>1, <1>2, <1>3, <1>4 DEF CallerStep

\* A task that runs has not been joined, so the call has not returned.
LEMMA RunningIsNotJoined ==
    ASSUME Inductive, NEW i \in Tasks, HoldsResult(i)
    PROVE  /\ i >= joined
           /\ caller = "returned" => NumServers = 0
BY TasksAreNumbered, ServersAssumption
DEF Inductive, Joining, HoldsResult, Tasks, TypeOK

\* The steps of a spawned task: the loop's head, http_post, storing the answer.
LEMMA TaskPreserves ==
    ASSUME Inductive, NEW i \in Tasks, TaskStep(i)
    PROVE  Inductive'
<1> USE TasksAreNumbered, ServersAssumption
<1> USE DEF Inductive
<1>0. HoldsResult(i)
    BY DEF TaskStep, Check, HttpPost, Store, HoldsResult
<1>1. i >= joined /\ (caller = "returned" => NumServers = 0)
    BY <1>0, RunningIsNotJoined
<1>2. CASE Check(i)
  <2>1. TypeOK'
      BY <1>2 DEF Check, TypeOK
  <2>2. Positions'
      BY <1>2 DEF Check, Positions, TypeOK
  <2>3. Responses' /\ Errors' /\ Origin' /\ Returned'
      BY <1>2 DEF Check, Responses, Errors, Origin, Returned, TypeOK
  <2>4. Joining'
      BY <1>1, <1>2 DEF Check, Joining, TypeOK, Tasks
  <2>5. FailureIsExhaustive'
      BY <1>2 DEF Check, FailureIsExhaustive
  <2> QED
      BY <2>1, <2>2, <2>3, <2>4, <2>5
<1>3. CASE HttpPost(i)
  <2> DEFINE server == AddressOf(i, pos[i])
  <2>1. pos[i] \in Nat /\ pos[i] < NumServers /\ server \in Servers
    <3>1. pos[i] \in Nat /\ pos[i] < NumServers
        BY <1>3 DEF HttpPost, Positions, TypeOK
    <3> QED
        BY <3>1, AddressIsServer
  <2>2. TypeOK'
    <3> HIDE DEF server
    <3>1. \A r \in Results : [response EXCEPT ![i] = r] \in [Tasks -> Results]
        BY DEF TypeOK
    <3>2. \A ok \in BOOLEAN : [ok |-> ok, from |-> server] \in Results
        BY <2>1 DEF Results
    <3>3. answers' \in [Tasks -> [Servers -> {"none", "ok", "err"}]]
        BY <1>3, <2>1 DEF HttpPost, TypeOK, server
    <3>4. response' \in [Tasks -> Results]
        BY <1>3, <3>1, <3>2 DEF HttpPost, TypeOK, server
    <3> QED
        BY <1>3, <3>3, <3>4 DEF HttpPost, TypeOK
  <2>3. Positions'
      BY <1>3, <2>1 DEF HttpPost, Positions, TypeOK
  <2>4. \A j \in Tasks : j # i => answers'[j] = answers[j]
      BY <1>3 DEF HttpPost, TypeOK
  <2>5. \A k \in 0 .. pos[i] - 1 :
           /\ AddressOf(i, k) # server
           /\ answers'[i][AddressOf(i, k)] = answers[i][AddressOf(i, k)]
    <3> TAKE k \in 0 .. pos[i] - 1
    <3>1. k \in Nat /\ k < NumServers /\ k # pos[i]
        BY <2>1
    <3>2. AddressOf(i, k) # server
        BY <2>1, <3>1, AddressesAreDistinct
    <3>3. AddressOf(i, k) \in Servers
        BY <3>1, AddressIsServer
    <3> HIDE DEF server
    <3> QED
        BY <1>3, <3>2, <3>3 DEF HttpPost, TypeOK, server
  <2>6. Responses'
    <3> SUFFICES ASSUME NEW j \in Tasks, pc'[j] = "store"
                 PROVE  /\ response'[j].from = AddressOf(j, pos'[j])
                        /\ answers'[j][response'[j].from] =
                             IF response'[j].ok THEN "ok" ELSE "err"
        BY DEF Responses
    <3>1. CASE j # i
        BY <1>3, <2>4, <3>1 DEF HttpPost, Responses, TypeOK
    <3>2. CASE j = i
        BY <1>3, <2>1, <3>2 DEF HttpPost, TypeOK
    <3> QED
        BY <3>1, <3>2
  <2>7. Errors'
    <3> HIDE DEF server
    <3> SUFFICES ASSUME ~result.ok, NEW j \in Tasks, NEW k \in 0 .. pos[j] - 1
                 PROVE  answers'[j][AddressOf(j, k)] = "err"
        BY <1>3 DEF HttpPost, Errors
    <3> QED
        BY <2>4, <2>5 DEF Errors
  <2>8. Origin'
    <3> HIDE DEF server
    <3> SUFFICES ASSUME result.ok
                 PROVE  \E j \in Tasks : \E k \in 0 .. pos[j] - 1 :
                           /\ result.from = AddressOf(j, k)
                           /\ answers'[j][result.from] = "ok"
        BY <1>3 DEF HttpPost, Origin
    <3>1. PICK j \in Tasks : \E k \in 0 .. pos[j] - 1 :
             result.from = AddressOf(j, k) /\ answers[j][result.from] = "ok"
        BY DEF Origin
    <3> QED
        BY <2>4, <2>5, <3>1
  <2>9. Joining' /\ Returned'
      BY <1>1, <1>3 DEF HttpPost, Joining, Returned, TypeOK, Tasks
  <2>10. FailureIsExhaustive'
      BY <1>1, <1>3, <2>1 DEF HttpPost, FailureIsExhaustive
  <2> QED
      BY <2>2, <2>3, <2>6, <2>7, <2>8, <2>9, <2>10
<1>4. CASE Store(i)
  <2>1. pos[i] \in Nat /\ pos[i] < NumServers
      BY <1>4 DEF Store, Positions, TypeOK
  <2>2. TypeOK'
      BY <1>4, <2>1 DEF Store, TypeOK
  <2>3. result.ok => result' = result
      BY <1>4 DEF Store
  <2>4. Positions'
      BY <1>4, <2>1, <2>3 DEF Store, Positions, TypeOK
  <2>5. Responses'
      BY <1>4 DEF Store, Responses, TypeOK
  <2>6. Errors'
    <3> SUFFICES ASSUME ~result'.ok, NEW j \in Tasks, NEW k \in 0 .. pos'[j] - 1
                 PROVE  answers[j][AddressOf(j, k)] = "err"
        BY <1>4 DEF Store, Errors
    <3>1. ~result.ok /\ ~response[i].ok
        BY <1>4 DEF Store
    <3>2. CASE j = i /\ k = pos[i]
        BY <1>4, <3>1, <3>2 DEF Store, Responses
    <3>3. CASE ~(j = i /\ k = pos[i])
      <4>1. k \in 0 .. pos[j] - 1
          BY <1>4, <2>1, <3>3 DEF Store, TypeOK
      <4> QED
          BY <3>1, <4>1 DEF Errors
    <3> QED
        BY <3>2, <3>3
  <2>7. Origin'
    <3> SUFFICES ASSUME result'.ok
                 PROVE  \E j \in Tasks : \E k \in 0 .. pos'[j] - 1 :
                           /\ result'.from = AddressOf(j, k)
                           /\ answers[j][result'.from] = "ok"
        BY <1>4 DEF Store, Origin
    <3>1. CASE result.ok
      <4>0. PICK j \in Tasks : \E k \in 0 .. pos[j] - 1 :
               result.from = AddressOf(j, k) /\ answers[j][result.from] = "ok"
          BY <3>1 DEF Origin
      <4>1. PICK k \in 0 .. pos[j] - 1 :
               result.from = AddressOf(j, k) /\ answers[j][result.from] = "ok"
          BY <4>0
      <4>2. k \in 0 .. pos'[j] - 1
          BY <1>4, <2>1 DEF Store, TypeOK
      <4> QED
          BY <2>3, <3>1, <4>1, <4>2
    <3>2. CASE ~result.ok
      <4>1. result' = response[i] /\ response[i].ok
          BY <1>4, <3>2 DEF Store
      <4>2. pos[i] \in 0 .. pos'[i] - 1
          BY <1>4, <2>1 DEF Store, TypeOK
      <4> QED
          BY <1>4, <4>1, <4>2 DEF Store, Responses
    <3> QED
        BY <3>1, <3>2
  <2>8. Joining'
      BY <1>1, <1>4 DEF Store, Joining, TypeOK, Tasks
  <2>9. Returned'
      BY <1>4, <2>3 DEF Store, Returned
  <2>10. FailureIsExhaustive'
      BY <1>4 DEF Store, FailureIsExhaustive
  <2> QED
      BY <2>2, <2>4, <2>5, <2>6, <2>7, <2>8, <2>9, <2>10
<1> QED
    BY <1>2, <1>3, <1>4 DEF TaskStep

\* Nothing changes after the end of the call.
LEMMA StutterPreserves == Inductive /\ UNCHANGED vars => Inductive'
BY DEF vars, Inductive, TypeOK, Positions, Responses, Errors, Origin, Joining,
       Returned, FailureIsExhaustive

\* The inductive invariant holds in every state of every call.
THEOREM CallIsInductive == Spec => []Inductive
<1>1. Inductive /\ [Next]_vars => Inductive'
    BY CallerPreserves, TaskPreserves, StutterPreserves DEF Next, Finished
<1> QED
    BY <1>1, InitInductive, PTL DEF Spec

-----------------------------------------------------------------------------
(* What follows from it *)

\* The program counters, positions, answers and results of rpc_call stay in
\* their types: no task indexes the list of addresses out of bounds.
THEOREM TypesAreCorrect == Spec => []TypeOK
<1>1. Inductive => TypeOK
    BY DEF Inductive
<1> QED
    BY <1>1, CallIsInductive, PTL

\* A result that rpc_call stores or returns was given by a configured server
\* to one of the call's own tasks.
THEOREM SuccessComesFromAServer == Spec => []SuccessIsGenuine
<1>1. ASSUME Inductive, result.ok
      PROVE  result.from \in Servers /\ \E i \in Tasks : answers[i][result.from] = "ok"
  <2>0. PICK i \in Tasks : \E k \in 0 .. pos[i] - 1 :
           result.from = AddressOf(i, k) /\ answers[i][result.from] = "ok"
      BY <1>1 DEF Inductive, Origin
  <2>1. PICK k \in 0 .. pos[i] - 1 :
           result.from = AddressOf(i, k) /\ answers[i][result.from] = "ok"
      BY <2>0
  <2>2. k \in Nat /\ k < NumServers
      BY <1>1, ServersAssumption DEF Inductive, TypeOK
  <2> QED
      BY <2>1, <2>2, AddressIsServer
<1>2. Inductive => SuccessIsGenuine
    BY <1>1 DEF Inductive, Returned, SuccessIsGenuine
<1> QED
    BY <1>2, CallIsInductive, PTL

\* rpc_call returns an error only after every task got an error from every
\* configured server, wherever in the list the task started.
THEOREM FailureNeedsAllServers == Spec => []FailureIsExhaustive
<1>1. Inductive => FailureIsExhaustive
    BY DEF Inductive
<1> QED
    BY <1>1, CallIsInductive, PTL

\* When rpc_call comes to Arc::try_unwrap no task holds a clone of the result.
THEOREM UnwrapIsSafe == Spec => []TryUnwrapSucceeds
<1>1. Inductive => TryUnwrapSucceeds
    BY TasksAreNumbered
    DEF Inductive, Joining, TryUnwrapSucceeds, HoldsResult, Tasks, TypeOK
<1> QED
    BY <1>1, CallIsInductive, PTL

\* A success in the shared result is never replaced by a later answer.
THEOREM SuccessIsKept == Spec => FirstSuccessWins
<1>1. [Next]_vars => [result.ok => result' = result]_vars
  <2> SUFFICES ASSUME Next, result.ok PROVE result' = result
      BY DEF vars
  <2>1. CASE CallerStep
      BY <2>1 DEF CallerStep, Enter, Spawn, Join, Unwrap
  <2>2. ASSUME NEW i \in Tasks, TaskStep(i) PROVE result' = result
      BY <2>2 DEF TaskStep, Check, HttpPost, Store
  <2>3. CASE Finished
      BY <2>3 DEF Finished, vars
  <2> QED
      BY <2>1, <2>2, <2>3 DEF Next
<1> QED
    BY <1>1, PTL DEF Spec, FirstSuccessWins

-----------------------------------------------------------------------------
(* The call comes to its end *)

\* The tasks below spawned have started, all of them once the caller joins.
Started ==
    /\ \A i \in Tasks : pc[i] = "none" <=> i >= spawned
    /\ caller \in {"join", "unwrap"} => spawned = NumTasks

\* Spawning starts the tasks in their order, and no task goes back to "none".
LEMMA AlwaysStarted == Spec => []Started
<1> USE TasksAreNumbered
<1>1. Init => Started
    BY DEF Init, Started, Tasks
<1>2. ASSUME Inductive, Started, [Next]_vars PROVE Started'
  <2>1. pc \in [Tasks -> {"none", "check", "post", "store", "done", "panicked"}]
        /\ spawned \in 0 .. NumTasks
      BY <1>2 DEF Inductive, TypeOK
  <2>2. CASE Spawn
      BY <1>2, <2>1, <2>2 DEF Spawn, Started, Tasks
  <2>3. CASE Enter \/ Join \/ Unwrap
      BY <1>2, <2>3 DEF Enter, Join, Unwrap, Started
  <2>4. ASSUME NEW i \in Tasks, TaskStep(i) PROVE Started'
      BY <1>2, <2>1, <2>4 DEF TaskStep, Check, HttpPost, Store, Started
  <2>5. CASE UNCHANGED vars
      BY <1>2, <2>5 DEF vars, Started
  <2> QED
      BY <1>2, <2>2, <2>3, <2>4, <2>5 DEF Next, CallerStep, Finished
<1> QED
    BY <1>1, <1>2, CallIsInductive, PTL DEF Spec

\* Progress is counted in natural numbers, up to the end of a list of
\* addresses and of the call.
Bounded ==
    /\ CallerProgress \in 0 .. 2 * NumTasks + 4
    /\ \A i \in Tasks : TaskProgress(i) \in 0 .. 3 * NumServers + 2

\* It stays within its bounds.
LEMMA ProgressIsBounded == Inductive => Bounded
<1> SUFFICES ASSUME Inductive PROVE Bounded
    OBVIOUS
<1> USE TasksAreNumbered, ServersAssumption
<1>1. TypeOK /\ Positions
    BY DEF Inductive
<1>2. CallerProgress \in 0 .. 2 * NumTasks + 4
    BY <1>1 DEF TypeOK, CallerProgress
<1>3. ASSUME NEW i \in Tasks PROVE TaskProgress(i) \in 0 .. 3 * NumServers + 2
  <2>1. /\ pc[i] \in {"none", "check", "post", "store", "done", "panicked"}
        /\ pos[i] \in 0 .. NumServers
        /\ pc[i] \in {"post", "store"} => pos[i] < NumServers
      BY <1>1 DEF TypeOK, Positions
  <2> QED
      BY <2>1 DEF TaskProgress
<1> QED
    BY <1>2, <1>3 DEF Bounded

\* The caller moves on by one, or to the end of the call.
LEMMA CallerAdvances ==
    ASSUME Inductive, Started, CallerStep
    PROVE  /\ CallerProgress' > CallerProgress
           /\ \A i \in Tasks : TaskProgress(i)' >= TaskProgress(i)
<1> USE TasksAreNumbered, ServersAssumption
<1>1. TypeOK /\ Bounded
    BY ProgressIsBounded DEF Inductive
<1>2. CASE Spawn
  <2>1. CallerProgress' > CallerProgress
      BY <1>1, <1>2 DEF Spawn, TypeOK, CallerProgress, Inductive, Joining
  <2>2. ASSUME NEW i \in Tasks PROVE TaskProgress(i)' >= TaskProgress(i)
    <3>1. CASE i = spawned /\ spawned < NumTasks
      <4>1. pc[i] = "none" /\ pc'[i] = "check" /\ pos'[i] = pos[i] /\ pos[i] \in Nat
          BY <1>1, <1>2, <3>1 DEF Spawn, Started, TypeOK
      <4> QED
          BY <4>1 DEF TaskProgress
    <3>2. CASE ~(i = spawned /\ spawned < NumTasks)
      <4>1. pc'[i] = pc[i] /\ pos'[i] = pos[i]
          BY <1>1, <1>2, <3>2 DEF Spawn, TypeOK
      <4>2. TaskProgress(i)' = TaskProgress(i)
          BY <4>1 DEF TaskProgress
      <4> QED
          BY <1>1, <4>2 DEF Bounded
    <3> QED
        BY <3>1, <3>2
  <2> QED
      BY <2>1, <2>2
<1>3. CASE Enter \/ Join \/ Unwrap
  <2>1. CallerProgress' > CallerProgress
      BY <1>1, <1>3 DEF Enter, Join, Unwrap, TypeOK, CallerProgress
  <2>2. ASSUME NEW i \in Tasks PROVE TaskProgress(i)' = TaskProgress(i)
      BY <1>3 DEF Enter, Join, Unwrap, TaskProgress
  <2> QED
      BY <1>1, <2>1, <2>2 DEF Bounded
<1> QED
    BY <1>2, <1>3 DEF CallerStep

\* A task moves on by one, or to its end.
LEMMA TaskAdvances ==
    ASSUME Inductive, NEW i \in Tasks, TaskStep(i)
    PROVE  /\ CallerProgress' = CallerProgress
           /\ TaskProgress(i)' > TaskProgress(i)
           /\ \A j \in Tasks : j # i => TaskProgress(j)' = TaskProgress(j)
<1> USE ServersAssumption
<1>1. /\ pc \in [Tasks -> {"none", "check", "post", "store", "done", "panicked"}]
      /\ pos \in [Tasks -> 0 .. NumServers]
      /\ pc[i] \in {"post", "store"} => pos[i] < NumServers
    BY DEF Inductive, TypeOK, Positions
<1>2. CallerProgress' = CallerProgress
    BY DEF TaskStep, Check, HttpPost, Store, CallerProgress
<1>3. ASSUME NEW j \in Tasks, j # i PROVE TaskProgress(j)' = TaskProgress(j)
  <2>1. pc'[j] = pc[j] /\ pos'[j] = pos[j]
      BY <1>1, <1>3 DEF TaskStep, Check, HttpPost, Store
  <2> QED
      BY <2>1 DEF TaskProgress
<1>4. TaskProgress(i)' > TaskProgress(i)
  <2>1. CASE Check(i)
      BY <1>1, <2>1 DEF Check, TaskProgress
  <2>2. CASE HttpPost(i)
    <3>1. pc[i] = "post" /\ pc'[i] \in {"store", "panicked"} /\ pos'[i] = pos[i]
        BY <1>1, <2>2 DEF HttpPost
    <3> QED
        BY <1>1, <3>1 DEF TaskProgress
  <2>3. CASE Store(i)
      BY <1>1, <2>3 DEF Store, TaskProgress
  <2> QED
      BY <2>1, <2>2, <2>3 DEF TaskStep
<1> QED
    BY <1>2, <1>3, <1>4

\* Every step of a call that changes anything brings the caller or a task
\* forward and nobody back.  With ProgressIsBounded a call takes at most
\* 2 * NumTasks + 4 + NumTasks * (3 * NumServers + 2) steps.
THEOREM CallOnlyAdvances == Spec => EveryStepIsProgress
<1> DEFINE Advance ==
      /\ CallerProgress' >= CallerProgress
      /\ \A i \in Tasks : TaskProgress(i)' >= TaskProgress(i)
      /\ \/ CallerProgress' > CallerProgress
         \/ \E i \in Tasks : TaskProgress(i)' > TaskProgress(i)
<1>1. ASSUME Inductive, Inductive', Started, Next PROVE [Advance]_vars
  <2>0. Bounded /\ Bounded' /\ 2 * NumTasks + 4 \in Nat /\ 3 * NumServers + 2 \in Nat
      BY <1>1, ProgressIsBounded, TasksAreNumbered, ServersAssumption
         DEF Inductive, TypeOK, Positions, Bounded, CallerProgress, TaskProgress
  <2>1. CASE CallerStep
    <3>1. CallerProgress' > CallerProgress
          /\ \A i \in Tasks : TaskProgress(i)' >= TaskProgress(i)
        BY <1>1, <2>1, CallerAdvances
    <3> QED
        BY <2>0, <3>1 DEF Bounded
  <2>2. ASSUME NEW i \in Tasks, TaskStep(i) PROVE Advance
    <3>1. /\ CallerProgress' = CallerProgress
          /\ TaskProgress(i)' > TaskProgress(i)
          /\ \A j \in Tasks : j # i => TaskProgress(j)' = TaskProgress(j)
        BY <1>1, <2>2, TaskAdvances
    <3> QED
        BY <2>0, <3>1 DEF Bounded
  <2>3. CASE Finished
      BY <2>3 DEF Finished
  <2> QED
      BY <1>1, <2>1, <2>2, <2>3 DEF Next
<1>2. Inductive /\ Started /\ Inductive' /\ [Next]_vars => [Advance]_vars
    BY <1>1
<1> QED
    BY <1>2, CallIsInductive, AlwaysStarted, PTL DEF Spec, EveryStepIsProgress

\* A call that waits, waits for somebody who can go on: the task the caller
\* joins has ended or is between two steps of its loop.
NobodyIsWaitedForInVain ==
    caller = "join" /\ joined < NumTasks =>
        pc[joined] \in {"done", "panicked"} \/ HoldsResult(joined)

\* Together with CallOnlyAdvances: rpc_call ends as soon as every request does,
\* whatever the number of tasks and servers and whoever fails.
THEOREM CallIsNeverStuck == Spec => [](Bounded /\ NobodyIsWaitedForInVain)
<1>1. ASSUME Inductive, Started PROVE Bounded /\ NobodyIsWaitedForInVain
  <2>1. Bounded
      BY <1>1, ProgressIsBounded
  <2>2. ASSUME caller = "join", joined < NumTasks
        PROVE  pc[joined] \in {"done", "panicked"} \/ HoldsResult(joined)
    <3>1. joined \in Tasks /\ spawned = NumTasks
        BY <1>1, <2>2, TasksAreNumbered DEF Inductive, TypeOK, Started, Tasks
    <3>2. pc[joined] # "none"
        BY <1>1, <2>2, <3>1, TasksAreNumbered DEF Started, Tasks
    <3> QED
        BY <1>1, <3>1, <3>2 DEF Inductive, TypeOK, HoldsResult
  <2> QED
      BY <2>1, <2>2 DEF NobodyIsWaitedForInVain
<1> QED
    BY <1>1, CallIsInductive, AlwaysStarted, PTL
=============================================================================
