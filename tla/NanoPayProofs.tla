--------------------------- MODULE NanoPayProofs ---------------------------
(***************************************************************************)
(* For every sequence of payments and calls and every interleaving with    *)
(* the task: the unwrap()s of flush_fn on the transaction fail only when   *)
(* two flushes overlap; the amount of the claimer is what was claimed of   *)
(* every nano pay; and what it leaves unsent of one is bounded.            *)
(***************************************************************************)
EXTENDS NanoPay, SequenceTheorems, WellFoundedInduction, TLAPS

Touching == FlushLabels \ {"amount", "none"}
Claiming == {"height", "switch", "reset", "balance", "accept", "expiration", "total"}

Labels ==
    FlushLabels \cup Claiming
        \cup {"idle", "sleep", "check", "wait", "returned", "panicked"}

\* The state the proof is about, well-typed.
Types ==
    /\ pc \in [Threads -> Labels]
    /\ height \in Nat /\ payer \in Tx /\ txs \in Seq(Tx)

\* Two flushes past their look at tx are on record.
Recorded == pc["task"] \in Touching /\ pc["user"] \in Touching => "flush" \in races

\* A flush that has seen a transaction still has one, if it was alone.
Present ==
    \A t \in Threads : pc[t] \in {"payload", "clone"} => tx # 0 \/ "flush" \in races

\* A claim in progress is about a transaction.
Given == pc["user"] \in Claiming \/ claim_height > 0 => last # 0

IInv == Types /\ Recorded /\ Present /\ Given /\ PanicNeedsTwoFlushes

-----------------------------------------------------------------------------
\* The invariant holds of a new payer and a new claimer.
LEMMA InitIInv == Init => IInv
<1> SUFFICES ASSUME Init PROVE IInv
  OBVIOUS
<1>1. pc = [t \in Threads |-> IF t = "user" THEN "idle" ELSE "sleep"]
  BY DEF Init
<1>2. pc["user"] = "idle" /\ pc["task"] = "sleep"
  BY <1>1 DEF Threads
<1>3. Types
  BY <1>1 DEF Init, Types, Tx, Labels
<1>4. Recorded /\ Present
  BY <1>2 DEF Recorded, Present, Touching, FlushLabels, Threads
<1>5. Given
  BY <1>2 DEF Init, Given, Claiming
<1>6. PanicNeedsTwoFlushes
  BY Zenon DEF Init, PanicNeedsTwoFlushes
<1>7. QED
  BY <1>3, <1>4, <1>5, <1>6 DEF IInv

\* Overlap forgets nothing and records two flushes.
LEMMA OverlapRecords ==
    ASSUME Overlap
    PROVE  /\ "flush" \in races => "flush" \in races'
           /\ pc'["task"] \in Touching /\ pc'["user"] \in Touching => "flush" \in races'
BY DEF Overlap, Touches, Touching

\* A thread that moves on, and neither clears tx nor panics, preserves what
\* the invariant says of flushes, provided it has a transaction where it
\* is going to unwrap one.
LEMMA MovePreserves ==
    ASSUME IInv, NEW t \in Threads, NEW label \in Labels, Goto(t, label), Overlap,
           tx' = tx \/ tx' # 0, poisoned' = poisoned,
           label \in {"payload", "clone"} => tx' # 0
    PROVE  Recorded' /\ Present' /\ PanicNeedsTwoFlushes'
<1>1. \A u \in Threads : pc'[u] = IF u = t THEN label ELSE pc[u]
  BY DEF IInv, Types, Goto
<1>2. Recorded'
  BY OverlapRecords DEF Recorded
<1>3. Present'
  BY <1>1, OverlapRecords DEF IInv, Present
<1>4. PanicNeedsTwoFlushes'
  BY OverlapRecords DEF IInv, PanicNeedsTwoFlushes
<1>5. QED
  BY <1>2, <1>3, <1>4

\* In all, what such a step has to show.
LEMMA Move ==
    ASSUME IInv, NEW t \in Threads, NEW label \in Labels, Goto(t, label), Overlap,
           tx' = tx \/ tx' # 0, poisoned' = poisoned,
           UNCHANGED <<height, payerVars>>, UNCHANGED callVars,
           label \in {"payload", "clone"} => tx' # 0,
           t = "user" /\ label \in Claiming =>
               pc["user"] \in Claiming \/ claim_height > 0
    PROVE  IInv'
<1>1. Recorded' /\ Present' /\ PanicNeedsTwoFlushes'
  BY MovePreserves
<1>2. Types'
  BY DEF IInv, Types, Goto, payerVars
<1>3. \A u \in Threads : pc'[u] = IF u = t THEN label ELSE pc[u]
  BY DEF IInv, Types, Goto
<1>4. "user" \in Threads
  BY DEF Threads
<1>5. Given'
  BY <1>3, <1>4 DEF IInv, Given, callVars
<1>6. QED
  BY <1>1, <1>2, <1>5 DEF IInv

-----------------------------------------------------------------------------
(* flush_fn *)

\* Where a flush returns to, and what that says of a claim.
LEMMA ReturnLabels ==
    ASSUME NEW t \in Threads
    PROVE  /\ AfterFlush(t) \in Labels /\ AfterError(t) \in Labels
           /\ AfterFlush(t) \notin {"payload", "clone"}
           /\ AfterError(t) \notin {"payload", "clone"}
           /\ t = "user" /\ AfterFlush(t) \in Claiming => claim_height > 0
           /\ AfterError(t) \notin Claiming
<1>1. AfterFlush(t) \in Labels /\ AfterError(t) \in Labels
  BY DEF AfterFlush, AfterError, Labels, Claiming
<1>2. AfterFlush(t) \notin {"payload", "clone"} /\ AfterError(t) \notin {"payload", "clone"}
  BY DEF AfterFlush, AfterError
<1>3. t = "user" /\ AfterFlush(t) \in Claiming => claim_height > 0
  BY DEF AfterFlush, Claiming
<1>4. AfterError(t) \notin Claiming
  BY DEF AfterError, Claiming
<1>5. QED
  BY <1>1, <1>2, <1>3, <1>4

\* No step of flush_fn but a panic disturbs the invariant: only FlushClear
\* takes the transaction away, and from another flush only when both are on
\* record.
LEMMA FlushPreserves ==
    ASSUME IInv, NEW t \in Threads, FlushStep(t)
    PROVE  IInv'
<1>1. CASE FlushAmount(t)
  <2> DEFINE l == IF ~(t = "user" /\ force) /\ amount - prev_flush_amount < MinFlush
                  THEN AfterFlush(t) ELSE "none"
  <2>1. Goto(t, l) /\ Overlap /\ UNCHANGED <<height, payerVars>>
        /\ UNCHANGED callVars
        /\ tx' = tx /\ poisoned' = poisoned
    BY <1>1 DEF FlushAmount, txVars
  <2>2. l \in Labels /\ l \notin {"payload", "clone"}
        /\ (t = "user" /\ l \in Claiming => claim_height > 0)
    BY ReturnLabels DEF Claiming, Labels, FlushLabels
  <2> HIDE DEF l
  <2>3. QED
    BY <2>1, <2>2, Move
<1>2. CASE FlushNone(t)
  <2> DEFINE l == IF tx = 0 THEN AfterFlush(t) ELSE "payload"
  <2>1. Goto(t, l) /\ Overlap /\ UNCHANGED <<height, payerVars>>
        /\ UNCHANGED callVars
        /\ tx' = tx /\ poisoned' = poisoned
    BY <1>2 DEF FlushNone, txVars
  <2>2. l \in Labels /\ (l \in {"payload", "clone"} => tx' # 0)
        /\ (t = "user" /\ l \in Claiming => claim_height > 0)
    BY <2>1, ReturnLabels DEF Claiming, Labels, FlushLabels
  <2> HIDE DEF l
  <2>3. QED
    BY <2>1, <2>2, Move
<1>3. CASE FlushPayload(t)
  <2>1. Goto(t, "clone") /\ Overlap /\ UNCHANGED <<height, payerVars>>
        /\ UNCHANGED callVars
        /\ tx' = tx /\ poisoned' = poisoned /\ tx # 0
    BY <1>3 DEF FlushPayload, txVars
  <2>2. QED
    BY <2>1, Move DEF Claiming, Labels, FlushLabels
<1>4. CASE FlushSend(t)
  <2>1. Goto(t, "sending") /\ Overlap /\ UNCHANGED <<height, payerVars>>
        /\ UNCHANGED callVars
        /\ tx' = tx /\ poisoned' = poisoned
    BY <1>4 DEF FlushSend, txVars
  <2>2. QED
    BY <2>1, Move DEF Claiming, Labels, FlushLabels
<1>5. CASE FlushFails(t)
  <2>1. Goto(t, AfterError(t)) /\ Overlap /\ UNCHANGED <<height, payerVars>>
        /\ UNCHANGED callVars
        /\ tx' = tx /\ poisoned' = poisoned
    BY <1>5 DEF FlushFails, txVars
  <2>2. QED
    BY <2>1, ReturnLabels, Move
<1>6. CASE FlushSent(t)
  <2>1. Goto(t, "clear") /\ Overlap /\ UNCHANGED <<height, payerVars>>
        /\ UNCHANGED callVars
        /\ tx' = tx /\ poisoned' = poisoned
    BY <1>6 DEF FlushSent, txVars
  <2>2. QED
    BY <2>1, Move DEF Claiming, Labels, FlushLabels
<1>7. CASE FlushClear(t)
  <2>1. Goto(t, "expire") /\ Overlap /\ UNCHANGED <<height, payerVars>>
        /\ UNCHANGED callVars
        /\ poisoned' = poisoned /\ pc[t] = "clear"
    BY <1>7 DEF FlushClear
  <2>2. Types' /\ Given'
    <3>1. "user" \in Threads
      BY DEF Threads
    <3>2. \A u \in Threads : pc'[u] = IF u = t THEN "expire" ELSE pc[u]
      BY <2>1 DEF IInv, Types, Goto
    <3>3. Types'
      BY <2>1 DEF IInv, Types, Goto, payerVars, Labels, FlushLabels
    <3>4. Given'
      BY <2>1, <3>1, <3>2 DEF IInv, Given, callVars, Claiming
    <3>5. QED
      BY <3>3, <3>4
  <2>3. \A u \in Threads : pc'[u] = IF u = t THEN "expire" ELSE pc[u]
    BY <2>1 DEF IInv, Types, Goto
  <2>4. Recorded' /\ PanicNeedsTwoFlushes'
    BY <2>1, OverlapRecords DEF IInv, Recorded, PanicNeedsTwoFlushes
  <2>5. ASSUME NEW u \in Threads, pc'[u] \in {"payload", "clone"}
        PROVE  "flush" \in races'
    <3>1. u # t /\ pc[u] \in {"payload", "clone"}
      BY <2>3, <2>5
    <3>2. pc["task"] \in Touching /\ pc["user"] \in Touching
      BY <2>1, <3>1 DEF Touching, FlushLabels, Threads
    <3>3. QED
      BY <2>1, <3>2, OverlapRecords DEF IInv, Recorded
  <2>6. QED
    BY <2>2, <2>4, <2>5 DEF IInv, Present
<1>8. CASE FlushExpire(t)
  <2>1. Goto(t, "record") /\ Overlap /\ UNCHANGED <<height, payerVars>>
        /\ UNCHANGED callVars
        /\ tx' = tx /\ poisoned' = poisoned
    BY <1>8 DEF FlushExpire
  <2>2. QED
    BY <2>1, Move DEF Claiming, Labels, FlushLabels
<1>9. CASE FlushRecord(t)
  <2>1. Goto(t, AfterFlush(t)) /\ Overlap /\ UNCHANGED <<height, payerVars>>
        /\ UNCHANGED callVars
        /\ tx' = tx /\ poisoned' = poisoned
    BY <1>9 DEF FlushRecord, txVars
  <2>2. QED
    BY <2>1, ReturnLabels, Move
<1>10. QED
  BY <1>1, <1>2, <1>3, <1>4, <1>5, <1>6, <1>7, <1>8, <1>9 DEF FlushStep

\* A panic in flush_fn, or of whoever takes the lock after it: the thread has
\* lost its transaction to another flush.
LEMMA PanicPreserves ==
    ASSUME IInv, NEW t \in Threads, NEW labels, PanicAt(t, labels)
    PROVE  IInv'
<1>1. Goto(t, "panicked") /\ Overlap /\ UNCHANGED <<height, payerVars>>
      /\ UNCHANGED callVars
  BY DEF PanicAt
<1>2. "flush" \in races
  BY DEF PanicAt, IInv, Present, PanicNeedsTwoFlushes
<1>3. "flush" \in races'
  BY <1>1, <1>2, OverlapRecords
<1>4. Recorded' /\ Present' /\ PanicNeedsTwoFlushes'
  BY <1>3 DEF Recorded, Present, PanicNeedsTwoFlushes
<1>5. Types'
  BY <1>1 DEF IInv, Types, Goto, payerVars, Labels
<1>6. \A u \in Threads : pc'[u] = IF u = t THEN "panicked" ELSE pc[u]
  BY <1>1 DEF IInv, Types, Goto
<1>7. Given'
  BY <1>1, <1>6 DEF IInv, Given, callVars, Claiming, Threads
<1>8. QED
  BY <1>4, <1>5, <1>7 DEF IInv

-----------------------------------------------------------------------------
(* The task and the user *)

\* A move of the task within its loop.
LEMMA TaskMove ==
    ASSUME IInv, NEW label \in Labels \ {"payload", "clone"}, TaskGoes(label)
    PROVE  IInv'
<1>1. "task" \in Threads /\ "task" # "user"
  BY DEF Threads
<1>2. Goto("task", label) /\ Overlap /\ UNCHANGED <<height, payerVars>>
      /\ UNCHANGED callVars /\ tx' = tx /\ poisoned' = poisoned
  BY DEF TaskGoes, txVars
<1>3. QED
  BY <1>1, <1>2, Move

\* Every step of the task preserves the invariant.
LEMMA TaskPreserves ==
    ASSUME IInv, TaskStep
    PROVE  IInv'
<1>1. "task" \in Threads
  BY DEF Threads
<1>2. \A l \in {"returned", "sleep", "check", "amount", "height", "wait"} :
         l \in Labels \ {"payload", "clone"}
  BY DEF Labels, Claiming, FlushLabels
<1>3. CASE TaskWake
  <2>1. TaskGoes("returned") \/ TaskGoes("sleep") \/ TaskGoes("check")
    BY <1>3 DEF TaskWake
  <2>2. QED
    BY <1>2, <2>1, TaskMove
<1>4. CASE TaskCheck
  <2>1. TaskGoes("sleep") \/ TaskGoes("amount") \/ TaskGoes("height")
    BY <1>4 DEF TaskCheck
  <2>2. QED
    BY <1>2, <2>1, TaskMove
<1>5. CASE TaskHeight
  <2>1. TaskGoes("sleep") \/ TaskGoes("wait") \/ TaskGoes("amount")
    BY <1>5 DEF TaskHeight
  <2>2. QED
    BY <1>2, <2>1, TaskMove
<1>6. CASE TaskWaited
  <2>1. TaskGoes("returned") \/ TaskGoes("amount")
    BY <1>6 DEF TaskWaited
  <2>2. QED
    BY <1>2, <2>1, TaskMove
<1>7. CASE FlushStep("task")
  BY <1>1, <1>7, FlushPreserves
<1>8. ASSUME NEW labels, PanicAt("task", labels) PROVE IInv'
  BY <1>1, <1>8, PanicPreserves
<1>9. QED
  BY <1>3, <1>4, <1>5, <1>6, <1>7, <1>8 DEF TaskStep

\* A call of flush.
LEMMA FlushCallPreserves ==
    ASSUME IInv, NEW f \in BOOLEAN, Flush(f)
    PROVE  IInv'
<1>1. Goto("user", "amount") /\ Overlap /\ UNCHANGED <<height, payerVars>>
      /\ tx' = tx /\ poisoned' = poisoned /\ claim_height' = 0
  BY DEF Flush, txVars
<1>2. "user" \in Threads /\ "amount" \in Labels /\ "amount" \notin Claiming
  BY DEF Threads, Labels, FlushLabels, Claiming
<1>3. Recorded' /\ Present' /\ PanicNeedsTwoFlushes'
  BY <1>1, <1>2, MovePreserves
<1>4. Types'
  BY <1>1, <1>2 DEF IInv, Types, Goto, payerVars
<1>5. pc'["user"] = "amount"
  BY <1>1, <1>2 DEF IInv, Types, Goto
<1>6. Given'
  BY <1>1, <1>2, <1>5 DEF Given
<1>7. QED
  BY <1>3, <1>4, <1>6 DEF IInv

\* A call of claim, which is given a transaction.
LEMMA ClaimCallPreserves ==
    ASSUME IInv, NEW i \in DOMAIN txs, Claim(i)
    PROVE  IInv'
<1>1. Goto("user", "height") /\ Overlap /\ UNCHANGED <<height, payerVars>>
      /\ tx' = tx /\ poisoned' = poisoned /\ last' = i
  BY DEF Claim, txVars
<1>2. "user" \in Threads /\ "height" \in Labels
  BY DEF Threads, Labels, Claiming
<1>3. Recorded' /\ Present' /\ PanicNeedsTwoFlushes'
  BY <1>1, <1>2, MovePreserves
<1>4. Types'
  BY <1>1, <1>2 DEF IInv, Types, Goto, payerVars
<1>5. i # 0
  BY DEF IInv, Types
<1>6. Given'
  BY <1>1, <1>5 DEF Given
<1>7. QED
  BY <1>3, <1>4, <1>6 DEF IInv

\* A move of a claim in progress, to its next step or its end; a transaction
\* it stores is the one it was given.
LEMMA ClaimMove ==
    ASSUME IInv, NEW label \in Labels \ {"payload", "clone"}, Goto("user", label), Overlap,
           pc["user"] \in Claiming, UNCHANGED <<height, payerVars>>, UNCHANGED callVars,
           tx' = tx \/ tx' = last, poisoned' = poisoned
    PROVE  IInv'
<1>1. "user" \in Threads
  BY DEF Threads
<1>2. tx' = tx \/ tx' # 0
  BY DEF IInv, Given
<1>3. QED
  BY <1>1, <1>2, Move

\* Every step of the user preserves the invariant.
LEMMA UserPreserves ==
    ASSUME IInv, UserStep
    PROVE  IInv'
<1>1. "user" \in Threads
  BY DEF Threads
<1>2. \A l \in {"idle", "panicked", "amount", "balance", "reset", "accept", "expiration",
                "total"} : l \in Labels \ {"payload", "clone"}
  BY DEF Labels, Claiming, FlushLabels
<1>3. CASE Close
  <2>1. Types' /\ Given'
    BY <1>3 DEF Close, IInv, Types, Given, payerVars
  <2>2. Recorded' /\ Present' /\ PanicNeedsTwoFlushes'
    BY <1>3 DEF Close, IInv, Recorded, Present, PanicNeedsTwoFlushes, txVars, ghostVars
  <2>3. QED
    BY <2>1, <2>2 DEF IInv
<1>4. ASSUME NEW result \in VerifyResults, ClaimCheck(result) PROVE IInv'
  <2> DEFINE l == CASE result = "todo" -> "panicked"
                    [] result = "no" \/ closed \/ (id # 0 /\ StaleClaim) -> "idle"
                    [] result = "yes" /\ ~closed /\ id # 0 /\ id # Claimed.id -> "amount"
                    [] OTHER -> "balance"
  <2>1. l \in {"panicked", "idle", "amount", "balance"}
    OBVIOUS
  <2>2. Goto("user", l) /\ Overlap /\ UNCHANGED <<height, payerVars>>
        /\ UNCHANGED callVars /\ tx' = tx /\ poisoned' = poisoned
        /\ pc["user"] \in Claiming
    BY <1>4 DEF ClaimCheck, txVars, Claiming
  <2> HIDE DEF l
  <2>3. l \in Labels \ {"payload", "clone"}
    BY <1>2, <2>1
  <2>4. QED
    BY <2>2, <2>3, ClaimMove
<1>5. ASSUME NEW balance \in Balances, ClaimBalance(balance) PROVE IInv'
  <2>1. Goto("user", "idle") \/ Goto("user", "accept")
    BY <1>5 DEF ClaimBalance
  <2>2. Overlap /\ UNCHANGED <<height, payerVars>> /\ UNCHANGED callVars
        /\ tx' = tx /\ poisoned' = poisoned /\ pc["user"] \in Claiming
    BY <1>5 DEF ClaimBalance, txVars, Claiming
  <2>3. QED
    BY <1>2, <2>1, <2>2, ClaimMove
<1>6. CASE ClaimSwitch
  <2>1. Goto("user", "reset") /\ Overlap /\ UNCHANGED <<height, payerVars>>
        /\ UNCHANGED callVars /\ tx' = tx /\ poisoned' = poisoned
        /\ pc["user"] \in Claiming
    BY <1>6 DEF ClaimSwitch, txVars, Claiming
  <2>2. QED
    BY <1>2, <2>1, ClaimMove
<1>7. CASE ClaimReset
  <2>1. Goto("user", "balance") /\ Overlap /\ UNCHANGED <<height, payerVars>>
        /\ UNCHANGED callVars /\ tx' = tx /\ poisoned' = poisoned
        /\ pc["user"] \in Claiming
    BY <1>7 DEF ClaimReset, txVars, Claiming
  <2>2. QED
    BY <1>2, <2>1, ClaimMove
<1>8. CASE ClaimAccept
  <2>1. Goto("user", "expiration") /\ Overlap /\ UNCHANGED <<height, payerVars>>
        /\ UNCHANGED callVars /\ tx' = last /\ poisoned' = poisoned
        /\ pc["user"] \in Claiming
    BY <1>8 DEF ClaimAccept, Claiming
  <2>2. QED
    BY <1>2, <2>1, ClaimMove
<1>9. CASE ClaimExpiration
  <2>1. Goto("user", "total") /\ Overlap /\ UNCHANGED <<height, payerVars>>
        /\ UNCHANGED callVars /\ tx' = tx /\ poisoned' = poisoned
        /\ pc["user"] \in Claiming
    BY <1>9 DEF ClaimExpiration, Claiming
  <2>2. QED
    BY <1>2, <2>1, ClaimMove
<1>10. CASE ClaimTotal
  <2>1. Goto("user", "idle") /\ Overlap /\ UNCHANGED <<height, payerVars>>
        /\ UNCHANGED callVars /\ tx' = tx /\ poisoned' = poisoned
        /\ pc["user"] \in Claiming
    BY <1>10 DEF ClaimTotal, txVars, Claiming
  <2>2. QED
    BY <1>2, <2>1, ClaimMove
<1>11. CASE FlushStep("user")
  BY <1>1, <1>11, FlushPreserves
<1>12. ASSUME NEW labels, PanicAt("user", labels) PROVE IInv'
  BY <1>1, <1>12, PanicPreserves
<1>13. QED
  BY <1>3, <1>4, <1>5, <1>6, <1>7, <1>8, <1>9, <1>10, <1>11, <1>12,
     FlushCallPreserves, ClaimCallPreserves DEF UserStep

\* Payments and blocks concern neither the claimer nor its task.
LEMMA PayerPreserves ==
    ASSUME IInv, Tick \/ \E delta \in Deltas : IncreaseAmount(delta)
    PROVE  IInv'
<1>1. Recorded' /\ Present' /\ Given' /\ PanicNeedsTwoFlushes' /\ pc' = pc
  BY DEF Tick, IncreaseAmount, IInv, Recorded, Present, Given, PanicNeedsTwoFlushes,
         txVars, callVars, ghostVars
<1>2. CASE Tick
  BY <1>1, <1>2 DEF Tick, IInv, Types, payerVars
<1>3. ASSUME NEW delta \in Deltas, IncreaseAmount(delta) PROVE IInv'
  <2>1. delta \in Nat
    BY NanoPayAssumption
  <2>2. Renewed \in Tx
    BY DEF IInv, Types, Renewed, Tx, SENDER_EXPIRATION_DELTA
  <2>3. [Renewed EXCEPT !.amount = @ + delta] \in Tx
    BY <2>1, <2>2 DEF Tx
  <2>4. payer' \in Tx /\ txs' \in Seq(Tx) /\ height' = height
    BY <1>3, <2>3 DEF IncreaseAmount, IInv, Types
  <2>5. QED
    BY <1>1, <2>4 DEF IInv, Types
<1>4. QED
  BY <1>2, <1>3

\* The invariant holds in every reachable state.
LEMMA AlwaysIInv == Spec => []IInv
<1>1. IInv /\ [Next]_vars => IInv'
  <2> SUFFICES ASSUME IInv, [Next]_vars PROVE IInv'
    OBVIOUS
  <2>1. CASE Next
    BY <2>1, PayerPreserves, TaskPreserves, UserPreserves DEF Next
  <2>2. CASE UNCHANGED vars
    <3>1. Types' /\ Given'
      BY <2>2 DEF vars, IInv, Types, Given, payerVars, callVars
    <3>2. Recorded' /\ Present' /\ PanicNeedsTwoFlushes'
      BY <2>2 DEF vars, IInv, Recorded, Present, PanicNeedsTwoFlushes, txVars, ghostVars
    <3>3. QED
      BY <3>1, <3>2 DEF IInv
  <2>3. QED
    BY <2>1, <2>2
<1>2. QED
  BY <1>1, InitIInv, PTL DEF Spec

\* For every number of payments, calls and blocks, whatever the balances and
\* results, the unwrap()s of flush_fn panic only if the task and the user
\* were both past their look at tx.
THEOREM PanicComesOfTwoFlushes == Spec => []PanicNeedsTwoFlushes
BY AlwaysIInv, PTL DEF IInv

-----------------------------------------------------------------------------
(* Types *)

UserLabels ==
    FlushLabels \cup {"idle", "height", "switch", "reset", "balance", "accept", "expiration",
                     "total", "panicked"}
TaskLabels == FlushLabels \cup {"sleep", "check", "height", "wait", "returned", "panicked"}

\* Each thread keeps to its own labels.
OwnLabels == pc["user"] \in UserLabels /\ pc["task"] \in TaskLabels

\* A flush that has read its payload knows which transaction it is.
Reading == {"clone", "sending", "clear", "expire", "record"}

\* The transactions that are held, given, read, claimed and sent are ones
\* that the payer has made.
Made == 0 .. Len(txs)
References ==
    /\ tx \in Made /\ last \in Made /\ np \in [Threads -> Made]
    /\ accepted \subseteq Made /\ sent \subseteq Made
    /\ \A t \in Threads : pc[t] \in Reading => np[t] # 0

Amounts ==
    /\ id \in Nat /\ amount \in Nat /\ expiration \in Nat
    /\ prev_claimed_amount \in Nat /\ prev_flush_amount \in Nat

Counts ==
    /\ height \in 1 .. MaxHeight /\ claim_height \in 0 .. MaxHeight
    /\ calls \in 0 .. MaxCalls /\ Len(txs) <= MaxPayments
    /\ races \subseteq {"claim", "flush", "record", "again"}

Switches == closed \in BOOLEAN /\ poisoned \in BOOLEAN /\ force \in BOOLEAN

\* A flush returns to its caller.
LEMMA OwnReturns ==
    /\ AfterFlush("user") \in UserLabels \ Reading /\ AfterFlush("task") \in TaskLabels \ Reading
    /\ AfterError("user") \in UserLabels \ Reading /\ AfterError("task") \in TaskLabels \ Reading
BY DEF AfterFlush, AfterError, UserLabels, TaskLabels, FlushLabels, Reading

\* What a flush does to the labels and to the transaction it has read.
FlushMoves(t, l) ==
    /\ Goto(t, l)
    /\ \/ l \notin Reading /\ np' \in {np, [np EXCEPT ![t] = 0]}
       \/ l \in Reading /\ pc[t] \in Reading /\ np' = np
       \/ l \in Reading /\ tx # 0 /\ np' = [np EXCEPT ![t] = tx]

\* Every step of flush_fn is such a move.
LEMMA FlushIsAMove ==
    ASSUME Types, NEW t \in Threads, FlushStep(t)
    PROVE  \E l \in FlushLabels \cup {AfterFlush(t), AfterError(t)} : FlushMoves(t, l)
<1>0. "user" \in Threads /\ "task" \in Threads /\ t \in {"user", "task"}
      /\ AfterFlush(t) \notin Reading /\ AfterError(t) \notin Reading
  BY OwnReturns DEF Threads
<1>1. CASE FlushAmount(t)
  BY <1>0, <1>1 DEF FlushAmount, FlushMoves, FlushLabels, Reading
<1>2. CASE FlushNone(t)
  BY <1>0, <1>2 DEF FlushNone, FlushMoves, FlushLabels, Reading
<1>3. CASE FlushPayload(t)
  BY <1>3 DEF FlushPayload, FlushMoves, FlushLabels, Reading
<1>4. CASE FlushSend(t)
  BY <1>4 DEF FlushSend, FlushMoves, FlushLabels, Reading
<1>5. CASE FlushFails(t)
  BY <1>0, <1>5 DEF FlushFails, FlushMoves
<1>6. CASE FlushSent(t)
  BY <1>6 DEF FlushSent, FlushMoves, FlushLabels, Reading
<1>7. CASE FlushClear(t)
  BY <1>7 DEF FlushClear, FlushMoves, FlushLabels, Reading
<1>8. CASE FlushExpire(t)
  BY <1>8 DEF FlushExpire, FlushMoves, FlushLabels, Reading
<1>9. CASE FlushRecord(t)
  BY <1>0, <1>9 DEF FlushRecord, FlushMoves
<1> QED
  BY <1>1, <1>2, <1>3, <1>4, <1>5, <1>6, <1>7, <1>8, <1>9 DEF FlushStep

\* The labels the other steps of the task and the user go to, none of them in
\* the middle of a flush.
OtherMove ==
    /\ np' = np
    /\ \/ pc' = pc
       \/ \E l \in TaskLabels \ Reading : Goto("task", l)
       \/ \E l \in UserLabels \ Reading : Goto("user", l)

\* All other steps move so.
LEMMA OthersMove ==
    ASSUME Types, [Next]_vars, \A t \in Threads : ~FlushStep(t)
    PROVE  OtherMove
<1> USE DEF OtherMove
<1>0. /\ \A l \in {"returned", "sleep", "check", "amount", "height", "wait", "panicked"} :
           l \in TaskLabels \ Reading
      /\ \A l \in {"idle", "panicked", "amount", "height", "balance", "reset", "accept",
                   "expiration", "total"} : l \in UserLabels \ Reading
  BY DEF TaskLabels, UserLabels, Reading, FlushLabels
<1>1. CASE Tick \/ UNCHANGED vars \/ Close \/ \E delta \in Deltas : IncreaseAmount(delta)
  BY <1>1 DEF Tick, vars, Close, IncreaseAmount
<1>2. CASE TaskWake \/ TaskCheck \/ TaskHeight \/ TaskWaited
  <2>1. PICK l \in {"returned", "sleep", "check", "amount", "height", "wait"} : TaskGoes(l)
    BY <1>2 DEF TaskWake, TaskCheck, TaskHeight, TaskWaited
  <2> QED
    BY <1>0, <2>1 DEF TaskGoes
<1>3. ASSUME NEW labels, PanicAt("task", labels) PROVE OtherMove
  BY <1>0, <1>3 DEF PanicAt
<1>4. ASSUME NEW labels, PanicAt("user", labels) PROVE OtherMove
  BY <1>0, <1>4 DEF PanicAt
<1>5. CASE \E f \in BOOLEAN : Flush(f)
  BY <1>0, <1>5 DEF Flush
<1>6. CASE \E i \in DOMAIN txs : Claim(i)
  BY <1>0, <1>6 DEF Claim
<1>7. ASSUME NEW result \in VerifyResults, ClaimCheck(result) PROVE OtherMove
  <2>1. PICK l \in {"panicked", "idle", "amount", "balance"} : Goto("user", l)
    <3> DEFINE l == CASE result = "todo" -> "panicked"
                      [] result = "no" \/ closed \/ (id # 0 /\ StaleClaim) -> "idle"
                      [] result = "yes" /\ ~closed /\ id # 0 /\ id # Claimed.id -> "amount"
                      [] OTHER -> "balance"
    <3>1. l \in {"panicked", "idle", "amount", "balance"}
      OBVIOUS
    <3>2. Goto("user", l)
      BY <1>7 DEF ClaimCheck
    <3> HIDE DEF l
    <3> QED
      BY <3>1, <3>2
  <2> QED
    BY <1>0, <1>7, <2>1 DEF ClaimCheck
<1>8. ASSUME NEW balance \in Balances, ClaimBalance(balance) PROVE OtherMove
  <2>1. PICK l \in {"idle", "accept"} : Goto("user", l)
    BY <1>8 DEF ClaimBalance
  <2> QED
    BY <1>0, <1>8, <2>1 DEF ClaimBalance
<1>9. CASE ClaimSwitch \/ ClaimReset \/ ClaimAccept \/ ClaimExpiration \/ ClaimTotal
  BY <1>0, <1>9 DEF ClaimSwitch, ClaimReset, ClaimAccept, ClaimExpiration, ClaimTotal
<1> QED
  BY <1>1, <1>2, <1>3, <1>4, <1>5, <1>6, <1>7, <1>8, <1>9
     DEF Next, TaskStep, UserStep, Threads

\* Threads keep to their labels.
LEMMA NextLabels == IInv /\ OwnLabels /\ [Next]_vars => OwnLabels'
<1> SUFFICES ASSUME IInv, OwnLabels, [Next]_vars PROVE OwnLabels'
  OBVIOUS
<1>0. Types /\ "user" \in Threads /\ "task" \in Threads /\ "user" # "task"
  BY DEF IInv, Threads
<1>1. ASSUME NEW t \in Threads, FlushStep(t) PROVE OwnLabels'
  <2>1. PICK l \in FlushLabels \cup {AfterFlush(t), AfterError(t)} : Goto(t, l)
    BY <1>0, <1>1, FlushIsAMove DEF FlushMoves
  <2>2. t = "user" => l \in UserLabels
    BY OwnReturns DEF UserLabels
  <2>3. t = "task" => l \in TaskLabels
    BY OwnReturns DEF TaskLabels
  <2> QED
    BY <1>0, <2>1, <2>2, <2>3 DEF OwnLabels, Goto, Types, Threads
<1>2. CASE \A t \in Threads : ~FlushStep(t)
  <2>1. OtherMove
    BY <1>0, <1>2, OthersMove
  <2> QED
    BY <1>0, <2>1 DEF OtherMove, OwnLabels, Goto, Types
<1> QED
  BY <1>1, <1>2

\* What the threads hold stays what the payer has made.
LEMMA NextReferences == IInv /\ References /\ [Next]_vars => References'
<1> SUFFICES ASSUME IInv, References, [Next]_vars PROVE References'
  OBVIOUS
<1>0. Types /\ txs \in Seq(Tx) /\ Len(txs) \in Nat /\ 0 \in Made
  BY DEF IInv, Types, Made
<1>1. \A x \in Made : x \in Made'
  <2>1. Len(txs') = Len(txs) \/ Len(txs') = Len(txs) + 1
    <3>1. txs' = txs \/ \E y \in Tx : txs' = Append(txs, y)
      <4>1. ASSUME NEW delta \in Deltas, IncreaseAmount(delta)
            PROVE  payer' \in Tx /\ txs' = Append(txs, payer')
        <5>1. delta \in Nat
          BY NanoPayAssumption
        <5>2. Renewed \in Tx
          BY DEF IInv, Types, Renewed, Tx, SENDER_EXPIRATION_DELTA
        <5> QED
          BY <4>1, <5>1, <5>2 DEF IncreaseAmount, Tx
      <4>2. CASE ~ \E delta \in Deltas : IncreaseAmount(delta)
        BY <4>2 DEF Next, Tick, TaskStep, TaskWake, TaskCheck, TaskHeight, TaskWaited, TaskGoes,
                FlushStep, FlushAmount, FlushNone, FlushPayload, FlushSend, FlushFails,
                FlushSent, FlushClear, FlushExpire, FlushRecord, PanicAt, UserStep, Flush,
                Close, Claim, ClaimCheck, ClaimBalance, ClaimSwitch, ClaimReset, ClaimAccept,
                ClaimExpiration, ClaimTotal, vars, payerVars
      <4> QED
        BY <4>1, <4>2
    <3> QED
      BY <1>0, <3>1
  <2> QED
    BY <1>0, <2>1 DEF Made
<1> DEFINE Changes == /\ tx' \in {0, tx, last}
                      /\ last' = last \/ last' \in DOMAIN txs
                      /\ accepted' \in {accepted, accepted \cup {last}}
                      /\ sent' \in {sent, sent \cup {tx}}
           Reads == /\ np' \in [Threads -> Made]
                    /\ \A t \in Threads : pc'[t] \in Reading => np'[t] # 0
<1>2. Changes
  <2> USE DEF txVars, callVars, ghostVars
  <2>1. ASSUME NEW t \in Threads, FlushStep(t) PROVE Changes
    BY <2>1 DEF FlushStep, FlushAmount, FlushNone, FlushPayload, FlushSend, FlushFails,
                FlushSent, FlushClear, FlushExpire, FlushRecord
  <2> QED
    BY <2>1 DEF Next, Tick, IncreaseAmount, TaskStep, TaskWake, TaskCheck, TaskHeight,
                TaskWaited, TaskGoes, PanicAt, UserStep, Flush,
                Close, Claim, ClaimCheck, ClaimBalance, ClaimSwitch, ClaimReset, ClaimAccept,
                ClaimExpiration, ClaimTotal, vars, Threads
<1>3. /\ tx' \in Made' /\ last' \in Made'
      /\ accepted' \subseteq Made' /\ sent' \subseteq Made'
  <2>1. \A i \in DOMAIN txs : i \in Made
    BY <1>0 DEF Made
  <2> QED
    BY <1>0, <1>1, <1>2, <2>1 DEF References
<1>4. Reads
  <2>1. ASSUME NEW t \in Threads, FlushStep(t) PROVE Reads
    <3>1. PICK l : FlushMoves(t, l)
      BY <1>0, <2>1, FlushIsAMove
    <3> QED
      BY <1>0, <3>1 DEF FlushMoves, References, Goto, Types
  <2>2. CASE \A t \in Threads : ~FlushStep(t)
    <3>1. OtherMove
      BY <1>0, <2>2, OthersMove
    <3> QED
      BY <1>0, <3>1 DEF OtherMove, References, Goto, Types
  <2> QED
    BY <2>1, <2>2
<1> QED
  BY <1>1, <1>3, <1>4 DEF References

\* Amounts, ids and expirations come from transactions.
LEMMA NextAmounts == IInv /\ References /\ Amounts /\ [Next]_vars => Amounts'
<1> SUFFICES ASSUME IInv, References, Amounts, [Next]_vars PROVE Amounts'
  OBVIOUS
<1> USE DEF Amounts, moneyVars, txVars
<1>0. txs \in Seq(Tx) /\ \A i \in Made : i # 0 => txs[i] \in Tx
  BY DEF IInv, Types, Made
<1>1. ASSUME NEW t \in Threads, FlushStep(t) PROVE Amounts'
  <2>1. CASE FlushRecord(t)
    <3>1. np[t] \in Made /\ np[t] # 0
      BY <2>1 DEF FlushRecord, References, Reading
    <3>2. txs[np[t]].amount \in Nat
      BY <1>0, <3>1 DEF Tx
    <3> QED
      BY <2>1, <3>2 DEF FlushRecord
  <2>2. CASE ~FlushRecord(t)
    BY <1>1, <2>2 DEF FlushStep, FlushAmount, FlushNone, FlushPayload, FlushSend, FlushFails,
                      FlushSent, FlushClear, FlushExpire
  <2> QED
    BY <2>1, <2>2
<1>2. CASE ClaimSwitch \/ ClaimReset
  BY <1>2 DEF ClaimSwitch, ClaimReset
<1>3. CASE ClaimAccept \/ ClaimExpiration \/ ClaimTotal
  <2>1. last \in Made /\ last # 0
    BY <1>3 DEF ClaimAccept, ClaimExpiration, ClaimTotal, IInv, Given, Claiming, References
  <2>2. Claimed.id \in Nat /\ Claimed.amount \in Nat /\ Claimed.expiration \in Nat
    BY <1>0, <2>1 DEF Claimed, Tx
  <2> QED
    BY <1>3, <2>2 DEF ClaimAccept, ClaimExpiration, ClaimTotal
<1>4. CASE Tick \/ UNCHANGED vars \/ Close \/ \E delta \in Deltas : IncreaseAmount(delta)
  BY <1>4 DEF Tick, vars, Close, IncreaseAmount
<1>5. CASE TaskWake \/ TaskCheck \/ TaskHeight \/ TaskWaited
  BY <1>5 DEF TaskWake, TaskCheck, TaskHeight, TaskWaited, TaskGoes
<1>6. ASSUME NEW t, NEW labels, PanicAt(t, labels) PROVE Amounts'
  BY <1>6 DEF PanicAt
<1>7. CASE \/ \E f \in BOOLEAN : Flush(f)
           \/ \E i \in DOMAIN txs : Claim(i)
           \/ \E result \in VerifyResults : ClaimCheck(result)
           \/ \E balance \in Balances : ClaimBalance(balance)
  BY <1>7 DEF Flush, Claim, ClaimCheck, ClaimBalance
<1> QED
  BY <1>1, <1>2, <1>3, <1>4, <1>5, <1>6, <1>7 DEF Next, TaskStep, UserStep, Threads

\* Heights, calls, payments and races stay within their bounds.
LEMMA NextCounts == IInv /\ Counts /\ [Next]_vars => Counts'
<1> SUFFICES ASSUME IInv, Counts, [Next]_vars PROVE Counts'
  OBVIOUS
<1> USE NanoPayAssumption DEF Counts, callVars, ghostVars, payerVars
<1>1. Overlap => races' \subseteq {"claim", "flush", "record", "again"}
  BY DEF Overlap
<1>2. ASSUME NEW t \in Threads, FlushStep(t) PROVE Counts'
  BY <1>1, <1>2 DEF FlushStep, FlushAmount, FlushNone, FlushPayload, FlushSend, FlushFails,
                    FlushSent, FlushClear, FlushExpire, FlushRecord
<1>3. CASE ClaimSwitch \/ ClaimReset \/ ClaimAccept \/ ClaimExpiration \/ ClaimTotal
  BY <1>1, <1>3 DEF ClaimSwitch, ClaimReset, ClaimAccept, ClaimExpiration, ClaimTotal
<1>4. CASE Tick \/ UNCHANGED vars \/ Close
  <2>1. CASE Tick
    <3>1. /\ height' = height + 1 /\ height < MaxHeight
          /\ UNCHANGED <<claim_height, calls, txs, races>>
      BY <2>1 DEF Tick
    <3> QED
      BY <3>1
  <2>2. CASE UNCHANGED vars
    BY <2>2 DEF vars
  <2>3. CASE Close
    <3>1. /\ calls' = calls + 1 /\ calls < MaxCalls
          /\ UNCHANGED <<height, claim_height, txs, races>>
      BY <2>3 DEF Close, Call
    <3> QED
      BY <3>1
  <2> QED
    BY <1>4, <2>1, <2>2, <2>3
<1>5. ASSUME NEW delta \in Deltas, IncreaseAmount(delta) PROVE Counts'
  <2>1. /\ txs' = Append(txs, payer') /\ Len(txs) < MaxPayments
        /\ UNCHANGED <<height, claim_height, calls, races>>
    BY <1>5 DEF IncreaseAmount
  <2>2. Len(txs') = Len(txs) + 1 /\ Len(txs) \in Nat
    BY <2>1 DEF IInv, Types
  <2> QED
    BY <2>1, <2>2
<1>6. CASE TaskWake \/ TaskCheck \/ TaskHeight \/ TaskWaited
  BY <1>1, <1>6 DEF TaskWake, TaskCheck, TaskHeight, TaskWaited, TaskGoes
<1>7. ASSUME NEW t, NEW labels, PanicAt(t, labels) PROVE Counts'
  BY <1>1, <1>7 DEF PanicAt
<1>8. CASE \/ \E f \in BOOLEAN : Flush(f)
           \/ \E i \in DOMAIN txs : Claim(i)
           \/ \E result \in VerifyResults : ClaimCheck(result)
           \/ \E balance \in Balances : ClaimBalance(balance)
  BY <1>1, <1>8 DEF Flush, Claim, ClaimCheck, ClaimBalance, Call
<1> QED
  BY <1>2, <1>3, <1>4, <1>5, <1>6, <1>7, <1>8 DEF Next, TaskStep, UserStep, Threads

\* The switches are set to TRUE or FALSE.
LEMMA NextSwitches == Switches /\ [Next]_vars => Switches'
<1> SUFFICES ASSUME Switches, [Next]_vars PROVE Switches'
  OBVIOUS
<1> DEFINE Sets == /\ closed' = closed \/ closed' = TRUE
                   /\ poisoned' = poisoned \/ poisoned' = TRUE
                   /\ force' = force \/ force' = FALSE \/ \E f \in BOOLEAN : force' = f
<1>1. Sets
  <2> USE DEF txVars, callVars
  <2>1. ASSUME NEW t \in Threads, FlushStep(t) PROVE UNCHANGED <<closed, poisoned, force>>
    BY <2>1 DEF FlushStep, FlushAmount, FlushNone, FlushPayload, FlushSend, FlushFails,
                FlushSent, FlushClear, FlushExpire, FlushRecord
  <2>2. CASE \/ Tick \/ UNCHANGED vars \/ \E delta \in Deltas : IncreaseAmount(delta)
             \/ TaskWake \/ TaskCheck \/ TaskHeight \/ TaskWaited
             \/ ClaimSwitch \/ ClaimReset \/ ClaimAccept \/ ClaimExpiration \/ ClaimTotal
             \/ \E result \in VerifyResults : ClaimCheck(result)
             \/ \E balance \in Balances : ClaimBalance(balance)
    <3>1. UNCHANGED <<closed, poisoned, force>>
      BY <2>2 DEF Tick, vars, IncreaseAmount, TaskWake, TaskCheck, TaskHeight, TaskWaited,
                TaskGoes, ClaimSwitch, ClaimReset, ClaimAccept, ClaimExpiration, ClaimTotal,
                ClaimCheck, ClaimBalance
    <3> QED
      BY <3>1, Zenon
  <2>3. ASSUME NEW t, NEW labels, PanicAt(t, labels) PROVE Sets
    BY <2>3, Zenon DEF PanicAt
  <2>4. ASSUME NEW f \in BOOLEAN, Flush(f) PROVE Sets
    BY <2>4, Zenon DEF Flush
  <2>5. ASSUME NEW i, Claim(i) PROVE Sets
    BY <2>5, Zenon DEF Claim
  <2>6. CASE Close
    BY <2>6, Zenon DEF Close
  <2> QED
    BY <2>1, <2>2, <2>3, <2>4, <2>5, <2>6 DEF Next, TaskStep, UserStep, Threads
<1> QED
  BY <1>1, Zenon DEF Switches

Typed == IInv /\ OwnLabels /\ References /\ Amounts /\ Counts /\ Switches

\* All of it holds throughout.
LEMMA AlwaysTyped == Spec => []Typed
<1>1. Init => Typed
  <2> SUFFICES ASSUME Init PROVE Typed
    OBVIOUS
  <2>1. pc["user"] = "idle" /\ pc["task"] = "sleep"
    BY DEF Init, Threads
  <2>2. OwnLabels
    BY <2>1 DEF OwnLabels, UserLabels, TaskLabels
  <2>3. References
    BY <2>1 DEF Init, References, Made, Reading, Threads
  <2>4. Amounts /\ Counts
    BY NanoPayAssumption DEF Init, Amounts, Counts
  <2>5. Switches
    BY Zenon DEF Init, Switches
  <2> QED
    BY <2>2, <2>3, <2>4, <2>5, InitIInv DEF Typed
<1>2. IInv /\ IInv' /\ Typed /\ [Next]_vars => Typed'
  BY NextLabels, NextReferences, NextAmounts, NextCounts, NextSwitches DEF Typed
<1> QED
  BY <1>1, <1>2, AlwaysIInv, PTL DEF Spec

\* Every place a flush or a claim looks at is one of a transaction the payer
\* has made, and every amount is a natural number.
THEOREM TypesAreCorrect == Spec => []TypeOK
<1>1. Typed => TypeOK
  <2> SUFFICES ASSUME Typed PROVE TypeOK
    OBVIOUS
  <2>1. Len(txs) \in Nat /\ Made \subseteq Places
    BY NanoPayAssumption DEF Typed, IInv, Types, Made, Places, Counts
  <2>2. tx \in Places /\ last \in Places /\ np \in [Threads -> Places]
        /\ accepted \subseteq Places /\ sent \subseteq Places
    BY <2>1 DEF Typed, References
  <2> QED
    BY <2>2 DEF Typed, TypeOK, IInv, Types, OwnLabels, UserLabels, TaskLabels, Amounts, Counts,
                Switches
<1> QED
  BY <1>1, AlwaysTyped, PTL

-----------------------------------------------------------------------------
(* The greatest amount of some transactions *)

\* An inhabited set of natural numbers has a least element.
LEMMA Least ==
    ASSUME NEW T, T \subseteq Nat, T # {}
    PROVE  \E n \in T : \A m \in T : n <= m
<1>1. IsWellFoundedOn(OpToRel(<, Nat), Nat)
  BY NatLessThanWellFounded
<1>2. PICK n \in T : \A m \in T : ~ (<<m, n>> \in OpToRel(<, Nat))
  BY <1>1, WFMin
<1>3. \A m \in T : ~(m < n)
  BY <1>2 DEF OpToRel
<1>4. QED
  BY <1>3

\* Induction over the natural numbers, for a set.
LEMMA Induction ==
    ASSUME NEW T, T \subseteq Nat, 0 \in T, \A n \in T : n + 1 \in T
    PROVE  T = Nat
<1> SUFFICES ASSUME Nat \ T # {} PROVE FALSE
  OBVIOUS
<1>1. PICK n \in Nat \ T : \A m \in Nat \ T : n <= m
  BY Least
<1>2. n - 1 \in T
  BY <1>1
<1>3. QED
  BY <1>2


\* The amounts of a list have a bound.
LEMMA AmountsAreBounded ==
    ASSUME NEW s \in Seq(Tx)
    PROVE  \E b \in Nat : \A i \in 1 .. Len(s) : s[i].amount <= b
<1> DEFINE Bounded(k) == \E b \in Nat : \A i \in 1 .. k : s[i].amount <= b
           T == {k \in Nat : k <= Len(s) => Bounded(k)}
<1>1. 0 \in T
  OBVIOUS
<1> HIDE DEF Bounded
<1>2. ASSUME NEW k \in T PROVE k + 1 \in T
  <2> SUFFICES ASSUME k + 1 <= Len(s) PROVE Bounded(k + 1)
    OBVIOUS
  <2>1. k \in Nat /\ Bounded(k) /\ Len(s) \in Nat
    OBVIOUS
  <2>2. PICK b \in Nat : \A i \in 1 .. k : s[i].amount <= b
    BY <2>1 DEF Bounded
  <2>3. s[k + 1].amount \in Nat
    <3>1. s[k + 1] \in Tx
      BY <2>1, ElementOfSeq
    <3>2. QED
      BY <3>1 DEF Tx
  <2>4. \A i \in 1 .. k + 1 : s[i].amount <= b + s[k + 1].amount
    <3>1. ASSUME NEW i \in 1 .. k PROVE s[i].amount <= b + s[k + 1].amount
      <4>1. s[i] \in Tx
        BY <2>1, ElementOfSeq
      <4>2. s[i].amount \in Nat
        BY <4>1 DEF Tx
      <4>3. QED
        BY <2>2, <2>3, <4>2
    <3>2. \A i \in 1 .. k + 1 : i \in 1 .. k \/ i = k + 1
      BY <2>1
    <3>3. QED
      BY <2>3, <3>1, <3>2
  <2>5. b + s[k + 1].amount \in Nat
    BY <2>2, <2>3
  <2>6. \E c \in Nat : \A i \in 1 .. k + 1 : s[i].amount <= c
    BY <2>4, <2>5, Zenon
  <2>7. QED
    BY <2>6 DEF Bounded
<1>3. T = Nat
  BY <1>1, <1>2, Induction
<1>4. Bounded(Len(s))
  BY <1>3
<1>5. QED
  BY <1>4 DEF Bounded

\* A bounded set of natural numbers that has 0 has a maximum.
LEMMA MaxExists ==
    ASSUME NEW A, A \subseteq Nat, 0 \in A, NEW b \in Nat, \A x \in A : x <= b
    PROVE  Max(A) \in A /\ \A x \in A : x <= Max(A)
<1> DEFINE U == {u \in Nat : \A x \in A : x <= u}
<1>1. PICK u \in U : \A v \in U : u <= v
  BY Least
<1>2. u \in A
  <2> SUFFICES ASSUME u \notin A PROVE FALSE
    OBVIOUS
  <2>1. u \in Nat /\ u # 0
    BY <1>1
  <2>2. u - 1 \in U
    BY <1>1, <2>1
  <2>3. QED
    BY <1>1, <2>1, <2>2
<1>3. \A y \in A : u >= y
  BY <1>1
<1>4. \E x \in A : \A y \in A : x >= y
  BY <1>2, <1>3
<1>5. Max(A) \in A /\ \A y \in A : Max(A) >= y
  BY <1>4 DEF Max
<1>6. QED
  BY <1>5

\* Greatest, of any list: the value of one of the transactions, or 0.
GreatestOf(s, places) == Max({0} \cup {s[i].amount : i \in places})

LEMMA GreatestIsReached ==
    ASSUME NEW s \in Seq(Tx), NEW P \in SUBSET (1 .. Len(s))
    PROVE  /\ GreatestOf(s, P) \in Nat
           /\ \A i \in P : s[i].amount <= GreatestOf(s, P)
           /\ GreatestOf(s, P) = 0 \/ \E i \in P : GreatestOf(s, P) = s[i].amount
<1> DEFINE A == {0} \cup {s[i].amount : i \in P}
<1>1. \A i \in P : s[i].amount \in Nat
  <2>1. \A i \in P : s[i] \in Tx
    BY ElementOfSeq
  <2>2. QED
    BY <2>1 DEF Tx
<1>2. PICK b \in Nat : \A i \in 1 .. Len(s) : s[i].amount <= b
  BY AmountsAreBounded
<1>3. A \subseteq Nat /\ 0 \in A /\ \A x \in A : x <= b
  BY <1>1, <1>2
<1>4. Max(A) \in A /\ \A x \in A : x <= Max(A)
  <2> HIDE DEF A
  <2>1. QED
    BY <1>3, MaxExists
<1>5. GreatestOf(s, P) = Max(A)
  BY DEF GreatestOf
<1>6. QED
  BY <1>3, <1>4, <1>5

\* It depends on the transactions only.
LEMMA GreatestStays ==
    ASSUME NEW s, NEW t, NEW P, \A i \in P : s[i] = t[i]
    PROVE  GreatestOf(s, P) = GreatestOf(t, P)
<1>1. {s[i].amount : i \in P} = {t[i].amount : i \in P}
  OBVIOUS
<1>2. QED
  BY <1>1 DEF GreatestOf

\* Of nothing it is 0, of more it is no less, and one transaction more raises
\* it to that one's amount, if at all.
LEMMA GreatestOfMore ==
    ASSUME NEW s \in Seq(Tx), NEW P \in SUBSET (1 .. Len(s)), NEW k \in 1 .. Len(s)
    PROVE  /\ P = {} => GreatestOf(s, P) = 0
           /\ GreatestOf(s, P) <= GreatestOf(s, P \cup {k})
           /\ s[k].amount >= GreatestOf(s, P) => GreatestOf(s, P \cup {k}) = s[k].amount
           /\ s[k].amount <= GreatestOf(s, P) => GreatestOf(s, P \cup {k}) = GreatestOf(s, P)
<1> DEFINE Q == P \cup {k}
<1>1. Q \in SUBSET (1 .. Len(s)) /\ P \subseteq Q /\ k \in Q
  OBVIOUS
<1>2. s[k].amount \in Nat
  <2>1. s[k] \in Tx
    BY ElementOfSeq
  <2>2. QED
    BY <2>1 DEF Tx
<1> DEFINE g == GreatestOf(s, P)
           h == GreatestOf(s, Q)
<1>3. /\ g \in Nat /\ \A i \in P : s[i].amount <= g
      /\ g = 0 \/ \E i \in P : g = s[i].amount
  BY GreatestIsReached
<1>4. /\ h \in Nat /\ \A i \in Q : s[i].amount <= h
      /\ h = 0 \/ \E i \in Q : h = s[i].amount
  BY <1>1, GreatestIsReached
<1> HIDE DEF g, h
<1>5. P = {} => g = 0
  BY <1>3
<1>6. g <= h
  BY <1>1, <1>3, <1>4
<1>7. s[k].amount >= g => h = s[k].amount
  BY <1>1, <1>2, <1>3, <1>4
<1>8. s[k].amount <= g => h = g
  BY <1>1, <1>2, <1>3, <1>4
<1>9. QED
  BY <1>5, <1>6, <1>7, <1>8 DEF g, h
-----------------------------------------------------------------------------
(* The sum of a list, which is a fold *)

\* g is the fold behind Total, on the sets of indices up to n.
SumsUpTo(g, n, s) ==
    g = [z \in SUBSET (1 .. n) |-> IF z = {} THEN 0 ELSE g[z \ {Max(z)}] + s[Max(z)]]

CanSum(n, s) == \E g \in [SUBSET (1 .. n) -> Nat] : SumsUpTo(g, n, s)

\* The largest index of a set that has the last one.
LEMMA MaxIsLast ==
    ASSUME NEW n \in Nat, NEW z \in SUBSET (1 .. n), n \in z
    PROVE  Max(z) = n
<1>1. \A y \in z : n >= y
  OBVIOUS
<1>2. \A x \in z : (\A y \in z : x >= y) => x = n
  OBVIOUS
<1>3. QED
  BY <1>1, <1>2 DEF Max

\* The fold exists.
LEMMA SumExists ==
    ASSUME NEW s \in Seq(Nat)
    PROVE  CanSum(Len(s), s)
<1> DEFINE T == {n \in Nat : n <= Len(s) => CanSum(n, s)}
<1>1. 0 \in T
  <2> DEFINE g == [z \in SUBSET (1 .. 0) |-> 0]
  <2>1. g \in [SUBSET (1 .. 0) -> Nat]
    OBVIOUS
  <2>2. \A z \in SUBSET (1 .. 0) : z = {}
    OBVIOUS
  <2>3. SumsUpTo(g, 0, s)
    BY <2>2 DEF SumsUpTo
  <2>4. QED
    BY <2>1, <2>3 DEF CanSum
<1>2. ASSUME NEW n \in T PROVE n + 1 \in T
  <2> SUFFICES ASSUME n + 1 <= Len(s) PROVE CanSum(n + 1, s)
    OBVIOUS
  <2>1. n \in Nat /\ n <= Len(s) /\ Len(s) \in Nat
    OBVIOUS
  <2>2. PICK g \in [SUBSET (1 .. n) -> Nat] : SumsUpTo(g, n, s)
    BY <1>2, <2>1 DEF CanSum
  <2>3. s[n + 1] \in Nat
    BY <2>1, ElementOfSeq
  <2> DEFINE v(z) == IF n + 1 \in z THEN g[z \ {n + 1}] + s[n + 1] ELSE g[z]
             h == [z \in SUBSET (1 .. n + 1) |-> v(z)]
  <2>4. \A z \in SUBSET (1 .. n + 1) : z \ {n + 1} \in SUBSET (1 .. n)
    BY <2>1
  <2>5. \A z \in SUBSET (1 .. n + 1) : n + 1 \notin z => z \in SUBSET (1 .. n)
    BY <2>1
  <2>6. h \in [SUBSET (1 .. n + 1) -> Nat]
    <3>1. \A z \in SUBSET (1 .. n + 1) : v(z) \in Nat
      BY <2>2, <2>3, <2>4, <2>5
    <3>2. QED
      BY <3>1
  <2>7. ASSUME NEW z \in SUBSET (1 .. n + 1)
        PROVE  h[z] = IF z = {} THEN 0 ELSE h[z \ {Max(z)}] + s[Max(z)]
    <3>1. CASE n + 1 \in z
      <4>1. Max(z) = n + 1
        BY <2>1, <3>1, MaxIsLast
      <4>2. h[z \ {n + 1}] = g[z \ {n + 1}]
        BY <2>4
      <4>3. QED
        BY <3>1, <4>1, <4>2
    <3>2. CASE n + 1 \notin z
      <4>1. z \in SUBSET (1 .. n) /\ z \ {Max(z)} \in SUBSET (1 .. n)
        BY <2>5, <3>2
      <4>2. h[z] = g[z] /\ h[z \ {Max(z)}] = g[z \ {Max(z)}]
        BY <2>1, <4>1, <3>2
      <4>3. g[z] = IF z = {} THEN 0 ELSE g[z \ {Max(z)}] + s[Max(z)]
        BY <2>2, <4>1 DEF SumsUpTo
      <4>4. QED
        BY <4>2, <4>3
    <3>3. QED
      BY <3>1, <3>2
  <2>8. SumsUpTo(h, n + 1, s)
    <3> DEFINE w == [z \in SUBSET (1 .. n + 1) |->
                        IF z = {} THEN 0 ELSE h[z \ {Max(z)}] + s[Max(z)]]
    <3>1. \A z \in SUBSET (1 .. n + 1) : h[z] = w[z]
      BY <2>7
    <3>2. h = w
      BY <3>1
    <3>3. QED
      BY <3>2 DEF SumsUpTo
  <2>9. QED
    BY <2>6, <2>8 DEF CanSum
<1>3. T = Nat
  BY <1>1, <1>2, Induction
<1>4. Len(s) \in T
  BY <1>3
<1>5. QED
  BY <1>4

\* f holds the sums of the first numbers of s, up to n of them.
Sums(f, n, s) ==
    /\ f \in [0 .. n -> Nat] /\ f[0] = 0
    /\ \A k \in 1 .. n : s[k] \in Nat /\ f[k] = f[k - 1] + s[k]

\* Total adds one number after the other.
LEMMA TotalIsASum ==
    ASSUME NEW s \in Seq(Nat)
    PROVE  \E f : Sums(f, Len(s), s) /\ Total(s) = f[Len(s)]
<1> DEFINE iter == CHOOSE g : g = [z \in SUBSET (DOMAIN s) |->
                                     IF z = {} THEN 0 ELSE g[z \ {Max(z)}] + s[Max(z)]]
           n == Len(s)
<1>1. DOMAIN s = 1 .. n /\ n \in Nat
  OBVIOUS
<1>2. Total(s) = iter[1 .. n]
  <2>1. Total(s) = iter[DOMAIN s]
    BY Zenon DEF Total, FoldLeft, MapThenFoldSet
  <2>2. QED
    BY <1>1, <2>1, Zenon
<1>3. \E g : g = [z \in SUBSET (DOMAIN s) |->
                    IF z = {} THEN 0 ELSE g[z \ {Max(z)}] + s[Max(z)]]
  <2>1. PICK g : SumsUpTo(g, n, s)
    BY SumExists DEF CanSum
  <2>2. QED
    BY <1>1, <2>1, Zenon DEF SumsUpTo
<1>4. SumsUpTo(iter, n, s)
  BY <1>1, <1>3, Zenon DEF SumsUpTo
<1> HIDE DEF iter, n
<1>5. iter[1 .. 0] = 0
  BY <1>1, <1>4 DEF SumsUpTo
<1>6. ASSUME NEW k \in 1 .. n PROVE iter[1 .. k] = iter[1 .. k - 1] + s[k]
  <2>1. k \in Nat /\ k \in 1 .. k
    BY <1>1
  <2>a. 1 .. k \in SUBSET (1 .. n) /\ 1 .. k # {}
    <3>1. \A j \in 1 .. k : j \in 1 .. n
      BY <1>1
    <3>2. QED
      BY <2>1, <3>1
  <2>2. Max(1 .. k) = k
    BY <2>1, MaxIsLast
  <2>3. (1 .. k) \ {k} = 1 .. k - 1
    BY <2>1
  <2>4. iter[1 .. k] = iter[(1 .. k) \ {Max(1 .. k)}] + s[Max(1 .. k)]
    BY <1>4, <2>a DEF SumsUpTo
  <2>5. QED
    BY <2>2, <2>3, <2>4
<1>7. \A k \in 1 .. n : s[k] \in Nat
  BY ElementOfSeq DEF n
<1>8. \A k \in 0 .. n : iter[1 .. k] \in Nat
  <2> DEFINE T == {k \in Nat : k <= n => iter[1 .. k] \in Nat}
  <2>1. 0 \in T
    BY <1>5
  <2>2. ASSUME NEW k \in T PROVE k + 1 \in T
    <3> SUFFICES ASSUME k + 1 <= n PROVE iter[1 .. k + 1] \in Nat
      OBVIOUS
    <3>1. k \in Nat /\ iter[1 .. k] \in Nat /\ k + 1 \in 1 .. n /\ (k + 1) - 1 = k
      BY <1>1
    <3>2. iter[1 .. k + 1] = iter[1 .. k] + s[k + 1]
      BY <1>6, <3>1
    <3>3. QED
      BY <1>7, <3>1, <3>2
  <2>3. T = Nat
    BY <2>1, <2>2, Induction
  <2>4. QED
    BY <1>1, <2>3
<1> DEFINE f == [k \in 0 .. n |-> iter[1 .. k]]
<1>9. f \in [0 .. n -> Nat] /\ f[0] = 0 /\ Total(s) = f[n]
  BY <1>1, <1>2, <1>5, <1>8
<1>10. \A k \in 1 .. n : f[k] = f[k - 1] + s[k]
  BY <1>1, <1>6
<1> HIDE DEF f
<1>11. Sums(f, n, s)
  BY <1>7, <1>9, <1>10 DEF Sums
<1>12. QED
  BY <1>9, <1>11 DEF n

\* Lists that start alike have the same sums; where they differ at one place
\* only, so do the sums, by as much.
LEMMA SumsCompare ==
    ASSUME NEW n \in Nat, NEW f, NEW h, NEW s, NEW t, Sums(f, n, s), Sums(h, n, t),
           NEW c \in Nat, \A k \in 1 .. n : k # c => s[k] = t[k]
    PROVE  IF c \in 1 .. n THEN h[n] + s[c] = f[n] + t[c] ELSE h[n] = f[n]
<1> DEFINE Same(k) == IF c \in 1 .. k THEN h[k] + s[c] = f[k] + t[c] ELSE h[k] = f[k]
           T == {k \in Nat : k <= n => Same(k)}
<1>1. Same(0)
  BY DEF Sums
<1>2. ASSUME NEW k \in Nat, k + 1 <= n, Same(k) PROVE Same(k + 1)
  <2>1. k + 1 \in 1 .. n /\ (k + 1) - 1 = k /\ k \in 0 .. n
    BY <1>2
  <2>2. f[k + 1] = f[k] + s[k + 1] /\ h[k + 1] = h[k] + t[k + 1]
    BY <2>1 DEF Sums
  <2>3. f[k] \in Nat /\ h[k] \in Nat /\ s[k + 1] \in Nat /\ t[k + 1] \in Nat
    BY <2>1 DEF Sums
  <2>4. CASE c \in 1 .. k
    <3>1. c \in 1 .. n /\ k + 1 # c
      BY <1>2, <2>4
    <3>2. s[c] \in Nat /\ t[c] \in Nat /\ s[k + 1] = t[k + 1]
      BY <2>1, <3>1 DEF Sums
    <3>3. h[k] + s[c] = f[k] + t[c] /\ c \in 1 .. k + 1
      BY <1>2, <2>4
    <3>4. h[k + 1] + s[c] = f[k + 1] + t[c]
      BY <2>2, <2>3, <3>2, <3>3
    <3>5. QED
      BY <3>3, <3>4
  <2>5. CASE c = k + 1
    <3>1. h[k] = f[k] /\ c \in 1 .. k + 1
      BY <1>2, <2>5
    <3>2. h[k + 1] + s[c] = f[k + 1] + t[c]
      BY <2>2, <2>3, <2>5, <3>1
    <3>3. QED
      BY <3>1, <3>2
  <2>6. CASE c \notin 1 .. k + 1
    <3>1. h[k] = f[k] /\ s[k + 1] = t[k + 1]
      BY <1>2, <2>1, <2>6
    <3>2. QED
      BY <2>2, <2>6, <3>1
  <2>7. QED
    BY <2>4, <2>5, <2>6
<1> HIDE DEF Same
<1>3. T = Nat
  <2>1. 0 \in T
    BY <1>1
  <2>2. ASSUME NEW k \in T PROVE k + 1 \in T
    <3>1. CASE k + 1 <= n
      <4>1. k \in Nat /\ Same(k)
        BY <3>1
      <4>2. QED
        BY <1>2, <3>1, <4>1
    <3>2. QED
      BY <3>1
  <2>3. T \subseteq Nat
    OBVIOUS
  <2> HIDE DEF T
  <2>4. QED
    BY <2>1, <2>2, <2>3, Induction
<1>4. Same(n)
  BY <1>3
<1>5. QED
  BY <1>4 DEF Same

\* One number changed changes the total by as much.
LEMMA TotalOfChange ==
    ASSUME NEW s \in Seq(Nat), NEW t \in Seq(Nat), Len(s) = Len(t), NEW c \in 1 .. Len(s),
           \A k \in 1 .. Len(s) : k # c => s[k] = t[k]
    PROVE  Total(s) \in Nat /\ Total(t) \in Nat /\ Total(t) + s[c] = Total(s) + t[c]
<1> DEFINE n == Len(s)
<1>1. PICK f : Sums(f, n, s) /\ Total(s) = f[n]
  BY TotalIsASum
<1>2. PICK h : Sums(h, n, t) /\ Total(t) = h[n]
  BY TotalIsASum
<1>3. n \in Nat /\ c \in 1 .. n /\ c \in Nat /\ \A k \in 1 .. n : k # c => s[k] = t[k]
  OBVIOUS
<1> HIDE DEF n
<1>4. IF c \in 1 .. n THEN h[n] + s[c] = f[n] + t[c] ELSE h[n] = f[n]
  BY <1>1, <1>2, <1>3, SumsCompare
<1>5. f[n] \in Nat /\ h[n] \in Nat
  BY <1>1, <1>2, <1>3 DEF Sums
<1>6. QED
  BY <1>1, <1>2, <1>3, <1>4, <1>5

\* A zero more, or none, changes nothing.
LEMMA TotalOfZero ==
    ASSUME NEW s \in Seq(Nat), NEW t \in Seq(Nat), Len(t) \in {Len(s), Len(s) + 1},
           \A k \in 1 .. Len(s) : s[k] = t[k], Len(t) = Len(s) + 1 => t[Len(t)] = 0
    PROVE  Total(t) = Total(s)
<1> DEFINE n == Len(s)
           m == Len(t)
<1>1. PICK f : Sums(f, n, s) /\ Total(s) = f[n]
  BY TotalIsASum
<1>2. PICK h : Sums(h, m, t) /\ Total(t) = h[m]
  BY TotalIsASum
<1>3. n \in Nat /\ m \in Nat /\ (m = n \/ m = n + 1) /\ (m = n + 1 => t[m] = 0)
      /\ \A k \in 1 .. n : s[k] = t[k]
  OBVIOUS
<1> HIDE DEF n, m
<1> DEFINE g == [k \in 0 .. n |-> h[k]]
<1>4. Sums(g, n, t) /\ g[n] = h[n]
  <2>1. \A k \in 0 .. n : k \in 0 .. m
    BY <1>3
  <2>2. g \in [0 .. n -> Nat] /\ g[0] = 0 /\ g[n] = h[n]
    BY <1>2, <1>3, <2>1 DEF Sums
  <2>3. ASSUME NEW k \in 1 .. n PROVE t[k] \in Nat /\ g[k] = g[k - 1] + t[k]
    <3>1. k \in 1 .. m /\ k \in 0 .. n /\ k - 1 \in 0 .. n
      BY <1>3
    <3>2. QED
      BY <1>2, <3>1 DEF Sums
  <2> HIDE DEF g
  <2>4. QED
    BY <2>2, <2>3 DEF Sums
<1> HIDE DEF g
<1>5. g[n] = f[n]
  <2>1. 0 \in Nat /\ 0 \notin 1 .. n /\ \A k \in 1 .. n : k # 0 => s[k] = t[k]
    BY <1>3
  <2>2. IF 0 \in 1 .. n THEN g[n] + s[0] = f[n] + t[0] ELSE g[n] = f[n]
    BY <1>1, <1>3, <1>4, <2>1, SumsCompare
  <2>3. QED
    BY <2>1, <2>2
<1>6. h[m] = h[n]
  <2>1. CASE m = n + 1
    <3>1. m \in 1 .. m /\ m - 1 = n /\ n \in 0 .. m
      BY <1>3, <2>1
    <3>2. h[m] = h[n] + t[m] /\ h[n] \in Nat
      BY <1>2, <3>1 DEF Sums
    <3>3. QED
      BY <1>3, <2>1, <3>2
  <2>2. QED
    BY <1>3, <2>1
<1>7. QED
  BY <1>1, <1>2, <1>4, <1>5, <1>6

-----------------------------------------------------------------------------
(* What was claimed, or sent, of a nano pay *)

\* The most among the places P of the list s, of nano pay n.
MostIn(s, P, n) == GreatestOf(s, {i \in P : s[i].id = n})

\* It is a number no less than any amount of that nano pay, and 0 without one.
LEMMA MostIsAnAmount ==
    ASSUME NEW s \in Seq(Tx), NEW P \in SUBSET (1 .. Len(s)), NEW n
    PROVE  /\ MostIn(s, P, n) \in Nat
           /\ \A i \in P : s[i].id = n => s[i].amount <= MostIn(s, P, n)
           /\ (\A i \in P : s[i].id # n) => MostIn(s, P, n) = 0
<1> DEFINE Q == {i \in P : s[i].id = n}
<1>1. Q \in SUBSET (1 .. Len(s))
  OBVIOUS
<1>2. /\ GreatestOf(s, Q) \in Nat
      /\ \A i \in Q : s[i].amount <= GreatestOf(s, Q)
      /\ GreatestOf(s, Q) = 0 \/ \E i \in Q : GreatestOf(s, Q) = s[i].amount
  BY <1>1, GreatestIsReached
<1>3. QED
  BY <1>2 DEF MostIn

\* A longer list leaves it alone.
LEMMA MostStays ==
    ASSUME NEW s \in Seq(Tx), NEW x \in Tx, NEW P \in SUBSET (1 .. Len(s)), NEW n
    PROVE  MostIn(Append(s, x), P, n) = MostIn(s, P, n)
<1>1. \A i \in P : Append(s, x)[i] = s[i]
  BY AppendProperties
<1>2. {i \in P : Append(s, x)[i].id = n} = {i \in P : s[i].id = n}
  BY <1>1
<1> DEFINE Q == {i \in P : s[i].id = n}
<1>3. \A i \in Q : Append(s, x)[i] = s[i]
  BY <1>1
<1>4. GreatestOf(Append(s, x), Q) = GreatestOf(s, Q)
  BY <1>3, GreatestStays
<1>5. QED
  BY <1>2, <1>4 DEF MostIn

\* One transaction more concerns its nano pay only.
LEMMA MostOfMore ==
    ASSUME NEW s \in Seq(Tx), NEW P \in SUBSET (1 .. Len(s)), NEW k \in 1 .. Len(s), NEW n
    PROVE  /\ MostIn(s, P, n) <= MostIn(s, P \cup {k}, n)
           /\ n # s[k].id => MostIn(s, P \cup {k}, n) = MostIn(s, P, n)
           /\ n = s[k].id /\ s[k].amount >= MostIn(s, P, n)
                => MostIn(s, P \cup {k}, n) = s[k].amount
           /\ n = s[k].id /\ s[k].amount <= MostIn(s, P, n)
                => MostIn(s, P \cup {k}, n) = MostIn(s, P, n)
<1> DEFINE Q == {i \in P : s[i].id = n}
           R == {i \in P \cup {k} : s[i].id = n}
<1>1. Q \in SUBSET (1 .. Len(s))
  OBVIOUS
<1>2. CASE n # s[k].id
  <2>1. R = Q
    BY <1>2
  <2>2. MostIn(s, P, n) \in Nat
    BY MostIsAnAmount
  <2>3. MostIn(s, P \cup {k}, n) = MostIn(s, P, n)
    BY <2>1 DEF MostIn
  <2>4. QED
    BY <1>2, <2>2, <2>3
<1>3. CASE n = s[k].id
  <2>1. R = Q \cup {k}
    BY <1>3
  <2>2. /\ GreatestOf(s, Q) <= GreatestOf(s, R)
        /\ s[k].amount >= GreatestOf(s, Q) => GreatestOf(s, R) = s[k].amount
        /\ s[k].amount <= GreatestOf(s, Q) => GreatestOf(s, R) = GreatestOf(s, Q)
    BY <1>1, <2>1, GreatestOfMore
  <2>3. QED
    BY <1>3, <2>2 DEF MostIn
<1>4. QED
  BY <1>2, <1>3

-----------------------------------------------------------------------------
(* What a payer makes, and what is claimed of it *)

\* The transactions are of growing ids, and each is worth something.
Paid ==
    /\ payer.id = 0 => payer.expiration = 0
    /\ \A i \in 1 .. Len(txs) : txs[i].id \in 1 .. payer.id /\ txs[i].amount > 0
    /\ \A i, j \in 1 .. Len(txs) : i <= j => txs[i].id <= txs[j].id

\* A payment is one transaction more, of the last id or of the next.
LEMMA Payment ==
    ASSUME Typed, Paid, NEW delta \in Deltas, IncreaseAmount(delta)
    PROVE  /\ payer' \in Tx /\ txs' = Append(txs, payer')
           /\ payer'.id \in {payer.id, payer.id + 1} /\ payer'.id > 0 /\ payer'.amount > 0
<1>1. delta \in Nat /\ delta > 0
  BY NanoPayAssumption
<1>2. payer \in Tx /\ height \in Nat
  BY DEF Typed, IInv, Types
<1>3. Renewed \in Tx /\ Renewed.id \in {payer.id, payer.id + 1} /\ Renewed.id > 0
  <2>1. CASE Renew
    BY <1>2, <2>1 DEF Renewed, Tx, SENDER_EXPIRATION_DELTA
  <2>2. CASE ~Renew
    BY <1>2, <2>2 DEF Renewed, Renew, Tx, Paid
  <2> QED
    BY <2>1, <2>2
<1>4. payer' = [Renewed EXCEPT !.amount = @ + delta] /\ txs' = Append(txs, payer')
  BY DEF IncreaseAmount
<1> QED
  BY <1>1, <1>3, <1>4 DEF Tx

\* Only a payment changes the payer and its transactions.
LEMMA OthersPayNothing ==
    ASSUME [Next]_vars, ~ \E delta \in Deltas : IncreaseAmount(delta)
    PROVE  payer' = payer /\ txs' = txs
BY DEF Next, Tick, TaskStep, TaskWake, TaskCheck, TaskHeight, TaskWaited, TaskGoes,
       FlushStep, FlushAmount, FlushNone, FlushPayload, FlushSend, FlushFails,
       FlushSent, FlushClear, FlushExpire, FlushRecord, PanicAt, UserStep, Flush,
       Close, Claim, ClaimCheck, ClaimBalance, ClaimSwitch, ClaimReset, ClaimAccept,
       ClaimExpiration, ClaimTotal, vars, payerVars

\* What the payer makes keeps its order.
LEMMA NextPaid == Typed /\ Paid /\ [Next]_vars => Paid'
<1> SUFFICES ASSUME Typed, Paid, [Next]_vars PROVE Paid'
  OBVIOUS
<1>1. ASSUME NEW delta \in Deltas, IncreaseAmount(delta) PROVE Paid'
  <2>1. /\ payer' \in Tx /\ txs' = Append(txs, payer')
        /\ payer'.id \in {payer.id, payer.id + 1} /\ payer'.id > 0 /\ payer'.amount > 0
    BY <1>1, Payment
  <2>2. payer.id \in Nat /\ payer'.id \in Nat /\ payer.id <= payer'.id
    BY <2>1 DEF Typed, IInv, Types, Tx
  <2> DEFINE n == Len(txs)
  <2>3. /\ n \in Nat /\ Len(txs') = n + 1 /\ txs'[n + 1] = payer'
        /\ \A i \in 1 .. n : txs'[i] = txs[i]
    BY <2>1, AppendProperties DEF Typed, IInv, Types
  <2> HIDE DEF n
  <2>4. \A i \in 1 .. n : txs'[i].id \in 1 .. payer'.id /\ txs'[i].amount > 0
    BY <2>2, <2>3 DEF Paid, n
  <2>5. \A i \in 1 .. n + 1 : txs'[i].id \in 1 .. payer'.id /\ txs'[i].amount > 0
    <3>1. \A i \in 1 .. n + 1 : i \in 1 .. n \/ i = n + 1
      BY <2>3
    <3> QED
      BY <2>1, <2>2, <2>3, <2>4, <3>1
  <2>6. ASSUME NEW i \in 1 .. n + 1, NEW j \in 1 .. n + 1, i <= j
        PROVE  txs'[i].id <= txs'[j].id
    <3>1. CASE j = n + 1
      BY <2>2, <2>3, <2>5, <3>1
    <3>2. CASE j # n + 1
      <4>1. i \in 1 .. n /\ j \in 1 .. n
        BY <2>3, <2>6, <3>2
      <4> QED
        BY <2>3, <2>6, <4>1 DEF Paid, n
    <3> QED
      BY <3>1, <3>2
  <2> QED
    BY <2>1, <2>3, <2>5, <2>6 DEF Paid
<1>2. CASE ~ \E delta \in Deltas : IncreaseAmount(delta)
  BY <1>2, OthersPayNothing DEF Paid
<1> QED
  BY <1>1, <1>2

\* The most that was claimed of nano pay n.
Most(n) == MostIn(txs, accepted, n)

\* What was claimed was made.
Past == accepted \subseteq 1 .. Len(txs)

\* Claim has taken up again a nano pay that it had left.
Marked == "again" \in races

\* amount is what was claimed of the present nano pay, or less if that was
\* taken up again.
Known ==
    /\ id # 0 => amount <= Most(id) /\ (Marked \/ amount = Most(id))
    /\ id = 0 /\ pc["user"] # "reset" => amount = 0

\* What claim has found out when it is at label u.
Funded == {"balance"} \cup Storing
AtLabel(u) ==
    /\ u \in Funded => amount < Claimed.amount /\ (id = 0 \/ id = Claimed.id)
    /\ u \in {"expiration", "total"} => id = Claimed.id
    /\ u = "reset" => id = 0
    /\ u = "switch" \/ (u \in FlushLabels /\ claim_height > 0) => id # 0 /\ id # Claimed.id

\* Between the switch and the reset, amount is counted already.
AllClaimed == [n \in 1 .. payer.id |-> Most(n)]
Counted == prev_claimed_amount + (IF pc["user"] = "reset" THEN 0 ELSE amount)
Summed == Counted >= Total(AllClaimed) /\ (Marked \/ Counted = Total(AllClaimed))

Claims == Past /\ Known /\ AtLabel(pc["user"]) /\ Summed

\* What the steps that claim nothing leave alone.
claimVars ==
    <<payer, txs, id, amount, prev_claimed_amount, claim_height, last, accepted>>

\* A mark stays.
LEMMA MarksStay == Overlap /\ Marked => Marked'
BY DEF Overlap, Marked

\* Such a step has to show that claim knows what it should.
LEMMA QuietStep ==
    ASSUME Claims, UNCHANGED claimVars, Marked => Marked', AtLabel(pc'["user"]),
           pc["user"] = "reset" <=> pc'["user"] = "reset"
    PROVE  Claims'
<1> USE DEF claimVars
<1>1. Past'
  BY DEF Claims, Past
<1>2. \A n : Most(n)' = Most(n)
  BY DEF Most
<1>3. Known'
  BY <1>2 DEF Claims, Known
<1>4. AtLabel(pc["user"])'
  BY DEF AtLabel, Claimed
<1>5. AllClaimed' = AllClaimed
  BY <1>2 DEF AllClaimed
<1>6. Summed'
  BY <1>5 DEF Claims, Summed, Counted
<1> QED
  BY <1>1, <1>3, <1>4, <1>6 DEF Claims

\* Labels at which claim knows nothing yet, or no more.
LEMMA NothingKnown ==
    /\ AtLabel("idle") /\ AtLabel("panicked") /\ AtLabel("height")
BY DEF AtLabel, Funded, Storing, FlushLabels

\* The transaction claim works on.
LEMMA ClaimedIsMade ==
    ASSUME Typed, Paid, pc["user"] \in Claiming \/ claim_height > 0
    PROVE  /\ last \in 1 .. Len(txs) /\ Claimed \in Tx
           /\ Claimed.id \in 1 .. payer.id /\ Claimed.amount > 0 /\ Claimed.amount \in Nat
<1>1. last # 0 /\ last \in Made /\ txs \in Seq(Tx) /\ Len(txs) \in Nat
  BY DEF Typed, IInv, Given, Types, References
<1>2. last \in 1 .. Len(txs)
  BY <1>1 DEF Made
<1>3. Claimed \in Tx
  BY <1>1, <1>2, ElementOfSeq DEF Claimed
<1> QED
  BY <1>2, <1>3 DEF Paid, Claimed, Tx

\* A step of flush_fn claims nothing.
LEMMA FlushIsQuiet ==
    ASSUME NEW t \in Threads, FlushStep(t)
    PROVE  UNCHANGED claimVars /\ Overlap
BY DEF FlushStep, FlushAmount, FlushNone, FlushPayload, FlushSend, FlushFails,
       FlushSent, FlushClear, FlushExpire, FlushRecord, claimVars, payerVars, moneyVars,
       callVars

\* Nor do a block, the task and close.
LEMMA OthersAreQuiet ==
    ASSUME Typed, Claims, Tick \/ Close \/ TaskStep \/ UNCHANGED vars
    PROVE  Claims'
<1>0. "user" \in Threads /\ "task" \in Threads /\ "user" # "task" /\ pc \in [Threads -> Labels]
  BY DEF Threads, Typed, IInv, Types
<1>1. UNCHANGED claimVars /\ pc'["user"] = pc["user"] /\ (Marked => Marked')
  <2>1. CASE Tick \/ Close \/ UNCHANGED vars
    BY <2>1 DEF Tick, Close, vars, claimVars, payerVars, moneyVars, callVars, ghostVars, Marked
  <2>2. CASE TaskWake \/ TaskCheck \/ TaskHeight \/ TaskWaited
    <3>1. PICK l : TaskGoes(l)
      BY <2>2 DEF TaskWake, TaskCheck, TaskHeight, TaskWaited
    <3> QED
      BY <1>0, <3>1, MarksStay DEF TaskGoes, Goto, claimVars, payerVars, moneyVars, callVars
  <2>3. ASSUME NEW labels, PanicAt("task", labels)
        PROVE  UNCHANGED claimVars /\ pc'["user"] = pc["user"] /\ (Marked => Marked')
    BY <1>0, <2>3, MarksStay DEF PanicAt, Goto, claimVars, payerVars, moneyVars, callVars
  <2>4. CASE FlushStep("task")
    <3>1. PICK l : Goto("task", l)
      BY <1>0, <2>4, FlushIsAMove DEF FlushMoves, Typed, IInv
    <3> QED
      BY <1>0, <2>4, <3>1, FlushIsQuiet, MarksStay DEF Goto
  <2> QED
    BY <2>1, <2>2, <2>3, <2>4 DEF TaskStep
<1>2. AtLabel(pc'["user"])
  BY <1>1 DEF Claims
<1> QED
  BY <1>1, <1>2, QuietStep

\* A flush that claim calls keeps what claim knows, up to the switch.
LEMMA UserFlushIsQuiet ==
    ASSUME Typed, Claims, FlushStep("user")
    PROVE  Claims'
<1>0. "user" \in Threads /\ pc \in [Threads -> Labels]
  BY DEF Threads, Typed, IInv, Types
<1>1. PICK l \in FlushLabels \cup {AfterFlush("user"), AfterError("user")} : Goto("user", l)
  BY <1>0, FlushIsAMove DEF FlushMoves, Typed, IInv
<1>2. pc'["user"] = l /\ UNCHANGED claimVars /\ (Marked => Marked')
  BY <1>0, <1>1, FlushIsQuiet, MarksStay DEF Goto
<1>3. pc["user"] \in FlushLabels
  BY DEF FlushStep, FlushAmount, FlushNone, FlushPayload, FlushSend, FlushFails,
         FlushSent, FlushClear, FlushExpire, FlushRecord, FlushLabels
<1>4. pc["user"] # "reset" /\ l # "reset"
  BY <1>3 DEF FlushLabels, AfterFlush, AfterError
<1>5. claim_height > 0 => id # 0 /\ id # Claimed.id
  BY <1>3 DEF Claims, AtLabel
<1>6. AtLabel(l)
  <2>1. CASE l \in FlushLabels
    BY <1>5, <2>1 DEF AtLabel, FlushLabels, Funded, Storing
  <2>2. CASE l = "switch" /\ claim_height > 0
    BY <1>5, <2>2 DEF AtLabel, Funded, Storing
  <2>3. CASE l = "idle"
    BY <2>3, NothingKnown
  <2>4. l \in FlushLabels \/ l = "idle" \/ (l = "switch" /\ claim_height > 0)
    BY DEF AfterFlush, AfterError
  <2> QED
    BY <2>1, <2>2, <2>3, <2>4
<1> QED
  BY <1>2, <1>4, <1>6, QuietStep

\* The checks of claim: a transaction that goes on is worth more than amount
\* and is of the present nano pay, or there is none.
LEMMA ChecksAreQuiet ==
    ASSUME Typed, Paid, Claims,
           \/ \E result \in VerifyResults : ClaimCheck(result)
           \/ \E balance \in Balances : ClaimBalance(balance)
           \/ ClaimExpiration
           \/ \E labels : PanicAt("user", labels) /\ "reset" \notin labels
    PROVE  Claims'
<1>0. "user" \in Threads /\ pc \in [Threads -> Labels] /\ amount \in Nat
  BY DEF Threads, Typed, IInv, Types, Amounts
<1>1. ASSUME NEW result \in VerifyResults, ClaimCheck(result) PROVE Claims'
  <2> DEFINE l == CASE result = "todo" -> "panicked"
                    [] result = "no" \/ closed \/ (id # 0 /\ StaleClaim) -> "idle"
                    [] result = "yes" /\ ~closed /\ id # 0 /\ id # Claimed.id -> "amount"
                    [] OTHER -> "balance"
  <2>1. /\ pc["user"] = "height" /\ Goto("user", l) /\ UNCHANGED claimVars
        /\ Marked => Marked'
    BY <1>1, MarksStay DEF ClaimCheck, claimVars, payerVars, moneyVars, callVars
  <2>2. result \in {"yes", "no", "todo"}
    BY NanoPayAssumption
  <2>3. \/ l \in {"panicked", "idle"}
        \/ l = "amount" /\ id # 0 /\ id # Claimed.id
        \/ l = "balance" /\ ~(id # 0 /\ StaleClaim) /\ ~(id # 0 /\ id # Claimed.id)
    BY <2>2
  <2> HIDE DEF l
  <2>4. Claimed.amount > 0 /\ Claimed.amount \in Nat
    BY <2>1, ClaimedIsMade DEF Claiming
  <2>5. id = 0 => amount = 0
    BY <2>1 DEF Claims, Known
  <2>6. AtLabel(l) /\ l # "reset"
    <3>1. CASE l \in {"panicked", "idle"}
      BY <3>1, NothingKnown
    <3>2. CASE l = "amount" /\ id # 0 /\ id # Claimed.id
      BY <3>2 DEF AtLabel, Funded, Storing
    <3>3. CASE l = "balance" /\ ~(id # 0 /\ StaleClaim) /\ ~(id # 0 /\ id # Claimed.id)
      BY <1>0, <2>4, <2>5, <3>3 DEF AtLabel, StaleClaim, FlushLabels
    <3> QED
      BY <2>3, <3>1, <3>2, <3>3
  <2>7. pc'["user"] = l
    BY <1>0, <2>1 DEF Goto
  <2> QED
    BY <2>1, <2>6, <2>7, QuietStep
<1>2. ASSUME NEW balance \in Balances, ClaimBalance(balance) PROVE Claims'
  <2>1. /\ pc["user"] = "balance" /\ UNCHANGED claimVars /\ (Marked => Marked')
        /\ Goto("user", "idle") \/ Goto("user", "accept")
    BY <1>2, MarksStay DEF ClaimBalance, claimVars, payerVars, moneyVars, callVars
  <2>2. pc'["user"] \in {"idle", "accept"}
    BY <1>0, <2>1 DEF Goto
  <2>3. AtLabel("accept")
    BY <2>1 DEF Claims, AtLabel, Funded, Storing, FlushLabels
  <2> QED
    BY <2>1, <2>2, <2>3, NothingKnown, QuietStep
<1>3. CASE ClaimExpiration
  <2>1. /\ pc["user"] = "expiration" /\ UNCHANGED claimVars /\ Goto("user", "total")
        /\ Marked => Marked'
    BY <1>3, MarksStay DEF ClaimExpiration, claimVars, payerVars, moneyVars, callVars
  <2>2. pc'["user"] = "total"
    BY <1>0, <2>1 DEF Goto
  <2>3. AtLabel("total")
    BY <2>1 DEF Claims, AtLabel, Funded, Storing, FlushLabels
  <2> QED
    BY <2>1, <2>2, <2>3, QuietStep
<1>4. ASSUME NEW labels, PanicAt("user", labels), "reset" \notin labels PROVE Claims'
  <2>1. UNCHANGED claimVars /\ Goto("user", "panicked") /\ (Marked => Marked')
    BY <1>4, MarksStay DEF PanicAt, claimVars, payerVars, moneyVars, callVars
  <2>2. pc'["user"] = "panicked" /\ pc["user"] # "reset"
    BY <1>0, <1>4, <2>1 DEF Goto, PanicAt
  <2> QED
    BY <2>1, <2>2, NothingKnown, QuietStep
<1> QED
  BY <1>1, <1>2, <1>3, <1>4

\* A payment concerns nothing that was claimed.
LEMMA PaymentKeepsClaims ==
    ASSUME Typed, Paid, Claims, NEW delta \in Deltas, IncreaseAmount(delta)
    PROVE  Claims'
<1>0. /\ txs \in Seq(Tx) /\ Len(txs) \in Nat /\ last \in Made /\ payer.id \in Nat
      /\ amount \in Nat /\ prev_claimed_amount \in Nat /\ id \in Nat
  BY DEF Typed, IInv, Types, Tx, References, Amounts
<1>1. /\ payer' \in Tx /\ txs' = Append(txs, payer')
      /\ payer'.id \in {payer.id, payer.id + 1}
      /\ UNCHANGED <<id, amount, prev_claimed_amount, claim_height, last, accepted, pc, races>>
  BY Payment DEF IncreaseAmount, moneyVars, callVars, ghostVars
<1>2. \A i \in 1 .. Len(txs) : txs'[i] = txs[i]
  BY <1>0, <1>1, AppendProperties
<1>3. accepted \in SUBSET (1 .. Len(txs))
  BY DEF Claims, Past
<1>4. \A n : Most(n)' = Most(n)
  BY <1>0, <1>1, <1>3, MostStays DEF Most
<1>5. last # 0 => Claimed' = Claimed
  BY <1>0, <1>1, <1>2 DEF Claimed, Made
<1>6. Past'
  BY <1>0, <1>1, <1>3, AppendProperties DEF Past
<1>7. Known'
  BY <1>1, <1>4 DEF Claims, Known, Marked
<1>8. AtLabel(pc["user"])'
  <2>1. pc["user"] \in Claiming \/ claim_height > 0 => Claimed' = Claimed
    BY <1>5 DEF Typed, IInv, Given
  <2> QED
    BY <1>1, <2>1 DEF Claims, AtLabel, Funded, Storing, Claiming
<1>9. Summed'
  <2> DEFINE s == AllClaimed
             t == AllClaimed'
  <2>1. \A n : Most(n) \in Nat
    BY <1>0, <1>3, MostIsAnAmount DEF Most
  <2>2. s \in Seq(Nat) /\ Len(s) = payer.id /\ \A n \in 1 .. payer.id : s[n] = Most(n)
    BY <1>0, <2>1 DEF AllClaimed
  <2>3. t \in Seq(Nat) /\ Len(t) = payer'.id /\ \A n \in 1 .. payer'.id : t[n] = Most(n)
    <3>1. payer'.id \in Nat
      BY <1>1 DEF Tx
    <3>2. t = [n \in 1 .. payer'.id |-> Most(n)]
      BY <1>4 DEF AllClaimed
    <3> HIDE DEF t
    <3> QED
      BY <2>1, <3>1, <3>2
  <2>4. Most(payer.id + 1) = 0
    <3>1. \A i \in accepted : txs[i].id # payer.id + 1
      BY <1>0, <1>3 DEF Paid
    <3> QED
      BY <1>0, <1>3, <3>1, MostIsAnAmount DEF Most
  <2> HIDE DEF s, t
  <2>5. Len(t) \in {Len(s), Len(s) + 1} /\ \A k \in 1 .. Len(s) : s[k] = t[k]
    BY <1>0, <1>1, <2>2, <2>3
  <2>6. Len(t) = Len(s) + 1 => t[Len(t)] = 0
    BY <1>0, <2>2, <2>3, <2>4
  <2>7. Total(t) = Total(s)
    BY <2>2, <2>3, <2>5, <2>6, TotalOfZero
  <2>8. Total(AllClaimed)' = Total(AllClaimed)
    BY <2>7, Zenon DEF s, t
  <2> QED
    BY <1>1, <2>8 DEF Claims, Summed, Counted, Marked
<1> QED
  BY <1>6, <1>7, <1>8, <1>9 DEF Claims

\* A call of flush, and of claim with any transaction.
LEMMA CallsKeepClaims ==
    ASSUME Typed, Paid, Claims,
           \/ \E f \in BOOLEAN : Flush(f)
           \/ \E i \in DOMAIN txs : Claim(i)
    PROVE  Claims'
<1>0. "user" \in Threads /\ pc \in [Threads -> Labels]
  BY DEF Threads, Typed, IInv, Types
<1>1. /\ UNCHANGED <<payer, txs, id, amount, prev_claimed_amount, accepted>>
      /\ pc["user"] = "idle" /\ (Marked => Marked')
      /\ \/ pc'["user"] = "amount" /\ claim_height' = 0
         \/ pc'["user"] = "height"
  BY <1>0, MarksStay DEF Flush, Claim, Call, Goto, payerVars, moneyVars
<1>2. (\A n : Most(n)' = Most(n)) /\ AllClaimed' = AllClaimed
  BY <1>1 DEF Most, AllClaimed
<1>3. Known' /\ Summed'
  BY <1>1, <1>2 DEF Claims, Known, Summed, Counted
<1>4. AtLabel(pc["user"])'
  BY <1>1 DEF AtLabel, Funded, Storing, FlushLabels
<1>5. Past'
  BY <1>1 DEF Claims, Past
<1> QED
  BY <1>3, <1>4, <1>5 DEF Claims

\* The switch to a new nano pay counts what was claimed of the old one, and
\* the reset stops counting it as the present one's.
LEMMA SwitchKeepsClaims ==
    ASSUME Typed, Paid, Claims, ClaimSwitch \/ ClaimReset
    PROVE  Claims'
<1>0. /\ "user" \in Threads /\ pc \in [Threads -> Labels] /\ id \in Nat
      /\ amount \in Nat /\ prev_claimed_amount \in Nat
  BY DEF Threads, Typed, IInv, Types, Amounts
<1>1. UNCHANGED <<payer, txs, accepted, last, claim_height>> /\ (Marked => Marked')
  BY MarksStay DEF ClaimSwitch, ClaimReset, payerVars, callVars
<1>2. (\A n : Most(n)' = Most(n)) /\ AllClaimed' = AllClaimed /\ Claimed' = Claimed
  BY <1>1 DEF Most, AllClaimed, Claimed
<1>3. /\ last \in 1 .. Len(txs) /\ Claimed.id \in Nat
      /\ Claimed.amount > 0 /\ Claimed.amount \in Nat
  BY ClaimedIsMade DEF ClaimSwitch, ClaimReset, Claiming, Tx
<1>4. CASE ClaimSwitch
  <2>1. /\ pc["user"] = "switch" /\ pc'["user"] = "reset" /\ id' = 0 /\ amount' = amount
        /\ prev_claimed_amount' = prev_claimed_amount + amount
    BY <1>0, <1>4 DEF ClaimSwitch, Goto
  <2>2. Past'
    BY <1>1 DEF Claims, Past
  <2>3. Known'
    BY <2>1 DEF Known
  <2>4. AtLabel(pc["user"])'
    BY <2>1 DEF AtLabel, Funded, Storing, FlushLabels
  <2>5. Counted = prev_claimed_amount + amount /\ Counted' = prev_claimed_amount + amount
    BY <1>0, <2>1 DEF Counted
  <2>6. Summed'
    BY <1>1, <1>2, <2>5 DEF Claims, Summed
  <2> QED
    BY <2>2, <2>3, <2>4, <2>6 DEF Claims
<1>5. CASE ClaimReset
  <2>1. /\ pc["user"] = "reset" /\ pc'["user"] = "balance" /\ id' = id /\ amount' = 0
        /\ prev_claimed_amount' = prev_claimed_amount
    BY <1>0, <1>5 DEF ClaimReset, Goto
  <2>2. id = 0
    BY <2>1 DEF Claims, AtLabel
  <2>3. Past'
    BY <1>1, <1>2, <2>1 DEF Claims, Past
  <2>4. Known' /\ Summed'
    BY <1>1, <1>2, <2>1, <2>2 DEF Claims, Known, Summed, Counted
  <2>5. AtLabel(pc["user"])'
    BY <1>2, <1>3, <2>1, <2>2 DEF AtLabel, FlushLabels
  <2> QED
    BY <2>3, <2>4, <2>5 DEF Claims
<1> QED
  BY <1>4, <1>5

\* The transaction is stored: of the nano pay it opens nothing was claimed, or
\* a mark is left.
LEMMA AcceptKeepsClaims ==
    ASSUME Typed, Paid, Claims, ClaimAccept
    PROVE  Claims'
<1>0. /\ "user" \in Threads /\ pc \in [Threads -> Labels] /\ txs \in Seq(Tx)
  BY DEF Threads, Typed, IInv, Types
<1>1. /\ UNCHANGED <<payer, txs, accepted, last, claim_height, amount, prev_claimed_amount>>
      /\ pc["user"] = "accept" /\ pc'["user"] = "expiration" /\ id' = Claimed.id
  BY <1>0 DEF ClaimAccept, payerVars, callVars, Goto
<1>2. (\A n : Most(n)' = Most(n)) /\ AllClaimed' = AllClaimed /\ Claimed' = Claimed
  BY <1>1 DEF Most, AllClaimed, Claimed
<1>3. last \in 1 .. Len(txs) /\ Claimed.id \in Nat /\ Claimed.id > 0
  BY <1>1, ClaimedIsMade DEF Claiming, Tx
<1>4. amount < Claimed.amount /\ (id = 0 \/ id = Claimed.id)
  BY <1>1 DEF Claims, AtLabel, Funded, Storing
<1>5. accepted \in SUBSET (1 .. Len(txs)) /\ amount \in Nat /\ Most(Claimed.id) \in Nat
  <2>1. accepted \in SUBSET (1 .. Len(txs)) /\ amount \in Nat
    BY DEF Claims, Past, Typed, Amounts
  <2> QED
    BY <1>0, <2>1, MostIsAnAmount DEF Most
<1>6. Past' /\ (Marked => Marked')
  BY <1>1, MarksStay DEF Claims, Past, ClaimAccept
<1>7. amount <= Most(Claimed.id) /\ (Marked' \/ amount = Most(Claimed.id))
  <2>1. CASE id = Claimed.id
    BY <1>3, <1>6, <2>1 DEF Claims, Known
  <2>2. CASE id # Claimed.id
    <3>1. amount = 0
      BY <1>1, <1>4, <2>2 DEF Claims, Known
    <3>2. CASE \A a \in accepted : txs[a].id # Claimed.id
      <4>1. Most(Claimed.id) = 0
        BY <1>0, <1>5, <3>2, MostIsAnAmount DEF Most
      <4> QED
        BY <3>1, <4>1
    <3>3. CASE \E a \in accepted : txs[a].id = Claimed.id
      <4>1. Of(accepted, Claimed.id) # {}
        BY <3>3 DEF Of
      <4>2. Returns
        BY <1>1, <2>2, <4>1 DEF Returns
      <4>3. Marked'
        BY <4>2 DEF ClaimAccept, Overlap, Marked
      <4> QED
        BY <1>5, <3>1, <4>3
    <3> QED
      BY <3>2, <3>3
  <2> QED
    BY <2>1, <2>2
<1>8. Known'
  BY <1>1, <1>2, <1>3, <1>7 DEF Known
<1>9. AtLabel(pc["user"])'
  BY <1>1, <1>2, <1>3, <1>4 DEF AtLabel, FlushLabels
<1>10. Summed'
  BY <1>1, <1>2, <1>6 DEF Claims, Summed, Counted
<1> QED
  BY <1>6, <1>8, <1>9, <1>10 DEF Claims

\* A part of the total that is raised raises it by as much.
LEMMA RaisedTotal ==
    ASSUME NEW before \in Nat, NEW held \in Nat, NEW most \in Nat, NEW given \in Nat,
           NEW old \in Nat, NEW new \in Nat, new + most = old + given,
           before + held >= old, held <= most
    PROVE  /\ before + given >= new
           /\ before + held = old /\ held = most => before + given = new
OBVIOUS

\* The amount is raised to what the transaction is worth.
LEMMA TotalKeepsClaims ==
    ASSUME Typed, Paid, Claims, ClaimTotal
    PROVE  Claims'
<1>0. /\ "user" \in Threads /\ pc \in [Threads -> Labels] /\ txs \in Seq(Tx)
      /\ amount \in Nat /\ prev_claimed_amount \in Nat /\ payer.id \in Nat
  BY DEF Threads, Typed, IInv, Types, Amounts, Tx
<1>1. /\ UNCHANGED <<payer, txs, last, claim_height, id, prev_claimed_amount>>
      /\ pc["user"] = "total" /\ pc'["user"] = "idle"
      /\ amount' = Claimed.amount /\ accepted' = accepted \cup {last} /\ (Marked => Marked')
  BY <1>0, MarksStay DEF ClaimTotal, payerVars, callVars, Goto
<1>2. /\ last \in 1 .. Len(txs) /\ Claimed.id \in 1 .. payer.id /\ Claimed.amount \in Nat
      /\ Claimed' = Claimed
  BY <1>1, ClaimedIsMade DEF Claiming, Claimed
<1>3. amount < Claimed.amount /\ id = Claimed.id /\ id # 0
  BY <1>0, <1>1, <1>2 DEF Claims, AtLabel, Funded, Storing
<1>4. /\ accepted \in SUBSET (1 .. Len(txs)) /\ Most(id) \in Nat
      /\ amount <= Most(id) /\ (Marked \/ amount = Most(id))
  <2>1. accepted \in SUBSET (1 .. Len(txs)) /\ amount <= Most(id) /\ (Marked \/ amount = Most(id))
    BY <1>3 DEF Claims, Known, Past
  <2> QED
    BY <1>0, <2>1, MostIsAnAmount DEF Most
<1> DEFINE more(n) == MostIn(txs, accepted \cup {last}, n)
<1>5. \A n : n # id => more(n) = Most(n)
  BY <1>0, <1>1, <1>2, <1>3, <1>4, MostOfMore DEF Most, Claimed
<1>6. /\ Claimed.amount >= Most(id) => more(id) = Claimed.amount
      /\ Claimed.amount <= Most(id) => more(id) = Most(id)
  BY <1>0, <1>2, <1>3, <1>4, MostOfMore DEF Most, Claimed
<1>7. Past'
  BY <1>1, <1>2, <1>4 DEF Past
<1>8. Known'
  <2>1. Most(id)' = more(id)
    BY <1>1 DEF Most
  <2>2. Claimed.amount <= more(id) /\ (Marked \/ Claimed.amount = more(id))
    BY <1>0, <1>2, <1>3, <1>4, <1>6
  <2> HIDE DEF more
  <2> QED
    BY <1>1, <1>3, <2>1, <2>2 DEF Known
<1>9. AtLabel(pc["user"])'
  BY <1>1 DEF AtLabel, Funded, Storing, FlushLabels
<1>10. Summed'
  <2> DEFINE s == AllClaimed
             t == AllClaimed'
  <2>1. (\A n : Most(n) \in Nat) /\ (\A n : more(n) \in Nat)
    <3>1. accepted \cup {last} \in SUBSET (1 .. Len(txs))
      BY <1>2, <1>4
    <3> QED
      BY <1>0, <1>4, <3>1, MostIsAnAmount DEF Most
  <2>2. s \in Seq(Nat) /\ Len(s) = payer.id /\ \A n \in 1 .. payer.id : s[n] = Most(n)
    BY <1>0, <2>1 DEF AllClaimed
  <2>3. t \in Seq(Nat) /\ Len(t) = payer.id /\ \A n \in 1 .. payer.id : t[n] = more(n)
    <3>1. t = [n \in 1 .. payer.id |-> more(n)]
      BY <1>1 DEF AllClaimed, Most
    <3> HIDE DEF t, more
    <3> QED
      BY <1>0, <2>1, <3>1
  <2> HIDE DEF s, t, more
  <2>4. id \in 1 .. Len(s) /\ s[id] = Most(id) /\ t[id] = more(id)
    BY <1>2, <1>3, <2>2, <2>3
  <2>5. Len(s) = Len(t) /\ \A k \in 1 .. Len(s) : k # id => s[k] = t[k]
    BY <1>5, <2>2, <2>3
  <2>6. Total(s) \in Nat /\ Total(t) \in Nat /\ Total(t) + s[id] = Total(s) + t[id]
    BY <2>2, <2>3, <2>4, <2>5, TotalOfChange
  <2>7. /\ prev_claimed_amount + amount >= Total(s)
        /\ Marked \/ prev_claimed_amount + amount = Total(s)
    BY <1>1 DEF Claims, Summed, Counted, s
  <2>8. /\ prev_claimed_amount + Claimed.amount >= Total(t)
        /\ Marked \/ prev_claimed_amount + Claimed.amount = Total(t)
    <3>1. Total(t) + Most(id) = Total(s) + more(id)
      BY <2>4, <2>6
    <3>2. CASE Claimed.amount >= Most(id)
      <4>1. Total(t) + Most(id) = Total(s) + Claimed.amount
        BY <1>6, <3>1, <3>2
      <4>2. Most(id) \in Nat /\ Claimed.amount \in Nat
        BY <1>2, <1>4
      <4>3. /\ prev_claimed_amount + Claimed.amount >= Total(t)
            /\ prev_claimed_amount + amount = Total(s) /\ amount = Most(id)
                 => prev_claimed_amount + Claimed.amount = Total(t)
        <5>1. /\ prev_claimed_amount + amount >= Total(s) /\ amount <= Most(id)
              /\ Total(s) \in Nat /\ Total(t) \in Nat
          BY <1>4, <2>6, <2>7
        <5> HIDE DEF Claimed, Most, Total
        <5> QED
          BY <1>0, <4>1, <4>2, <5>1, RaisedTotal
      <4> QED
        BY <1>4, <2>7, <4>3
    <3>3. CASE ~(Claimed.amount >= Most(id))
      <4>1. more(id) = Most(id) /\ Marked
        BY <1>0, <1>2, <1>3, <1>4, <1>6, <3>3
      <4>2. Total(t) = Total(s)
        BY <1>4, <2>6, <3>1, <4>1
      <4> QED
        BY <1>0, <1>2, <1>3, <2>6, <2>7, <4>1, <4>2
    <3> QED
      BY <3>2, <3>3
  <2>9. Total(AllClaimed)' = Total(t)
    BY Zenon DEF t
  <2> QED
    BY <1>1, <2>8, <2>9 DEF Summed, Counted
<1> QED
  BY <1>7, <1>8, <1>9, <1>10 DEF Claims

\* Every step keeps the claims.
LEMMA NextClaims == Typed /\ Paid /\ Claims /\ [Next]_vars => Claims'
<1> SUFFICES ASSUME Typed, Paid, Claims, [Next]_vars PROVE Claims'
  OBVIOUS
<1>1. ASSUME NEW delta \in Deltas, IncreaseAmount(delta) PROVE Claims'
  BY <1>1, PaymentKeepsClaims
<1>2. CASE PanicAt("user", {"none", "payload", "clone", "clear", "accept"})
  BY <1>2, ChecksAreQuiet
<1>3. CASE \/ \E f \in BOOLEAN : Flush(f)
           \/ \E i \in DOMAIN txs : Claim(i)
  BY <1>3, CallsKeepClaims
<1>4. CASE \/ \E result \in VerifyResults : ClaimCheck(result)
           \/ \E balance \in Balances : ClaimBalance(balance)
           \/ ClaimExpiration
  BY <1>4, ChecksAreQuiet
<1>5. CASE Tick \/ Close \/ TaskStep \/ UNCHANGED vars
  BY <1>5, OthersAreQuiet
<1> QED
  BY <1>1, <1>2, <1>3, <1>4, <1>5, UserFlushIsQuiet, SwitchKeepsClaims, AcceptKeepsClaims,
     TotalKeepsClaims DEF Next, UserStep

\* What was claimed is known throughout.
LEMMA AlwaysClaims == Spec => [](Paid /\ Claims)
<1>1. Init => Paid /\ Claims
  <2> SUFFICES ASSUME Init PROVE Paid /\ Claims
    OBVIOUS
  <2>1. pc["user"] = "idle"
    BY DEF Init, Threads
  <2>2. Paid /\ Past /\ Known
    BY DEF Init, Paid, Past, Known
  <2>3. AtLabel(pc["user"])
    BY <2>1, NothingKnown
  <2>4. Summed
    <3>1. AllClaimed = <<>>
      BY DEF Init, AllClaimed
    <3>2. <<>> \in Seq(Nat) /\ Len(<<>>) = 0
      BY EmptySeq
    <3> DEFINE none == <<>>
    <3>3. none \in Seq(Nat) /\ Len(none) = 0
      BY <3>2
    <3> HIDE DEF none
    <3>4. PICK f : Sums(f, Len(none), none) /\ Total(none) = f[Len(none)]
      BY <3>3, TotalIsASum
    <3>5. Total(none) = 0
      BY <3>3, <3>4 DEF Sums
    <3>6. Total(AllClaimed) = 0
      BY <3>1, <3>5 DEF none
    <3> QED
      BY <2>1, <3>6 DEF Init, Summed, Counted
  <2> QED
    BY <2>2, <2>3, <2>4 DEF Claims
<1>2. Typed /\ Paid /\ Claims /\ [Next]_vars => (Paid /\ Claims)'
  BY NextPaid, NextClaims
<1> QED
  BY <1>1, <1>2, AlwaysTyped, PTL DEF Spec

\* For every number of payments, calls and blocks, whatever the interleaving,
\* amount() is between calls no less than the sum over the nano pays of the most
\* that was claimed of each, and exactly that until claim takes up again a nano
\* pay that it had left.
THEOREM AmountsAddUp == Spec => []AmountIsWhatWasClaimed
<1>1. Claims => AmountIsWhatWasClaimed
  <2> SUFFICES ASSUME Claims, pc["user"] = "idle" PROVE AmountIsWhatWasClaimed
    BY DEF AmountIsWhatWasClaimed
  <2> DEFINE all == [n \in 1 .. payer.id |-> Greatest(Of(accepted, n))]
  <2>1. /\ prev_claimed_amount + amount >= Total(AllClaimed)
        /\ Marked \/ prev_claimed_amount + amount = Total(AllClaimed)
    BY DEF Claims, Summed, Counted
  <2>2. AllClaimed = all
    BY DEF AllClaimed, Most, MostIn, GreatestOf, Greatest, Of
  <2> HIDE DEF all
  <2>3. /\ prev_claimed_amount + amount >= Total(all)
        /\ "again" \in races \/ prev_claimed_amount + amount = Total(all)
    BY <2>1, <2>2 DEF Marked
  <2> QED
    BY <2>3, Zenon DEF AmountIsWhatWasClaimed, all
<1> QED
  BY <1>1, AlwaysClaims, PTL

-----------------------------------------------------------------------------
(* What is lost when a claim moves on *)

Clean == races \cap {"claim", "record"} = {}

\* The most that the node has taken of nano pay n.
SentOf(n) == MostIn(txs, sent, n)
Shipped == sent \subseteq 1 .. Len(txs)

\* What was flushed of the present nano pay was sent.
Covered ==
    /\ id = 0 => prev_flush_amount = 0
    /\ id # 0 => prev_flush_amount <= SentOf(id)

\* The transaction held is the one that was claimed; without one, all that
\* was claimed of the present nano pay was sent.
Halfway == {"expiration", "total"}
Held ==
    /\ tx # 0 /\ id # 0 /\ pc["user"] \notin Halfway =>
           txs[tx].id = id /\ txs[tx].amount = amount
    /\ tx = 0 /\ id # 0 => SentOf(id) >= amount

\* What holds when the user is at label u.
AtUser(u) ==
    /\ u \in Halfway => tx = last
    /\ u \in {"expire", "record"} => tx = 0
    /\ u = "switch" => amount - SentOf(id) < MinFlush

\* A flush at label l that has read transaction n: nobody has put another one
\* in its place, and once the node has answered it has been sent.
AtFlush(l, n) ==
    /\ l \in {"clone", "sending", "clear"} => tx \in {0, n}
    /\ l \in {"sending", "clear", "expire", "record"} => n \in sent

\* Of a nano pay that is not the present one enough was sent, and of the present
\* one, too, if the most that was claimed of it is from before it was left.
Settled ==
    \A n \in 1 .. payer.id : n # id \/ amount # Most(n) => Most(n) - SentOf(n) < MinFlush

\* The task does not flush while claim switches or stores.
Apart == pc["task"] \in Touching => pc["user"] \notin Storing \cup {"switch", "reset"}

Safe ==
    /\ Covered /\ Held /\ AtUser(pc["user"]) /\ Settled /\ Apart
    /\ \A t \in Threads : AtFlush(pc[t], np[t])

Loss == Shipped /\ (Clean => Safe)

\* What a step leaves on record.
LEMMA CleanSteps ==
    ASSUME Overlap, Clean'
    PROVE  /\ Clean /\ Apart'
           /\ \A t \in Threads : Records(t) => txs[np[t]].id = id
<1>1. Clean
  BY DEF Overlap, Clean
<1>2. Apart'
  BY DEF Overlap, Clean, Apart, Touches, Touching
<1>3. \A t \in Threads : Records(t) => txs[np[t]].id = id
  BY DEF Overlap, Clean
<1> QED
  BY <1>1, <1>2, <1>3

\* What was sent of a nano pay.
LEMMA SentIsAnAmount ==
    ASSUME Typed, Shipped
    PROVE  /\ txs \in Seq(Tx) /\ Len(txs) \in Nat /\ sent \in SUBSET (1 .. Len(txs))
           /\ \A n : SentOf(n) \in Nat
           /\ \A i \in sent : txs[i].amount <= SentOf(txs[i].id)
<1>1. txs \in Seq(Tx) /\ Len(txs) \in Nat /\ sent \in SUBSET (1 .. Len(txs))
  BY DEF Typed, IInv, Types, Shipped
<1> QED
  BY <1>1, MostIsAnAmount DEF SentOf

lossVars == <<payer, txs, id, amount, prev_flush_amount, accepted, tx, sent>>

\* A step that leaves all that alone and moves one thread.
LEMMA StillStep ==
    ASSUME Typed, Loss, UNCHANGED lossVars, Overlap, NEW t \in Threads, NEW l, Goto(t, l),
           \A u \in Threads : u # t => np'[u] = np[u],
           Clean => AtFlush(l, np'[t]),
           t = "user" => (Clean => AtUser(l)') /\ (pc["user"] \in Halfway => l \in Halfway),
           t = "task" => last' = last
    PROVE  Loss'
<1> USE DEF lossVars
<1>0. "user" \in Threads /\ "task" \in Threads /\ t \in {"user", "task"}
      /\ pc \in [Threads -> Labels]
  BY DEF Threads, Typed, IInv, Types
<1>1. \A u \in Threads : pc'[u] = IF u = t THEN l ELSE pc[u]
  BY <1>0 DEF Goto
<1>2. Shipped'
  BY DEF Loss, Shipped
<1> SUFFICES ASSUME Clean' PROVE Safe'
  BY <1>2 DEF Loss
<1>3. Clean /\ Apart' /\ Safe
  BY CleanSteps DEF Loss
<1>4. \A n : SentOf(n)' = SentOf(n) /\ Most(n)' = Most(n)
  BY DEF SentOf, Most
<1>5. Covered' /\ Settled'
  BY <1>3, <1>4 DEF Safe, Covered, Settled
<1>6. Held'
  BY <1>0, <1>1, <1>3, <1>4 DEF Safe, Held
<1>7. AtUser(pc["user"])'
  <2>1. CASE t = "user"
    BY <1>0, <1>1, <1>3, <2>1 DEF AtUser
  <2>2. CASE t = "task"
    BY <1>0, <1>1, <1>3, <1>4, <2>2 DEF Safe, AtUser
  <2> QED
    BY <1>0, <2>1, <2>2
<1>8. \A u \in Threads : AtFlush(pc[u], np[u])'
  BY <1>1, <1>3 DEF Safe, AtFlush
<1> QED
  BY <1>3, <1>5, <1>6, <1>7, <1>8 DEF Safe

\* A flush returns to where nothing is to be shown, or to the switch with
\* little left to send.
LEMMA ReturnIsSafe ==
    ASSUME NEW t \in Threads, t = "user" /\ claim_height > 0 => amount - SentOf(id) < MinFlush
    PROVE  /\ t = "user" => AtUser(AfterFlush(t)) /\ AtUser(AfterError(t))
           /\ \A n : AtFlush(AfterFlush(t), n) /\ AtFlush(AfterError(t), n)
<1>1. t = "user" => AtUser(AfterFlush(t)) /\ AtUser(AfterError(t))
  BY DEF AtUser, AfterFlush, AfterError, Halfway
<1>2. \A n : AtFlush(AfterFlush(t), n) /\ AtFlush(AfterError(t), n)
  BY DEF AtFlush, AfterFlush, AfterError
<1> QED
  BY <1>1, <1>2

\* The labels of a flush at which nothing is to be shown of the user.
LEMMA FlushingIsSafe ==
    \A l \in {"none", "payload", "clone", "sending", "clear", "amount"} : AtUser(l)
BY DEF AtUser, Halfway

\* While claim flushes, there is a present nano pay.
LEMMA FlushOfClaim ==
    ASSUME Claims, NEW t \in Threads, FlushStep(t)
    PROVE  /\ t = "user" /\ claim_height > 0 => id # 0
           /\ pc[t] \in FlushLabels /\ (t = "user" => pc["user"] \notin Halfway)
<1>1. pc[t] \in FlushLabels
  BY DEF FlushStep, FlushAmount, FlushNone, FlushPayload, FlushSend, FlushFails,
         FlushSent, FlushClear, FlushExpire, FlushRecord, FlushLabels
<1> QED
  BY <1>1 DEF Claims, AtLabel, FlushLabels, Halfway

\* The steps of flush_fn up to the call.
LEMMA FlushLooks ==
    ASSUME Typed, Paid, Claims, Loss, NEW t \in Threads,
           FlushAmount(t) \/ FlushNone(t) \/ FlushPayload(t)
    PROVE  Loss'
<1>0. /\ UNCHANGED lossVars /\ UNCHANGED <<last, claim_height>> /\ Overlap
      /\ \A u \in Threads : u # t => np'[u] = np[u]
  BY DEF FlushAmount, FlushNone, FlushPayload, lossVars, payerVars, moneyVars, txVars,
         callVars, Typed, References
<1>1. /\ t = "user" /\ claim_height > 0 => id # 0
      /\ t = "user" => pc["user"] \notin Halfway
  BY FlushOfClaim DEF FlushStep
<1>2. /\ amount \in Nat /\ prev_flush_amount \in Nat /\ MinFlush \in Nat /\ MinFlush > 0
      /\ SentOf(id) \in Nat
  BY SentIsAnAmount, NanoPayAssumption DEF Typed, Amounts, Loss
<1>3. \A l : AtUser(l) => AtUser(l)'
  BY <1>0 DEF AtUser, lossVars, SentOf
<1>4. CASE FlushAmount(t)
  <2> DEFINE short == ~(t = "user" /\ force) /\ amount - prev_flush_amount < MinFlush
  <2>0. PICK l : l = IF short THEN AfterFlush(t) ELSE "none"
    OBVIOUS
  <2>1. Goto(t, l)
    BY <1>4, <2>0 DEF FlushAmount
  <2>2. ASSUME Clean PROVE AtFlush(l, np'[t]) /\ (t = "user" => AtUser(l)')
    <3>1. CASE short
      <4>1. t = "user" /\ claim_height > 0 => amount - SentOf(id) < MinFlush
        BY <1>1, <1>2, <2>2, <3>1 DEF Loss, Safe, Covered
      <4> QED
        BY <1>3, <2>0, <3>1, <4>1, ReturnIsSafe
    <3>2. CASE ~short
      <4>1. AtFlush("none", np'[t])
        BY DEF AtFlush
      <4> QED
        BY <1>3, <2>0, <3>2, <4>1, FlushingIsSafe
    <3> QED
      BY <3>1, <3>2
  <2> QED
    BY <1>0, <1>1, <2>1, <2>2, StillStep
<1>5. CASE FlushNone(t)
  <2>0. PICK l : l = IF tx = 0 THEN AfterFlush(t) ELSE "payload"
    OBVIOUS
  <2>1. Goto(t, l)
    BY <1>5, <2>0 DEF FlushNone
  <2>2. ASSUME Clean PROVE AtFlush(l, np'[t]) /\ (t = "user" => AtUser(l)')
    <3>1. CASE tx = 0
      <4>1. t = "user" /\ claim_height > 0 => amount - SentOf(id) < MinFlush
        BY <1>1, <1>2, <2>2, <3>1 DEF Loss, Safe, Held
      <4> QED
        BY <1>3, <2>0, <3>1, <4>1, ReturnIsSafe
    <3>2. CASE tx # 0
      <4>1. AtFlush("payload", np'[t])
        BY DEF AtFlush
      <4> QED
        BY <1>3, <2>0, <3>2, <4>1, FlushingIsSafe
    <3> QED
      BY <3>1, <3>2
  <2> QED
    BY <1>0, <1>1, <2>1, <2>2, StillStep
<1>6. CASE FlushPayload(t)
  <2>1. Goto(t, "clone") /\ np'[t] = tx
    BY <1>6 DEF FlushPayload, Typed, References
  <2>2. AtFlush("clone", np'[t])
    BY <2>1 DEF AtFlush
  <2>3. AtUser("clone")'
    BY <1>3, FlushingIsSafe
  <2> QED
    BY <1>0, <1>1, <2>1, <2>2, <2>3, StillStep
<1> QED
  BY <1>4, <1>5, <1>6

\* The call: the transaction that was read is the one that is sent.
LEMMA FlushSends ==
    ASSUME Typed, Paid, Claims, Loss, NEW t \in Threads, FlushSend(t)
    PROVE  Loss'
<1>0. "user" \in Threads /\ "task" \in Threads /\ t \in {"user", "task"}
      /\ pc \in [Threads -> Labels] /\ tx \in Made /\ id \in Nat /\ amount \in Nat
      /\ prev_flush_amount \in Nat /\ MinFlush \in Nat
  BY NanoPayAssumption DEF Threads, Typed, IInv, Types, References, Amounts
<1>1. /\ UNCHANGED <<payer, txs, id, amount, prev_flush_amount, accepted, tx, np, last>>
      /\ Overlap /\ Goto(t, "sending") /\ pc[t] = "clone" /\ tx # 0
      /\ sent' = sent \cup {tx}
  BY DEF FlushSend, payerVars, moneyVars, txVars, callVars
<1>2. \A u \in Threads : pc'[u] = IF u = t THEN "sending" ELSE pc[u]
  BY <1>0, <1>1 DEF Goto
<1>3. /\ txs \in Seq(Tx) /\ sent \in SUBSET (1 .. Len(txs)) /\ tx \in 1 .. Len(txs)
      /\ \A n : SentOf(n) \in Nat
  BY <1>0, <1>1, SentIsAnAmount DEF Loss, Made
<1>4. Shipped'
  BY <1>1, <1>3 DEF Shipped
<1> DEFINE more(n) == MostIn(txs, sent \cup {tx}, n)
<1>5. \A n : SentOf(n) <= more(n) /\ more(n) \in Nat
  <2>1. sent \cup {tx} \in SUBSET (1 .. Len(txs))
    BY <1>3
  <2> QED
    BY <1>3, <2>1, MostOfMore, MostIsAnAmount DEF SentOf
<1>6. (\A n : SentOf(n)' = more(n) /\ Most(n)' = Most(n)) /\ SentOf(id)' = more(id)
  BY <1>1 DEF SentOf, Most
<1> HIDE DEF more
<1> SUFFICES ASSUME Clean' PROVE Safe'
  BY <1>4 DEF Loss
<1>7. Clean /\ Apart' /\ Safe
  BY <1>1, CleanSteps DEF Loss
<1>8. Covered'
  BY <1>0, <1>1, <1>3, <1>5, <1>6, <1>7 DEF Safe, Covered
<1>9. Held'
  BY <1>0, <1>1, <1>2, <1>3, <1>5, <1>6, <1>7 DEF Safe, Held, Halfway
<1>10. AtUser(pc["user"])'
  BY <1>0, <1>1, <1>2, <1>3, <1>5, <1>6, <1>7 DEF Safe, AtUser, Halfway
<1>11. Settled'
  <2>1. accepted \in SUBSET (1 .. Len(txs))
    BY DEF Claims, Past
  <2>2. \A n : Most(n) \in Nat
    BY <1>3, <2>1, MostIsAnAmount DEF Most
  <2>3. \A n \in 1 .. payer.id : n # id \/ amount # Most(n) => Most(n) - more(n) < MinFlush
    BY <1>0, <1>3, <1>5, <1>7, <2>2 DEF Safe, Settled
  <2> QED
    BY <1>1, <1>6, <2>3 DEF Settled
<1>12. \A u \in Threads : AtFlush(pc[u], np[u])'
  <2>1. tx = np[t]
    BY <1>1, <1>7 DEF Safe, AtFlush
  <2> QED
    BY <1>1, <1>2, <1>7, <2>1 DEF Safe, AtFlush
<1> QED
  BY <1>7, <1>8, <1>9, <1>10, <1>11, <1>12 DEF Safe

\* An answer, or none.
LEMMA FlushIsAnswered ==
    ASSUME Typed, Paid, Claims, Loss, NEW t \in Threads,
           FlushFails(t) \/ FlushSent(t) \/ FlushExpire(t)
    PROVE  Loss'
<1>0. /\ UNCHANGED lossVars /\ last' = last /\ Overlap
      /\ \A u \in Threads : u # t => np'[u] = np[u]
  BY DEF FlushFails, FlushSent, FlushExpire, lossVars, payerVars, moneyVars, txVars,
         callVars, Typed, References
<1>1. t = "user" => pc["user"] \notin Halfway
  BY FlushOfClaim DEF FlushStep
<1>2. CASE FlushFails(t)
  <2>1. PICK l \in {"returned", "idle"} : Goto(t, l)
    BY <1>2 DEF FlushFails, AfterError
  <2>2. AtFlush(l, np'[t]) /\ AtUser(l)'
    BY DEF AtFlush, AtUser, Halfway
  <2> QED
    BY <1>0, <1>1, <2>1, <2>2, StillStep
<1>3. CASE FlushSent(t)
  <2>1. Goto(t, "clear") /\ pc[t] = "sending" /\ np'[t] = np[t]
    BY <1>3 DEF FlushSent
  <2>2. AtUser("clear")' /\ (Clean => AtFlush("clear", np'[t]))
    BY <2>1 DEF AtFlush, AtUser, Halfway, Loss, Safe
  <2> QED
    BY <1>0, <1>1, <2>1, <2>2, StillStep
<1>4. CASE FlushExpire(t)
  <2>1. Goto(t, "record") /\ pc[t] = "expire" /\ np'[t] = np[t]
    BY <1>4 DEF FlushExpire
  <2>2. Clean => AtFlush("record", np'[t])
    BY <2>1 DEF AtFlush, Loss, Safe
  <2>3. t = "user" => (Clean => AtUser("record")')
    BY <1>0, <2>1 DEF AtUser, Halfway, Loss, Safe, lossVars
  <2> QED
    BY <1>0, <1>1, <2>1, <2>2, <2>3, StillStep
<1> QED
  BY <1>2, <1>3, <1>4

\* The transaction is dropped: it is the one that was sent.
LEMMA FlushClears ==
    ASSUME Typed, Paid, Claims, Loss, NEW t \in Threads, FlushClear(t)
    PROVE  Loss'
<1>0. "user" \in Threads /\ "task" \in Threads /\ t \in {"user", "task"}
      /\ pc \in [Threads -> Labels] /\ id \in Nat
  BY DEF Threads, Typed, IInv, Types, Amounts
<1>1. /\ UNCHANGED <<payer, txs, id, amount, prev_flush_amount, accepted, sent, np, last>>
      /\ Overlap /\ Goto(t, "expire") /\ pc[t] = "clear" /\ tx' = 0
  BY DEF FlushClear, payerVars, moneyVars, callVars
<1>2. \A u \in Threads : pc'[u] = IF u = t THEN "expire" ELSE pc[u]
  BY <1>0, <1>1 DEF Goto
<1>3. \A n : SentOf(n)' = SentOf(n) /\ Most(n)' = Most(n)
  BY <1>1 DEF SentOf, Most
<1>4. SentOf(id)' = SentOf(id)
  BY <1>1 DEF SentOf
<1>5. Shipped'
  BY <1>1 DEF Loss, Shipped
<1> SUFFICES ASSUME Clean' PROVE Safe'
  BY <1>5 DEF Loss
<1>6. Clean /\ Apart' /\ Safe
  BY <1>1, CleanSteps DEF Loss
<1>7. pc["user"] \notin Halfway
  <2>1. pc["task"] \in Touching => pc["user"] \notin Halfway
    BY <1>6 DEF Safe, Apart, Storing, Halfway
  <2> QED
    BY <1>0, <1>1, <2>1 DEF Halfway, Touching, FlushLabels
<1>8. id # 0 => SentOf(id) >= amount
  <2>1. tx \in {0, np[t]} /\ np[t] \in sent
    BY <1>1, <1>6 DEF Safe, AtFlush
  <2>2. tx # 0 => txs[tx].amount <= SentOf(txs[tx].id)
    BY <2>1, SentIsAnAmount DEF Loss
  <2>3. tx # 0 /\ id # 0 => txs[tx].id = id /\ txs[tx].amount = amount
    BY <1>6, <1>7 DEF Safe, Held
  <2>4. SentOf(id) \in Nat /\ amount \in Nat
    BY SentIsAnAmount DEF Loss, Typed, Amounts
  <2> QED
    BY <1>6, <2>2, <2>3, <2>4 DEF Safe, Held
<1>9. Covered' /\ Settled'
  BY <1>1, <1>3, <1>4, <1>6 DEF Safe, Covered, Settled
<1>10. Held'
  BY <1>1, <1>4, <1>8 DEF Held
<1>11. AtUser(pc["user"])'
  BY <1>0, <1>1, <1>2, <1>4, <1>6, <1>7 DEF Safe, AtUser, Halfway
<1>12. \A u \in Threads : AtFlush(pc[u], np[u])'
  BY <1>1, <1>2, <1>6 DEF Safe, AtFlush
<1> QED
  BY <1>6, <1>9, <1>10, <1>11, <1>12 DEF Safe

\* The amount that was flushed is taken from the transaction that was sent,
\* which is of the present nano pay or leaves a mark.
LEMMA FlushRecords ==
    ASSUME Typed, Paid, Claims, Loss, NEW t \in Threads, FlushRecord(t)
    PROVE  Loss'
<1>0. "user" \in Threads /\ "task" \in Threads /\ t \in {"user", "task"}
      /\ pc \in [Threads -> Labels] /\ id \in Nat /\ np \in [Threads -> Made]
  BY DEF Threads, Typed, IInv, Types, Amounts, References
<1>1. /\ UNCHANGED <<payer, txs, id, amount, accepted, sent, tx, last, claim_height>>
      /\ Overlap /\ Goto(t, AfterFlush(t)) /\ pc[t] = "record"
      /\ prev_flush_amount' = txs[np[t]].amount
      /\ np' = [np EXCEPT ![t] = 0]
  BY DEF FlushRecord, payerVars, txVars, callVars
<1>2. PICK l : l = AfterFlush(t)
  OBVIOUS
<1>3. \A u \in Threads : pc'[u] = IF u = t THEN l ELSE pc[u]
  BY <1>0, <1>1, <1>2 DEF Goto
<1>4. \A n : SentOf(n)' = SentOf(n) /\ Most(n)' = Most(n)
  BY <1>1 DEF SentOf, Most
<1>5. SentOf(id)' = SentOf(id)
  BY <1>1 DEF SentOf
<1>6. Shipped'
  BY <1>1 DEF Loss, Shipped
<1> SUFFICES ASSUME Clean' PROVE Safe'
  BY <1>6 DEF Loss
<1>7. Clean /\ Apart' /\ Safe /\ (Records(t) => txs[np[t]].id = id)
  BY <1>1, CleanSteps DEF Loss
<1>8. l \in {"sleep", "switch", "idle"} /\ (l = "switch" => t = "user" /\ claim_height > 0)
  BY <1>0, <1>2 DEF AfterFlush
<1>9. Records(t)
  BY <1>1, <1>3, <1>8 DEF Records
<1>10. np[t] \in sent /\ np[t] \in 1 .. Len(txs)
  <2>1. np[t] \in sent
    BY <1>1, <1>7 DEF Safe, AtFlush
  <2> QED
    BY <2>1 DEF Loss, Shipped
<1>11. txs[np[t]].id = id /\ id # 0 /\ txs[np[t]].amount <= SentOf(id)
  <2>1. txs[np[t]].id = id /\ txs[np[t]].amount <= SentOf(txs[np[t]].id)
    BY <1>7, <1>9, <1>10, SentIsAnAmount DEF Loss
  <2>2. txs[np[t]].id \in 1 .. payer.id
    BY <1>10 DEF Paid
  <2> QED
    BY <2>1, <2>2
<1>12. Covered'
  BY <1>1, <1>5, <1>11 DEF Covered
<1>13. Settled'
  BY <1>1, <1>4, <1>7 DEF Safe, Settled
<1>14. Held'
  BY <1>0, <1>1, <1>3, <1>5, <1>7, <1>8 DEF Safe, Held, Halfway
<1>15. AtUser(pc["user"])'
  <2>1. CASE t = "task"
    BY <1>0, <1>1, <1>3, <1>5, <1>7, <2>1 DEF Safe, AtUser
  <2>2. CASE t = "user"
    <3>1. tx = 0
      BY <1>1, <1>7, <2>2 DEF Safe, AtUser
    <3>2. SentOf(id) >= amount
      BY <1>7, <1>11, <3>1 DEF Safe, Held
    <3>3. amount - SentOf(id) < MinFlush
      BY <3>2, SentIsAnAmount, NanoPayAssumption DEF Loss, Typed, Amounts
    <3> QED
      BY <1>0, <1>1, <1>3, <1>5, <1>8, <2>2, <3>3 DEF AtUser, Halfway
  <2> QED
    BY <1>0, <2>1, <2>2
<1>16. \A u \in Threads : AtFlush(pc[u], np[u])'
  BY <1>0, <1>1, <1>3, <1>7, <1>8 DEF Safe, AtFlush
<1> QED
  BY <1>7, <1>12, <1>13, <1>14, <1>15, <1>16 DEF Safe

\* No step of flush_fn loses anything.
LEMMA FlushKeepsLoss ==
    ASSUME Typed, Paid, Claims, Loss, NEW t \in Threads, FlushStep(t)
    PROVE  Loss'
BY FlushLooks, FlushSends, FlushIsAnswered, FlushClears, FlushRecords DEF FlushStep

\* Steps that neither claim, store nor flush.
LEMMA OthersKeepLoss ==
    ASSUME Typed, Paid, Claims, Loss,
           \/ Tick \/ Close \/ UNCHANGED vars
           \/ TaskWake \/ TaskCheck \/ TaskHeight \/ TaskWaited
           \/ \E f \in BOOLEAN : Flush(f)
           \/ \E i \in DOMAIN txs : Claim(i)
           \/ \E result \in VerifyResults : ClaimCheck(result)
           \/ \E balance \in Balances : ClaimBalance(balance)
           \/ ClaimExpiration
           \/ \E t \in Threads : \E labels : PanicAt(t, labels) /\ labels \cap Halfway = {}
    PROVE  Loss'
<1> USE DEF lossVars, payerVars, moneyVars, txVars, callVars, ghostVars
<1>0. "user" \in Threads /\ "task" \in Threads
  BY DEF Threads
<1> DEFINE Resting == {"returned", "sleep", "check", "amount", "height", "wait", "panicked",
                       "idle", "balance", "accept"}
<1>1. \A l \in Resting : AtUser(l)' /\ (\A n : AtFlush(l, n))
  BY DEF AtUser, AtFlush, Halfway
<1>2. CASE Tick \/ Close \/ UNCHANGED vars
  <2>1. UNCHANGED <<lossVars, pc, np, last, races>>
    BY <1>2 DEF Tick, Close, vars
  <2>2. \A n : SentOf(n)' = SentOf(n) /\ Most(n)' = Most(n)
    BY <2>1 DEF SentOf, Most
  <2>3. SentOf(id)' = SentOf(id)
    BY <2>1 DEF SentOf
  <2>4. Shipped' /\ (Clean' => Clean)
    BY <2>1 DEF Loss, Shipped, Clean
  <2>5. ASSUME Safe PROVE Covered' /\ Settled' /\ Held' /\ Apart'
    BY <2>1, <2>2, <2>3, <2>5 DEF Safe, Covered, Settled, Held, Apart
  <2>6. ASSUME Safe
        PROVE  AtUser(pc["user"])' /\ \A u \in Threads : AtFlush(pc[u], np[u])'
    BY <2>1, <2>3, <2>6 DEF Safe, AtUser, AtFlush
  <2> QED
    BY <2>4, <2>5, <2>6 DEF Loss, Safe
<1>3. CASE TaskWake \/ TaskCheck \/ TaskHeight \/ TaskWaited
  <2>1. PICK l \in {"returned", "sleep", "check", "amount", "height", "wait"} : TaskGoes(l)
    BY <1>3 DEF TaskWake, TaskCheck, TaskHeight, TaskWaited
  <2>2. UNCHANGED lossVars /\ Overlap /\ Goto("task", l) /\ np' = np /\ last' = last
    BY <2>1 DEF TaskGoes
  <2>3. AtFlush(l, np'["task"])
    BY <1>1, <2>1
  <2> QED
    BY <1>0, <2>2, <2>3, StillStep
<1>4. ASSUME NEW l \in Resting, Goto("user", l), UNCHANGED lossVars, Overlap, np' = np,
             pc["user"] \notin Halfway
      PROVE  Loss'
  <2>1. AtUser(l)' /\ AtFlush(l, np'["user"])
    BY <1>1
  <2> QED
    BY <1>0, <1>4, <2>1, StillStep
<1>5. ASSUME NEW f \in BOOLEAN, Flush(f) PROVE Loss'
  <2>1. /\ Goto("user", "amount") /\ UNCHANGED lossVars /\ Overlap /\ np' = np
        /\ pc["user"] \notin Halfway
    BY <1>5 DEF Flush, Call, Halfway
  <2> QED
    BY <1>4, <2>1
<1>6. ASSUME NEW i \in DOMAIN txs, Claim(i) PROVE Loss'
  <2>1. /\ Goto("user", "height") /\ UNCHANGED lossVars /\ Overlap /\ np' = np
        /\ pc["user"] \notin Halfway
    BY <1>6 DEF Claim, Call, Halfway
  <2> QED
    BY <1>4, <2>1
<1>7. ASSUME NEW result \in VerifyResults, ClaimCheck(result) PROVE Loss'
  <2> DEFINE l == CASE result = "todo" -> "panicked"
                    [] result = "no" \/ closed \/ (id # 0 /\ StaleClaim) -> "idle"
                    [] result = "yes" /\ ~closed /\ id # 0 /\ id # Claimed.id -> "amount"
                    [] OTHER -> "balance"
  <2>1. l \in {"panicked", "idle", "amount", "balance"}
    OBVIOUS
  <2>2. /\ Goto("user", l) /\ UNCHANGED lossVars /\ Overlap /\ np' = np
        /\ pc["user"] \notin Halfway
    BY <1>7 DEF ClaimCheck, Halfway
  <2> HIDE DEF l
  <2>3. PICK k \in {"panicked", "idle", "amount", "balance"} : Goto("user", k)
    BY <2>1, <2>2
  <2> QED
    BY <1>4, <2>2, <2>3
<1>8. ASSUME NEW balance \in Balances, ClaimBalance(balance) PROVE Loss'
  <2>1. PICK k \in {"idle", "accept"} : Goto("user", k)
    BY <1>8 DEF ClaimBalance
  <2>2. UNCHANGED lossVars /\ Overlap /\ np' = np /\ pc["user"] \notin Halfway
    BY <1>8 DEF ClaimBalance, Halfway
  <2> QED
    BY <1>4, <2>1, <2>2
<1>9. CASE ClaimExpiration
  <2>1. /\ Goto("user", "total") /\ UNCHANGED lossVars /\ Overlap /\ np' = np
        /\ pc["user"] = "expiration" /\ last' = last
    BY <1>9 DEF ClaimExpiration
  <2>2. "total" \in Halfway /\ AtFlush("total", np'["user"])
    BY DEF AtFlush, Halfway
  <2>3. Clean => AtUser("total")'
    BY <2>1 DEF AtUser, Halfway, Loss, Safe
  <2> QED
    BY <1>0, <2>1, <2>2, <2>3, StillStep
<1>10. ASSUME NEW t \in Threads, NEW labels, PanicAt(t, labels), labels \cap Halfway = {}
       PROVE  Loss'
  <2>1. /\ Goto(t, "panicked") /\ UNCHANGED lossVars /\ Overlap /\ np' = np /\ last' = last
        /\ pc[t] \notin Halfway
    BY <1>10 DEF PanicAt
  <2>2. AtFlush("panicked", np'[t]) /\ AtUser("panicked")'
    BY <1>1
  <2> QED
    BY <1>0, <2>1, <2>2, StillStep
<1> QED
  BY <1>2, <1>3, <1>5, <1>6, <1>7, <1>8, <1>9, <1>10

\* A payment opens a nano pay of which nothing was claimed.
LEMMA PaymentKeepsLoss ==
    ASSUME Typed, Paid, Claims, Loss, NEW delta \in Deltas, IncreaseAmount(delta)
    PROVE  Loss'
<1>0. /\ payer.id \in Nat /\ tx \in Made /\ MinFlush \in Nat /\ MinFlush > 0
      /\ txs \in Seq(Tx) /\ Len(txs) \in Nat /\ sent \in SUBSET (1 .. Len(txs))
      /\ \A n : SentOf(n) \in Nat
  BY SentIsAnAmount, NanoPayAssumption DEF Typed, IInv, Types, Tx, References, Loss
<1>1. /\ payer' \in Tx /\ txs' = Append(txs, payer')
      /\ payer'.id \in {payer.id, payer.id + 1}
      /\ UNCHANGED <<id, amount, prev_flush_amount, accepted, sent, tx, np, pc, last, races>>
  BY Payment DEF IncreaseAmount, moneyVars, callVars, ghostVars, txVars
<1>2. accepted \in SUBSET (1 .. Len(txs))
  BY DEF Claims, Past
<1>3. \A n : SentOf(n)' = SentOf(n) /\ Most(n)' = Most(n)
  BY <1>0, <1>1, <1>2, MostStays DEF SentOf, Most
<1>4. SentOf(id)' = SentOf(id)
  BY <1>0, <1>1, MostStays DEF SentOf
<1>5. tx # 0 => txs'[tx] = txs[tx]
  BY <1>0, <1>1, AppendProperties DEF Made
<1>6. Shipped' /\ (Clean' => Clean)
  BY <1>0, <1>1 DEF Shipped, Clean
<1> SUFFICES ASSUME Safe PROVE Safe'
  BY <1>6 DEF Loss
<1>7. Covered' /\ Held' /\ Apart'
  BY <1>1, <1>4, <1>5 DEF Safe, Covered, Held, Apart
<1>8. AtUser(pc["user"])' /\ \A u \in Threads : AtFlush(pc[u], np[u])'
  BY <1>1, <1>4 DEF Safe, AtUser, AtFlush
<1>9. Most(payer.id + 1) = 0
  <2>1. \A i \in accepted : txs[i].id # payer.id + 1
    BY <1>0, <1>2 DEF Paid
  <2> QED
    BY <1>0, <1>2, <2>1, MostIsAnAmount DEF Most
<1>10. \A n \in 1 .. payer'.id : n # id \/ amount # Most(n) => Most(n) - SentOf(n) < MinFlush
  <2>1. \A n \in 1 .. payer'.id : n \in 1 .. payer.id \/ n = payer.id + 1
    BY <1>0, <1>1
  <2>2. Most(payer.id + 1) - SentOf(payer.id + 1) < MinFlush
    BY <1>0, <1>9
  <2> QED
    BY <2>1, <2>2 DEF Safe, Settled
<1>11. Settled'
  BY <1>1, <1>3, <1>10 DEF Settled
<1> QED
  BY <1>7, <1>8, <1>11 DEF Safe

\* Moving on to another nano pay: little is left to send of the old one.
LEMMA SwitchKeepsLoss ==
    ASSUME Typed, Paid, Claims, Loss, ClaimSwitch \/ ClaimReset
    PROVE  Loss'
<1>0. "user" \in Threads /\ "task" \in Threads /\ "user" # "task" /\ pc \in [Threads -> Labels]
  BY DEF Threads, Typed, IInv, Types
<1>1. /\ UNCHANGED <<payer, txs, accepted, sent, tx, np, last>> /\ Overlap
      /\ \E l \in {"reset", "balance"} : Goto("user", l)
      /\ id' = 0 \/ id' = id
  BY DEF ClaimSwitch, ClaimReset, payerVars, txVars, callVars
<1>2. pc'["user"] \in {"reset", "balance"} /\ pc'["task"] = pc["task"]
  BY <1>0, <1>1 DEF Goto
<1>3. \A n : SentOf(n)' = SentOf(n) /\ Most(n)' = Most(n)
  BY <1>1 DEF SentOf, Most
<1>4. Shipped'
  BY <1>1 DEF Loss, Shipped
<1> SUFFICES ASSUME Clean' PROVE Safe'
  BY <1>4 DEF Loss
<1>5. Clean /\ Apart' /\ Safe
  BY <1>1, CleanSteps DEF Loss
<1>6. AtUser(pc["user"])'
  BY <1>2 DEF AtUser, Halfway
<1>7. \A u \in Threads : AtFlush(pc[u], np[u])'
  BY <1>0, <1>1, <1>2, <1>5 DEF Safe, AtFlush, Threads
<1>8. CASE ClaimSwitch
  <2>1. pc["user"] = "switch" /\ id' = 0 /\ prev_flush_amount' = 0
    BY <1>8 DEF ClaimSwitch
  <2>2. amount - SentOf(id) < MinFlush
    BY <1>5, <2>1 DEF Safe, AtUser
  <2>3. \A n \in 1 .. payer.id : Most(n) - SentOf(n) < MinFlush
    BY <1>5, <2>2 DEF Safe, Settled
  <2>4. Settled'
    BY <1>1, <1>3, <2>3 DEF Settled
  <2>5. Covered' /\ Held'
    BY <2>1 DEF Covered, Held
  <2> QED
    BY <1>5, <1>6, <1>7, <2>4, <2>5 DEF Safe
<1>9. CASE ClaimReset
  <2>1. pc["user"] = "reset" /\ id' = id /\ prev_flush_amount' = prev_flush_amount
    BY <1>9 DEF ClaimReset
  <2>2. id = 0
    BY <2>1 DEF Claims, AtLabel
  <2>3. Settled' /\ Covered' /\ Held'
    BY <1>1, <1>3, <1>5, <2>1, <2>2 DEF Safe, Settled, Covered, Held
  <2> QED
    BY <1>5, <1>6, <1>7, <2>3 DEF Safe
<1> QED
  BY <1>8, <1>9

\* Storing a transaction: the task is not flushing the one before it.
LEMMA AcceptKeepsLoss ==
    ASSUME Typed, Paid, Claims, Loss, ClaimAccept
    PROVE  Loss'
<1>0. /\ "user" \in Threads /\ "task" \in Threads /\ "user" # "task"
      /\ pc \in [Threads -> Labels] /\ \A n : SentOf(n) \in Nat
  BY SentIsAnAmount DEF Threads, Typed, IInv, Types, Loss
<1>1. /\ UNCHANGED <<payer, txs, accepted, sent, np, last, amount, prev_flush_amount>>
      /\ Overlap /\ Goto("user", "expiration") /\ pc["user"] = "accept"
      /\ id' = Claimed.id /\ tx' = last
  BY DEF ClaimAccept, payerVars, callVars
<1>2. pc'["user"] = "expiration" /\ pc'["task"] = pc["task"]
  BY <1>0, <1>1 DEF Goto
<1>3. \A n : SentOf(n)' = SentOf(n) /\ Most(n)' = Most(n)
  BY <1>1 DEF SentOf, Most
<1>4. SentOf(id)' = SentOf(Claimed.id)
  BY <1>1 DEF SentOf
<1>5. last # 0 /\ Claimed.id \in Nat /\ Claimed.id # 0
  BY <1>1, ClaimedIsMade DEF Claiming, Tx
<1>6. id = 0 \/ id = Claimed.id
  BY <1>1 DEF Claims, AtLabel, Funded, Storing
<1>7. Shipped'
  BY <1>1 DEF Loss, Shipped
<1> SUFFICES ASSUME Clean' PROVE Safe'
  BY <1>7 DEF Loss
<1>8. Clean /\ Apart' /\ Safe
  BY <1>1, CleanSteps DEF Loss
<1>9. Covered'
  BY <1>0, <1>1, <1>4, <1>5, <1>6, <1>8 DEF Safe, Covered
<1>10. Held' /\ AtUser(pc["user"])'
  BY <1>1, <1>2, <1>5 DEF Held, AtUser, Halfway
<1>11. Settled'
  <2>1. \A n \in 1 .. payer.id :
           n # Claimed.id \/ amount # Most(n) => Most(n) - SentOf(n) < MinFlush
    <3>1. payer.id \in Nat /\ \A n \in 1 .. payer.id : n # 0
      BY DEF Typed, IInv, Types, Tx
    <3> QED
      BY <1>6, <1>8, <3>1 DEF Safe, Settled
  <2> QED
    BY <1>1, <1>3, <2>1 DEF Settled
<1>12. \A u \in Threads : AtFlush(pc[u], np[u])'
  <2>1. pc["task"] \notin Touching
    BY <1>1, <1>8 DEF Safe, Apart, Storing
  <2> QED
    BY <1>2, <2>1 DEF AtFlush, Threads, Touching, FlushLabels
<1> QED
  BY <1>8, <1>9, <1>10, <1>11, <1>12 DEF Safe

\* Counting it: it is the one that is held.
LEMMA TotalKeepsLoss ==
    ASSUME Typed, Paid, Claims, Loss, ClaimTotal
    PROVE  Loss'
<1>0. /\ "user" \in Threads /\ "task" \in Threads /\ "user" # "task"
      /\ pc \in [Threads -> Labels] /\ txs \in Seq(Tx)
  BY DEF Threads, Typed, IInv, Types
<1>1. /\ UNCHANGED <<payer, txs, sent, np, last, id, tx, prev_flush_amount>>
      /\ Overlap /\ Goto("user", "idle") /\ pc["user"] = "total"
      /\ amount' = Claimed.amount /\ accepted' = accepted \cup {last}
  BY DEF ClaimTotal, payerVars, callVars, txVars
<1>2. pc'["user"] = "idle" /\ pc'["task"] = pc["task"]
  BY <1>0, <1>1 DEF Goto
<1>3. (\A n : SentOf(n)' = SentOf(n)) /\ SentOf(id)' = SentOf(id)
  BY <1>1 DEF SentOf
<1>4. last \in 1 .. Len(txs) /\ last # 0
  BY <1>1, ClaimedIsMade DEF Claiming
<1>5. id = Claimed.id /\ amount < Claimed.amount
  BY <1>1 DEF Claims, AtLabel, Funded, Storing
<1>6. /\ \A n : n # id => Most(n)' = Most(n)
      /\ Most(id)' = Claimed.amount \/ (Most(id)' = Most(id) /\ Claimed.amount < Most(id))
      /\ amount \in Nat /\ Claimed.amount \in Nat /\ Most(id) \in Nat
  <2>1. accepted \in SUBSET (1 .. Len(txs)) /\ amount \in Nat
    BY DEF Claims, Past, Typed, Amounts
  <2>2. Claimed.amount \in Nat /\ MostIn(txs, accepted, id) \in Nat
    BY <1>0, <1>1, <2>1, ClaimedIsMade, MostIsAnAmount DEF Claiming
  <2>3. /\ \A n : n # id => MostIn(txs, accepted \cup {last}, n) = MostIn(txs, accepted, n)
        /\ \/ MostIn(txs, accepted \cup {last}, id) = Claimed.amount
           \/ /\ MostIn(txs, accepted \cup {last}, id) = MostIn(txs, accepted, id)
              /\ Claimed.amount < MostIn(txs, accepted, id)
    <3>1. ASSUME NEW n, n # id
          PROVE  MostIn(txs, accepted \cup {last}, n) = MostIn(txs, accepted, n)
      BY <1>0, <1>4, <1>5, <2>1, <3>1, MostOfMore DEF Claimed
    <3>2. /\ Claimed.amount >= MostIn(txs, accepted, id)
               => MostIn(txs, accepted \cup {last}, id) = Claimed.amount
          /\ Claimed.amount <= MostIn(txs, accepted, id)
               => MostIn(txs, accepted \cup {last}, id) = MostIn(txs, accepted, id)
      BY <1>0, <1>4, <1>5, <2>1, MostOfMore DEF Claimed
    <3> QED
      BY <2>2, <3>1, <3>2
  <2> QED
    BY <1>1, <2>1, <2>2, <2>3 DEF Most
<1>7. Shipped'
  BY <1>1 DEF Loss, Shipped
<1> SUFFICES ASSUME Clean' PROVE Safe'
  BY <1>7 DEF Loss
<1>8. Clean /\ Apart' /\ Safe
  BY <1>1, CleanSteps DEF Loss
<1>9. tx = last
  BY <1>1, <1>8 DEF Safe, AtUser, Halfway
<1>10. Covered'
  BY <1>1, <1>3, <1>8 DEF Safe, Covered
<1>11. Held' /\ AtUser(pc["user"])'
  BY <1>1, <1>2, <1>4, <1>5, <1>9 DEF Held, AtUser, Halfway, Claimed
<1>12. Settled'
  <2> SUFFICES ASSUME NEW n \in 1 .. payer.id, n # id \/ amount' # Most(n)'
               PROVE  Most(n)' - SentOf(n)' < MinFlush
    BY <1>1 DEF Settled
  <2>1. CASE n # id
    BY <1>3, <1>6, <1>8, <2>1 DEF Safe, Settled
  <2>2. CASE n = id
    <3>1. Most(n)' = Most(n) /\ amount # Most(n)
      BY <1>1, <1>5, <1>6, <2>2
    <3> QED
      BY <1>3, <1>8, <3>1 DEF Safe, Settled
  <2> QED
    BY <2>1, <2>2
<1>13. \A u \in Threads : AtFlush(pc[u], np[u])'
  BY <1>0, <1>1, <1>2, <1>8 DEF Safe, AtFlush, Threads
<1> QED
  BY <1>8, <1>10, <1>11, <1>12, <1>13 DEF Safe

\* Every step keeps the loss bounded.
LEMMA NextLoss == Typed /\ Paid /\ Claims /\ Loss /\ [Next]_vars => Loss'
<1> SUFFICES ASSUME Typed, Paid, Claims, Loss, [Next]_vars PROVE Loss'
  OBVIOUS
<1>0. "user" \in Threads /\ "task" \in Threads
  BY DEF Threads
<1>1. ASSUME NEW delta \in Deltas, IncreaseAmount(delta) PROVE Loss'
  BY <1>1, PaymentKeepsLoss
<1>2. CASE PanicAt("user", {"none", "payload", "clone", "clear", "accept"})
  <2>1. {"none", "payload", "clone", "clear", "accept"} \cap Halfway = {}
    BY DEF Halfway
  <2> QED
    BY <1>0, <1>2, <2>1, OthersKeepLoss
<1>3. CASE PanicAt("task", {"none", "payload", "clone", "clear"}
                             \cup (IF closed THEN {} ELSE {"sleep"}))
  <2> DEFINE labels == {"none", "payload", "clone", "clear"}
                          \cup (IF closed THEN {} ELSE {"sleep"})
  <2>1. PICK k : k = labels
    OBVIOUS
  <2>2. k \cap Halfway = {}
    BY <2>1 DEF Halfway
  <2>3. PanicAt("task", k)
    BY <1>3, <2>1
  <2> QED
    BY <1>0, <2>2, <2>3, OthersKeepLoss
<1>4. CASE FlushStep("user") \/ FlushStep("task")
  BY <1>0, <1>4, FlushKeepsLoss
<1> QED
  BY <1>1, <1>2, <1>3, <1>4, OthersKeepLoss, SwitchKeepsLoss, AcceptKeepsLoss, TotalKeepsLoss
     DEF Next, UserStep, TaskStep

\* For every number of payments, calls and blocks, the nano pays that claim
\* has moved on from have less than min_flush_amount left to send, unless a
\* claim wrote the shared fields under a flush of the task or a flush took
\* prev_flush_amount from another nano pay.
THEOREM LossStaysBounded == Spec => []LossIsBounded
<1>1. Init => Loss
  <2> SUFFICES ASSUME Init PROVE Loss
    OBVIOUS
  <2>1. pc["user"] = "idle" /\ pc["task"] = "sleep"
    BY DEF Init, Threads
  <2>2. Shipped /\ Covered /\ Held /\ Settled
    BY DEF Init, Shipped, Covered, Held, Settled
  <2>3. AtUser(pc["user"]) /\ Apart /\ \A t \in Threads : AtFlush(pc[t], np[t])
    BY <2>1 DEF AtUser, Apart, AtFlush, Threads, Halfway, Touching, FlushLabels
  <2> QED
    BY <2>2, <2>3 DEF Loss, Safe
<1>2. Loss => LossIsBounded
  <2> SUFFICES ASSUME Loss, races \cap {"claim", "record"} = {}, NEW n \in 1 .. payer.id,
                      n # id
               PROVE  Greatest(Of(accepted, n)) - Greatest(Of(sent, n)) < MinFlush
    BY DEF LossIsBounded
  <2>1. Most(n) - SentOf(n) < MinFlush
    BY DEF Loss, Clean, Safe, Settled
  <2>2. Most(n) = Greatest(Of(accepted, n)) /\ SentOf(n) = Greatest(Of(sent, n))
    BY DEF Most, SentOf, MostIn, GreatestOf, Greatest, Of
  <2> QED
    BY <2>1, <2>2
<1> QED
  BY <1>1, <1>2, NextLoss, AlwaysTyped, AlwaysClaims, PTL DEF Spec

-----------------------------------------------------------------------------
(* After close() *)

\* How many steps the task has left at most once the claimer is closed: its
\* look at the amount, the wait for the claim interval, and one flush.
StepsLeft ==
    [returned |-> 0, panicked |-> 0, sleep |-> 1, record |-> 2, expire |-> 3, clear |-> 4,
     sending |-> 5, clone |-> 6, payload |-> 7, none |-> 8, amount |-> 9, wait |-> 10,
     height |-> 11, check |-> 12]

\* A claimer stays closed, each step of its task brings the task nearer to its
\* end, and no call of the user and no payment moves it.
ClosedTaskAdvances ==
    closed => /\ closed'
              /\ TaskStep => StepsLeft[pc'["task"]] < StepsLeft[pc["task"]]
              /\ pc'["task"] # pc["task"] => TaskStep

\* A move of the task from one label to another.
TaskMoves(from, to) == pc["task"] \in from /\ pc'["task"] \in to

\* A flush, which goes through its labels in order.
LEMMA TaskFlushAdvances ==
    ASSUME Types, FlushStep("task")
    PROVE  StepsLeft[pc'["task"]] < StepsLeft[pc["task"]]
<1>0. /\ \A l : Goto("task", l) => pc'["task"] = l
      /\ AfterFlush("task") = "sleep" /\ AfterError("task") = "returned"
  BY DEF Goto, Types, Threads, AfterFlush, AfterError
<1>1. CASE FlushAmount("task")
  <2>1. TaskMoves({"amount"}, {"sleep", "none"})
    BY <1>0, <1>1 DEF FlushAmount, TaskMoves
  <2> QED
    BY <2>1 DEF TaskMoves, StepsLeft
<1>2. CASE FlushNone("task")
  <2>1. TaskMoves({"none"}, {"sleep", "payload"})
    BY <1>0, <1>2 DEF FlushNone, TaskMoves
  <2> QED
    BY <2>1 DEF TaskMoves, StepsLeft
<1>3. CASE FlushPayload("task")
  <2>1. TaskMoves({"payload"}, {"clone"})
    BY <1>0, <1>3 DEF FlushPayload, TaskMoves
  <2> QED
    BY <2>1 DEF TaskMoves, StepsLeft
<1>4. CASE FlushSend("task") \/ FlushFails("task")
  <2>1. TaskMoves({"clone"}, {"sending", "returned"}) \/ TaskMoves({"sending"}, {"returned"})
    BY <1>0, <1>4 DEF FlushSend, FlushFails, TaskMoves
  <2> QED
    BY <2>1 DEF TaskMoves, StepsLeft
<1>5. CASE FlushSent("task") \/ FlushClear("task")
  <2>1. TaskMoves({"sending"}, {"clear"}) \/ TaskMoves({"clear"}, {"expire"})
    BY <1>0, <1>5 DEF FlushSent, FlushClear, TaskMoves
  <2> QED
    BY <2>1 DEF TaskMoves, StepsLeft
<1>6. CASE FlushExpire("task") \/ FlushRecord("task")
  <2>1. TaskMoves({"expire"}, {"record"}) \/ TaskMoves({"record"}, {"sleep"})
    BY <1>0, <1>6 DEF FlushExpire, FlushRecord, TaskMoves
  <2> QED
    BY <2>1 DEF TaskMoves, StepsLeft
<1> QED
  BY <1>1, <1>2, <1>3, <1>4, <1>5, <1>6 DEF FlushStep

\* The loop, which looks at closed after each of its two sleeps.
LEMMA TaskAdvances ==
    ASSUME Types, closed, TaskStep
    PROVE  StepsLeft[pc'["task"]] < StepsLeft[pc["task"]]
<1>0. \A l : Goto("task", l) => pc'["task"] = l
  BY DEF Goto, Types, Threads
<1>1. CASE TaskWake
  <2>1. TaskMoves({"sleep"}, {"returned"})
    BY <1>0, <1>1 DEF TaskWake, TaskGoes, TaskMoves
  <2> QED
    BY <2>1 DEF TaskMoves, StepsLeft
<1>2. CASE TaskCheck
  <2>1. TaskMoves({"check"}, {"sleep", "amount", "height"})
    BY <1>0, <1>2 DEF TaskCheck, TaskGoes, TaskMoves
  <2> QED
    BY <2>1 DEF TaskMoves, StepsLeft
<1>3. CASE TaskHeight
  <2>1. TaskMoves({"height"}, {"sleep", "wait", "amount"})
    BY <1>0, <1>3 DEF TaskHeight, TaskGoes, TaskMoves
  <2> QED
    BY <2>1 DEF TaskMoves, StepsLeft
<1>4. CASE TaskWaited
  <2>1. TaskMoves({"wait"}, {"returned"})
    BY <1>0, <1>4 DEF TaskWaited, TaskGoes, TaskMoves
  <2> QED
    BY <2>1 DEF TaskMoves, StepsLeft
<1>5. CASE PanicAt("task", {"none", "payload", "clone", "clear"}
                            \cup (IF closed THEN {} ELSE {"sleep"}))
  <2>1. TaskMoves({"none", "payload", "clone", "clear"}, {"panicked"})
    BY <1>0, <1>5 DEF PanicAt, TaskMoves
  <2> QED
    BY <2>1 DEF TaskMoves, StepsLeft
<1> QED
  BY <1>1, <1>2, <1>3, <1>4, <1>5, TaskFlushAdvances DEF TaskStep

\* Nobody but the task moves the task.
LEMMA UserLeavesTheTask ==
    ASSUME Types, UserStep
    PROVE  pc'["task"] = pc["task"]
<1>0. \A l : Goto("user", l) => pc'["task"] = pc["task"]
  BY DEF Goto, Types, Threads
<1>1. CASE FlushStep("user")
  BY <1>0, <1>1
     DEF FlushStep, FlushAmount, FlushNone, FlushPayload, FlushSend, FlushFails, FlushSent,
         FlushClear, FlushExpire, FlushRecord
<1>2. CASE PanicAt("user", {"none", "payload", "clone", "clear", "accept"})
  BY <1>0, <1>2 DEF PanicAt
<1>3. CASE Close
  BY <1>3 DEF Close
<1>4. ASSUME NEW result, ClaimCheck(result) PROVE pc'["task"] = pc["task"]
  BY <1>0, <1>4 DEF ClaimCheck
<1> QED
  BY <1>0, <1>1, <1>2, <1>3, <1>4
     DEF UserStep, Flush, Claim, ClaimBalance, ClaimSwitch, ClaimReset, ClaimAccept,
         ClaimExpiration, ClaimTotal

\* Nothing opens a closed claimer again.
LEMMA ClosedForGood ==
    ASSUME closed, [Next]_vars
    PROVE  closed'
<1>1. ASSUME NEW t \in Threads, FlushStep(t) PROVE closed'
  BY <1>1 DEF FlushStep, FlushAmount, FlushNone, FlushPayload, FlushSend, FlushFails, FlushSent,
              FlushClear, FlushExpire, FlushRecord, callVars
<1>2. ASSUME NEW t, NEW labels, PanicAt(t, labels) PROVE closed'
  BY <1>2 DEF PanicAt, callVars
<1>3. CASE TaskWake \/ TaskCheck \/ TaskHeight \/ TaskWaited
  BY <1>3 DEF TaskWake, TaskCheck, TaskHeight, TaskWaited, TaskGoes, callVars
<1>4. ASSUME NEW result, ClaimCheck(result) PROVE closed'
  BY <1>4 DEF ClaimCheck, callVars
<1>5. CASE UserStep
  BY <1>1, <1>2, <1>4, <1>5
     DEF UserStep, Flush, Close, Claim, ClaimBalance, ClaimSwitch, ClaimReset, ClaimAccept,
         ClaimExpiration, ClaimTotal, callVars, Threads
<1>6. CASE Tick \/ (\E delta \in Deltas : IncreaseAmount(delta)) \/ UNCHANGED vars
  BY <1>6 DEF Tick, IncreaseAmount, vars, callVars
<1> QED
  BY <1>1, <1>2, <1>3, <1>5, <1>6 DEF Next, TaskStep, Threads

\* Whatever else goes on, the task of a closed claimer has at most twelve steps
\* left, and only its own steps use them up: with CloseEndsTheTask, which adds
\* that the task runs, close() ends it.
THEOREM CloseLeavesTwelveSteps == Spec => [][ClosedTaskAdvances]_vars
<1>1. IInv /\ [Next]_vars => [ClosedTaskAdvances]_vars
  <2> SUFFICES ASSUME IInv, Next, closed
               PROVE  /\ closed'
                      /\ TaskStep => StepsLeft[pc'["task"]] < StepsLeft[pc["task"]]
                      /\ pc'["task"] # pc["task"] => TaskStep
    BY DEF ClosedTaskAdvances
  <2>1. Types
    BY DEF IInv
  <2>2. closed'
    BY ClosedForGood
  <2>3. TaskStep => StepsLeft[pc'["task"]] < StepsLeft[pc["task"]]
    BY <2>1, TaskAdvances
  <2>4. pc'["task"] # pc["task"] => TaskStep
    BY <2>1, UserLeavesTheTask DEF Next, Tick, IncreaseAmount
  <2> QED
    BY <2>2, <2>3, <2>4
<1> QED
  BY <1>1, AlwaysIInv, PTL DEF Spec
=============================================================================
