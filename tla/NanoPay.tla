------------------------------ MODULE NanoPay ------------------------------
(***************************************************************************)
(* A payer (NanoPay), a payee (NanoPayClaimer) and the payee's flush task  *)
(* (src/src/nanopay.rs).                                                   *)
(*                                                                         *)
(* The claimer's methods take &mut self: the user makes one call at a      *)
(* time.  The task that new() spawns runs beside it, on another worker,    *)
(* and shares the fields behind mutexes: every lock that both of them take *)
(* starts a step.  The transactions are those increase_amount has made;    *)
(* they reach claim in any order, some lost, some repeated.                *)
(*                                                                         *)
(* Transaction::verify is a todo!() today (src/src/tx.rs:182): it panics.  *)
(* The model admits that and both results it is declared to return.        *)
(***************************************************************************)
EXTENDS Integers, Sequences, SequencesExt

CONSTANTS
    Deltas,        \* amounts added by increase_amount
    Balances,      \* balances get_balance may find
    MinFlush,      \* min_flush_amount
    Duration,      \* NanoPay::duration
    VerifyResults, \* outcomes of Transaction::verify
    MaxPayments,   \* bound: calls of increase_amount
    MaxHeight,     \* bound: the height of the chain
    MaxCalls       \* bound: calls of the claimer

ASSUME NanoPayAssumption ==
    /\ Deltas \subseteq Nat \ {0} /\ Balances \subseteq Nat
    /\ MinFlush \in Nat \ {0} /\ Duration \in Nat
    /\ VerifyResults \subseteq {"yes", "no", "todo"}
    /\ MaxPayments \in Nat /\ MaxHeight \in Nat \ {0} /\ MaxCalls \in Nat

SENDER_EXPIRATION_DELTA == 5
FORCE_FLUSH_DELTA == 2
RECEIVER_EXPIRATION_DELTA == 3

VARIABLES
    height,       \* of the chain
    payer,        \* id, amount and expiration of the NanoPay
    txs,          \* the transactions it has made
    id, amount, expiration, prev_claimed_amount, prev_flush_amount, closed,
    tx,           \* the place in txs of the transaction held, or 0
    poisoned,     \* the mutex of tx: a thread has panicked with it
    pc,           \* of the "user" and of the "task"
    np,           \* the payload flush_fn has read: its place in txs, or 0
    claim_height, \* the height claim has read
    force,        \* argument of the user's flush
    last, calls,  \* the last transaction given to claim; calls made
    accepted,     \* history: transactions that were claimed
    sent,         \* history: transactions the node has taken
    races         \* history: what flushes and claims have met

payerVars == <<payer, txs>>
moneyVars == <<id, amount, prev_claimed_amount, prev_flush_amount>>
txVars == <<tx, expiration, poisoned>>
callVars == <<claim_height, force, last, calls, closed>>
ghostVars == <<accepted, sent, races>>
vars == <<height, payerVars, moneyVars, txVars, pc, np, callVars, ghostVars>>

Threads == {"user", "task"}
Places == 0 .. MaxPayments
Tx == [id : Nat, amount : Nat, expiration : Nat]
FlushLabels == {"amount", "none", "payload", "clone", "sending", "clear", "expire", "record"}
TypeOK ==
    /\ height \in 1 .. MaxHeight
    /\ payer \in Tx /\ txs \in Seq(Tx) /\ Len(txs) <= MaxPayments
    /\ id \in Nat /\ amount \in Nat /\ expiration \in Nat
    /\ prev_claimed_amount \in Nat /\ prev_flush_amount \in Nat
    /\ closed \in BOOLEAN /\ poisoned \in BOOLEAN /\ force \in BOOLEAN
    /\ tx \in Places /\ np \in [Threads -> Places]
    /\ pc["user"] \in FlushLabels \cup
          {"idle", "height", "switch", "reset", "balance", "accept", "expiration",
           "total", "panicked"}
    /\ pc["task"] \in FlushLabels \cup
          {"sleep", "check", "height", "wait", "returned", "panicked"}
    /\ claim_height \in 0 .. MaxHeight /\ last \in Places /\ calls \in 0 .. MaxCalls
    /\ accepted \subseteq Places /\ sent \subseteq Places
    /\ races \subseteq {"claim", "flush", "record", "again"}

\* NanoPay::new draws an id, which the first increase_amount replaces;
\* NanoPayClaimer::new spawns the task.  An id of 0 is None.
Init ==
    /\ height = 1
    /\ payer = [id |-> 0, amount |-> 0, expiration |-> 0] /\ txs = <<>>
    /\ id = 0 /\ amount = 0 /\ expiration = 0
    /\ prev_claimed_amount = 0 /\ prev_flush_amount = 0
    /\ closed = FALSE /\ tx = 0 /\ poisoned = FALSE
    /\ pc = [t \in Threads |-> IF t = "user" THEN "idle" ELSE "sleep"]
    /\ np = [t \in Threads |-> 0]
    /\ claim_height = 0 /\ force = FALSE /\ last = 0 /\ calls = 0
    /\ accepted = {} /\ sent = {} /\ races = {}

Goto(t, label) == pc' = [pc EXCEPT ![t] = label]

\* The transaction given to claim, and those of one nano pay.
Claimed == txs[last]
Of(places, nano_pay) == {i \in places : txs[i].id = nano_pay}

\* A block is added to the chain.
Tick ==
    /\ height < MaxHeight
    /\ height' = height + 1
    /\ UNCHANGED <<payerVars, moneyVars, txVars, pc, np, callVars, ghostVars>>

-----------------------------------------------------------------------------
(* The payer *)

\* Whether a payment starts a new nano pay, with a new id: ids do not repeat.
Renew == payer.expiration = 0 \/ payer.expiration < height + SENDER_EXPIRATION_DELTA

Renewed ==
    IF Renew
    THEN [id |-> payer.id + 1, amount |-> 0,
          expiration |-> height + SENDER_EXPIRATION_DELTA]
    ELSE payer

\* increase_amount; if the height cannot be read it changes nothing.
IncreaseAmount(delta) ==
    /\ Len(txs) < MaxPayments
    /\ payer' = [Renewed EXCEPT !.amount = @ + delta]
    /\ txs' = Append(txs, payer')
    /\ UNCHANGED <<height, moneyVars, txVars, pc, np, callVars, ghostVars>>

-----------------------------------------------------------------------------
(* flush_fn, called by the task, by the user and by claim *)

\* A flush of the task overlaps one of the user, or a claim that stores its
\* transaction; or a flush takes prev_flush_amount from a transaction that is
\* not of the present nano pay; or claim takes up again a nano pay that was
\* claimed and left for another.
Storing == {"accept", "expiration", "total"}
Touches(t) == pc'[t] \in FlushLabels \ {"amount", "none"}
Records(t) == pc[t] = "record" /\ pc'[t] # "record"
Returns ==
    /\ pc["user"] = "accept" /\ pc'["user"] = "expiration"
    /\ id # Claimed.id /\ Of(accepted, Claimed.id) # {}
Overlap ==
    races' = races
        \cup (IF Touches("task") /\ Touches("user") THEN {"flush"} ELSE {})
        \cup (IF Touches("task") /\ pc'["user"] \in Storing \cup {"switch", "reset"}
              THEN {"claim"} ELSE {})
        \cup (IF \E t \in Threads : Records(t) /\ txs[np[t]].id # id
              THEN {"record"} ELSE {})
        \cup (IF Returns THEN {"again"} ELSE {})

\* Where the caller goes on: claim with a new id, the user, the task's loop.
AfterFlush(t) ==
    IF t = "task" THEN "sleep" ELSE IF claim_height > 0 THEN "switch" ELSE "idle"
AfterError(t) == IF t = "task" THEN "returned" ELSE "idle"

\* unwrap() of the lock of tx after a panic, and of tx when it is None.
PanicAt(t, labels) ==
    /\ pc[t] \in labels
    /\ poisoned \/ (tx = 0 /\ pc[t] \in {"payload", "clone"})
    /\ poisoned' = TRUE
    /\ Goto(t, "panicked")
    /\ Overlap
    /\ UNCHANGED <<height, payerVars, moneyVars, tx, expiration, np, callVars, accepted, sent>>

\* Variant: the amount has to be more than the least.
FlushAmountAtMost(t) ==
    /\ pc[t] = "amount"
    /\ Goto(t, IF ~(t = "user" /\ force) /\ amount - prev_flush_amount <= MinFlush
               THEN AfterFlush(t) ELSE "none")
    /\ Overlap
    /\ UNCHANGED <<height, payerVars, moneyVars, txVars, np, callVars, accepted, sent>>

FlushAmount(t) ==
    /\ pc[t] = "amount"
    /\ Goto(t, IF ~(t = "user" /\ force) /\ amount - prev_flush_amount < MinFlush
               THEN AfterFlush(t) ELSE "none")
    /\ Overlap
    /\ UNCHANGED <<height, payerVars, moneyVars, txVars, np, callVars, accepted, sent>>

\* Variant: a flush does not look whether there is a transaction.
FlushNoneUnchecked(t) ==
    /\ pc[t] = "none" /\ ~poisoned
    /\ Goto(t, "payload")
    /\ Overlap
    /\ UNCHANGED <<height, payerVars, moneyVars, txVars, np, callVars, accepted, sent>>

FlushNone(t) ==
    /\ pc[t] = "none" /\ ~poisoned
    /\ Goto(t, IF tx = 0 THEN AfterFlush(t) ELSE "payload")
    /\ Overlap
    /\ UNCHANGED <<height, payerVars, moneyVars, txVars, np, callVars, accepted, sent>>

FlushPayload(t) ==
    /\ pc[t] = "payload" /\ ~poisoned /\ tx # 0
    /\ np' = [np EXCEPT ![t] = tx]
    /\ Goto(t, "clone")
    /\ Overlap
    /\ UNCHANGED <<height, payerVars, moneyVars, txVars, callVars, accepted, sent>>

\* The transaction is read again and sent; the node may have taken it or not
\* when the call fails.
FlushSend(t) ==
    /\ pc[t] = "clone" /\ ~poisoned /\ tx # 0
    /\ Goto(t, "sending")
    /\ Overlap
    /\ sent' = sent \cup {tx}
    /\ UNCHANGED <<height, payerVars, moneyVars, txVars, np, callVars, accepted>>

FlushFails(t) ==
    /\ \/ pc[t] = "clone" /\ ~poisoned /\ tx # 0
       \/ pc[t] = "sending"
    /\ np' = [np EXCEPT ![t] = 0]
    /\ Goto(t, AfterError(t))
    /\ Overlap
    /\ UNCHANGED <<height, payerVars, moneyVars, txVars, callVars, accepted, sent>>

FlushSent(t) ==
    /\ pc[t] = "sending"
    /\ Goto(t, "clear")
    /\ Overlap
    /\ UNCHANGED <<height, payerVars, moneyVars, txVars, np, callVars, accepted, sent>>

\* tx, expiration and prev_flush_amount are written under a lock each.
FlushClear(t) ==
    /\ pc[t] = "clear" /\ ~poisoned
    /\ tx' = 0
    /\ Goto(t, "expire")
    /\ Overlap
    /\ UNCHANGED <<height, payerVars, moneyVars, expiration, poisoned, np, callVars, accepted, sent>>

FlushExpire(t) ==
    /\ pc[t] = "expire"
    /\ expiration' = 0
    /\ Goto(t, "record")
    /\ Overlap
    /\ UNCHANGED <<height, payerVars, moneyVars, tx, poisoned, np, callVars, accepted, sent>>

FlushRecord(t) ==
    /\ pc[t] = "record"
    /\ prev_flush_amount' = txs[np[t]].amount
    /\ np' = [np EXCEPT ![t] = 0]
    /\ Goto(t, AfterFlush(t))
    /\ Overlap
    /\ UNCHANGED <<height, payerVars, id, amount, prev_claimed_amount, txVars,
                   callVars, accepted, sent>>

FlushStep(t) ==
    \/ FlushAmount(t) \/ FlushNone(t) \/ FlushPayload(t) \/ FlushSend(t)
    \/ FlushFails(t) \/ FlushSent(t) \/ FlushClear(t) \/ FlushExpire(t) \/ FlushRecord(t)

-----------------------------------------------------------------------------
(* The task *)

TaskGoes(label) ==
    /\ Goto("task", label)
    /\ Overlap
    /\ UNCHANGED <<height, payerVars, moneyVars, txVars, np, callVars, accepted, sent>>

\* Variant: the task looks for a transaction before it looks at closed.
TaskWakeTxFirst ==
    /\ pc["task"] = "sleep" /\ ~poisoned
    /\ TaskGoes(IF tx = 0 THEN "sleep" ELSE IF closed THEN "returned" ELSE "check")

\* After its sleep of a minute.
TaskWake ==
    /\ pc["task"] = "sleep"
    /\ closed \/ ~poisoned
    /\ TaskGoes(IF closed THEN "returned" ELSE IF tx = 0 THEN "sleep" ELSE "check")

\* Enough has been claimed: the claim interval is over, or the height tells
\* how long to wait for it.
TaskCheck ==
    /\ pc["task"] = "check"
    /\ \/ amount - prev_flush_amount < MinFlush /\ TaskGoes("sleep")
       \/ amount - prev_flush_amount >= MinFlush /\ TaskGoes("amount")
       \/ amount - prev_flush_amount >= MinFlush /\ TaskGoes("height")

TaskHeight ==
    /\ pc["task"] = "height"
    /\ \/ TaskGoes("sleep")
       \/ TaskGoes(IF expiration > height + FORCE_FLUSH_DELTA THEN "wait" ELSE "amount")

TaskWaited ==
    /\ pc["task"] = "wait"
    /\ TaskGoes(IF closed THEN "returned" ELSE "amount")

TaskStep ==
    \/ TaskWake \/ TaskCheck \/ TaskHeight \/ TaskWaited
    \/ FlushStep("task")
    \/ PanicAt("task", {"none", "payload", "clone", "clear"}
                        \cup (IF closed THEN {} ELSE {"sleep"}))

-----------------------------------------------------------------------------
(* The user: claim, flush and close *)

Call == pc["user"] = "idle" /\ calls < MaxCalls /\ calls' = calls + 1

Flush(f) ==
    /\ Call
    /\ force' = f /\ claim_height' = 0
    /\ Goto("user", "amount")
    /\ Overlap
    /\ UNCHANGED <<height, payerVars, moneyVars, txVars, np, last, closed,
                   accepted, sent>>

Close ==
    /\ Call
    /\ closed' = TRUE
    /\ UNCHANGED <<height, payerVars, moneyVars, txVars, pc, np, claim_height, force, last,
                   ghostVars>>

\* claim has read the height; if that fails, or the payload is not a NanoPay
\* for this recipient, nothing has changed.
Claim(i) ==
    /\ Call
    /\ last' = i
    /\ claim_height' = height /\ force' = FALSE
    /\ Goto("user", "height")
    /\ Overlap
    /\ UNCHANGED <<height, payerVars, moneyVars, txVars, np, closed, accepted, sent>>

\* A transaction of the present nano pay has to raise the amount.
StaleClaim == id = Claimed.id /\ amount >= Claimed.amount

ClaimCheck(result) ==
    /\ pc["user"] = "height"
    /\ Goto("user",
            CASE result = "todo" -> "panicked"
              [] result = "no" \/ closed \/ (id # 0 /\ StaleClaim) -> "idle"
              [] result = "yes" /\ ~closed /\ id # 0 /\ id # Claimed.id -> "amount"
              [] OTHER -> "balance")
    /\ Overlap
    /\ UNCHANGED <<height, payerVars, moneyVars, txVars, np, callVars, accepted, sent>>

\* A new id, once the transaction held was flushed.
ClaimSwitch ==
    /\ pc["user"] = "switch"
    /\ id' = 0
    /\ prev_claimed_amount' = prev_claimed_amount + amount
    /\ prev_flush_amount' = 0
    /\ Goto("user", "reset")
    /\ Overlap
    /\ UNCHANGED <<height, payerVars, amount, txVars, np, callVars, accepted, sent>>

\* Variant: the amount of the nano pay before stays.
ClaimResetNot ==
    /\ pc["user"] = "reset"
    /\ Goto("user", "balance")
    /\ Overlap
    /\ UNCHANGED <<height, payerVars, moneyVars, txVars, np, callVars, accepted, sent>>

ClaimReset ==
    /\ pc["user"] = "reset"
    /\ amount' = 0
    /\ Goto("user", "balance")
    /\ Overlap
    /\ UNCHANGED <<height, payerVars, id, prev_claimed_amount, prev_flush_amount,
                   txVars, np, callVars, accepted, sent>>

\* The balance is known, or get_balance has failed.
ClaimBalance(balance) ==
    /\ pc["user"] = "balance"
    /\ Goto("user",
            IF \/ balance + prev_flush_amount < Claimed.amount
               \/ Claimed.expiration <= claim_height + RECEIVER_EXPIRATION_DELTA
               \/ Claimed.expiration + Duration <= claim_height + RECEIVER_EXPIRATION_DELTA
            THEN "idle" ELSE "accept")
    /\ Overlap
    /\ UNCHANGED <<height, payerVars, moneyVars, txVars, np, callVars, accepted, sent>>

ClaimAccept ==
    /\ pc["user"] = "accept" /\ ~poisoned
    /\ id' = Claimed.id /\ tx' = last
    /\ Goto("user", "expiration")
    /\ Overlap
    /\ UNCHANGED <<height, payerVars, amount, prev_claimed_amount, prev_flush_amount,
                   expiration, poisoned, np, callVars, accepted, sent>>

ClaimExpiration ==
    /\ pc["user"] = "expiration"
    /\ expiration' = Claimed.expiration
    /\ Goto("user", "total")
    /\ Overlap
    /\ UNCHANGED <<height, payerVars, moneyVars, tx, poisoned, np, callVars, accepted, sent>>

ClaimTotal ==
    /\ pc["user"] = "total"
    /\ amount' = Claimed.amount
    /\ accepted' = accepted \cup {last}
    /\ Goto("user", "idle")
    /\ Overlap
    /\ UNCHANGED <<height, payerVars, id, prev_claimed_amount, prev_flush_amount,
                   txVars, np, callVars, sent>>

UserStep ==
    \/ \E f \in BOOLEAN : Flush(f)
    \/ Close
    \/ \E i \in DOMAIN txs : Claim(i)
    \/ \E result \in VerifyResults : ClaimCheck(result)
    \/ \E balance \in Balances : ClaimBalance(balance)
    \/ ClaimSwitch \/ ClaimReset \/ ClaimAccept \/ ClaimExpiration \/ ClaimTotal
    \/ FlushStep("user")
    \/ PanicAt("user", {"none", "payload", "clone", "clear", "accept"})

-----------------------------------------------------------------------------
Next ==
    \/ Tick
    \/ \E delta \in Deltas : IncreaseAmount(delta)
    \/ TaskStep
    \/ UserStep

\* The task runs, its timers end and its calls are answered.
Spec == Init /\ [][Next]_vars /\ WF_vars(TaskStep)

-----------------------------------------------------------------------------
(* Properties *)

Greatest(places) == Max({0} \cup {txs[i].amount : i \in places})

\* Between calls, amount() is at least the sum, over the nano pays, of the most
\* that was claimed of each: switching to a new id, a failure half way through a
\* claim and transactions given late or twice lose nothing.  Nor is anything
\* counted twice, until claim takes a transaction of a nano pay it has left,
\* possibly by a claim that failed after the switch: its whole amount is then
\* added to what prev_claimed_amount has of that nano pay already.
Total(amounts) == FoldLeft(LAMBDA sum, a : sum + a, 0, amounts)
AmountIsWhatWasClaimed ==
    LET total == Total([n \in 1 .. payer.id |-> Greatest(Of(accepted, n))])
    IN  pc["user"] = "idle" =>
            /\ prev_claimed_amount + amount >= total
            /\ "again" \notin races => prev_claimed_amount + amount = total

\* Of a nano pay the claimer has moved on from, less than min_flush_amount is
\* never sent to the chain, provided that no claim wrote the shared fields
\* while the task was flushing, and that prev_flush_amount was never taken
\* from a transaction of another nano pay.  The second happens without any
\* overlap: a claim with a new id fails after the switch, flush(true) sends
\* the transaction still held, and its amount is set against the next id's.
LossIsBounded ==
    races \cap {"claim", "record"} = {} =>
        \A n \in 1 .. payer.id :
            n # id => Greatest(Of(accepted, n)) - Greatest(Of(sent, n)) < MinFlush

\* unwrap() in flush_fn finds a transaction, unless two flushes overlapped:
\* both see one, one of them clears it and the other panics.
PanicNeedsTwoFlushes == poisoned => "flush" \in races

\* close() ends the task.
CloseEndsTheTask == closed ~> pc["task"] \in {"returned", "panicked"}
=============================================================================
