------------------------------ MODULE DddAsync ------------------------------
(***************************************************************************)
(* The DdD's asynchronous USB queue: one gui_ddd_async_run on the capture  *)
(* thread (input/gui_ddd_async.c, input/gui_ddd_async.h).  A fixed set of  *)
(* bulk transfers is kept in flight; USB gives them back in any order, the *)
(* thread consumes them in submission order and resubmits each.  A stop    *)
(* drains the queue, a failure cancels it, both against a deadline, and    *)
(* what USB still holds at the deadline is left to an orphan.              *)
(*                                                                         *)
(* Callbacks run only inside the thread's own event pump, so a step is     *)
(* what the thread does between two reads of ddd_running or of the clock.  *)
(* The words and totals of the FIFO instrument are left out.               *)
(***************************************************************************)
EXTENDS Integers, FiniteSets, Sequences

CONSTANTS
    QueueLength,   \* GUI_DDD_ASYNC_TRANSFER_COUNT
    Discard,       \* blocks dropped at start-up (DDD_V1_STARTUP_DISCARD_BYTES)
    MaxFailures,   \* GUI_DDD_ASYNC_TELEMETRY_MAX_FAILURES
    MaxBlocks      \* bound: blocks USB fills in one run

ASSUME DddAssumption ==
    /\ QueueLength \in Nat \ {0}
    /\ {Discard, MaxFailures, MaxBlocks} \subseteq Nat

VARIABLES
    running,    \* app->ddd_running
    eng,        \* the engine: its fields, the thread's place and locals
    late,       \* the clock has passed the drain and the reap deadline
    delivered   \* history: the blocks handed to the consumer

vars == <<running, eng, late, delivered>>

Slots == 0 .. QueueLength - 1
Telemetry == QueueLength   \* the telemetry transfer, among what USB holds

OnTime == [stop |-> FALSE, reap |-> FALSE]

(* A zeroed engine with its transfers allocated.                           *)
Fresh ==
    [pc |-> "submit", run |-> TRUE, due |-> OnTime, held |-> {}, storage |-> "owned",
     slots |-> [i \in Slots |-> [id |-> 0, state |-> "unused", cancel |-> FALSE, data |-> -1]],
     polling |-> FALSE, pollCancel |-> FALSE, pollFailures |-> 0,
     nextId |-> 0, inFlight |-> 0, completed |-> 0, consumed |-> 0,
     accepting |-> TRUE, stopping |-> FALSE, cancelIssued |-> FALSE, code |-> "success",
     ready |-> FALSE, signalled |-> FALSE, startupFailed |-> FALSE, synced |-> FALSE]

-----------------------------------------------------------------------------
(* What the engine's functions do to it.                                   *)

Goto(e, pc) == [e EXCEPT !.pc = pc]

Failed(e) == e.code # "success"

Latch(e, code) ==
    IF Failed(e) THEN e
    ELSE [e EXCEPT !.code = code, !.accepting = FALSE, !.ready = FALSE, !.startupFailed = TRUE]

(* libusb takes the transfer, or refuses it.                               *)
Submitted(e, i) ==
    [e EXCEPT !.slots[i] = [id |-> e.nextId, state |-> "submitted", cancel |-> FALSE, data |-> -1],
              !.nextId = @ + 1, !.inFlight = @ + 1, !.held = @ \cup {i}]

Refused_Fault(e, i) ==
    Latch([e EXCEPT !.slots[i] = [@ EXCEPT !.id = e.nextId, !.state = "failed"],
                    !.nextId = @ + 1, !.inFlight = @ + 1], "submit")

Refused(e, i) ==
    Latch([e EXCEPT !.slots[i] = [@ EXCEPT !.id = e.nextId, !.state = "failed"],
                    !.nextId = @ + 1], "submit")

CancelTelemetry(e) == [e EXCEPT !.pollCancel = @ \/ e.polling]

CancelTransfer(slot) == [slot EXCEPT !.cancel = @ \/ slot.state = "submitted"]

CancelInFlight(e) ==
    IF e.cancelIssued THEN e
    ELSE [CancelTelemetry(e) EXCEPT
            !.cancelIssued = TRUE, !.accepting = FALSE,
            !.slots = [i \in Slots |-> CancelTransfer(e.slots[i])]]

(* A refused request and an unreadable answer count alike.                 *)
PollFailed(e) == [e EXCEPT !.pollFailures = @ + 1]

(* maybe_submit_telemetry: not due, submitted or refused.                  *)
Poll(e) ==
    IF Failed(e) \/ e.polling \/ e.pollFailures >= MaxFailures THEN {e}
    ELSE {e, PollFailed(e),
          [e EXCEPT !.polling = TRUE, !.pollCancel = FALSE, !.held = @ \cup {Telemetry}]}

InFlightTotal(e) == e.inFlight + (IF e.polling THEN 1 ELSE 0)

DrainComplete_Fault(e, capturing) == ~capturing /\ e.inFlight = 0

DrainComplete(e, capturing) ==
    ~capturing /\ e.inFlight = 0 /\ e.completed = e.consumed

NextSlot(e) == e.consumed % QueueLength

Peek_Fault(e) ==
    LET slot == e.slots[NextSlot(e)]
    IN  IF slot.id # e.consumed THEN "stale"
        ELSE IF slot.state \in {"complete", "submitted"} THEN "ready" ELSE "wait"

(* next_consume_id advances with consumed_transfers.                       *)
Peek(e) ==
    LET slot == e.slots[NextSlot(e)]
    IN  IF slot.id # e.consumed THEN "stale"
        ELSE IF slot.state = "complete" THEN "ready" ELSE "wait"

HasPending_Fault(e) == e.inFlight > 0

HasPending(e) == InFlightTotal(e) > 0

(* The end of run: everything is freed, or the queue becomes an orphan.    *)
Return(e) ==
    [e EXCEPT !.pc = "returned", !.ready = FALSE,
              !.storage = IF HasPending(e) THEN "orphan" ELSE "freed"]

-----------------------------------------------------------------------------
(* The capture thread.                                                     *)

Step(pc) == eng.pc = pc /\ UNCHANGED late

Silent == UNCHANGED <<running, delivered>>

SubmitInitial ==
    /\ Step("submit") /\ Silent
    /\ IF eng.nextId < QueueLength /\ ~Failed(eng)
       THEN eng' \in {Submitted(eng, eng.nextId), Refused(eng, eng.nextId)}
       ELSE eng' = Goto(IF Failed(eng) THEN CancelInFlight(eng)
                        ELSE [eng EXCEPT !.ready = TRUE, !.signalled = TRUE], "top")

(* Out of memory: nothing was submitted.                                   *)
AllocationFails ==
    /\ Step("submit") /\ Silent
    /\ eng = Fresh
    /\ eng' = Return(Latch(eng, "allocation"))

(* The top of the loop reads ddd_running and the clock once.               *)
LoopTop ==
    /\ Step("top") /\ Silent
    /\ LET seen == [eng EXCEPT !.run = running, !.due = late, !.stopping = @ \/ ~running,
                               !.accepting = @ /\ running,
                               !.pc = IF Failed(eng) THEN "decide" ELSE "consume"]
       IN  eng' \in IF running THEN Poll(seen)
                    ELSE {IF eng.stopping THEN seen ELSE CancelTelemetry(seen)}

(* consume_ready reads ddd_running again, for each block.                  *)
NothingReady ==
    /\ Step("consume") /\ Silent
    /\ DrainComplete(eng, running) \/ Peek(eng) = "wait"
    /\ eng' = Goto(eng, "decide")

OrderLost ==
    /\ Step("consume") /\ Silent
    /\ ~DrainComplete(eng, running) /\ Peek(eng) = "stale"
    /\ eng' = Goto(CancelInFlight(Latch(eng, "order")), "decide")

ConsumeBlock ==
    LET i == NextSlot(eng)
    IN  /\ Step("consume")
        /\ ~DrainComplete(eng, running) /\ Peek(eng) = "ready"
        /\ delivered' = Append(delivered, eng.slots[i].data)
        /\ eng' = [eng EXCEPT !.slots[i].state = "retired", !.consumed = @ + 1,
                              !.synced = @ \/ eng.consumed >= Discard, !.pc = "resubmit"]
        /\ UNCHANGED running

(* A sequence error or a full ring (ddd_v1_consume, ddd_v1_fail).          *)
RejectBlock ==
    /\ Step("consume")
    /\ ~DrainComplete(eng, running) /\ Peek(eng) = "ready"
    /\ eng.consumed >= Discard
    /\ running' = FALSE
    /\ eng' = [CancelInFlight(Latch(eng, "consumer")) EXCEPT
                 !.slots[NextSlot(eng)].state = "failed", !.synced = FALSE, !.pc = "decide"]
    /\ UNCHANGED delivered

Resubmit ==
    LET i == (eng.consumed - 1) % QueueLength
    IN  /\ Step("resubmit") /\ Silent
        /\ IF eng.accepting /\ running /\ ~Failed(eng)
           THEN eng' \in {Goto(Submitted(eng, i), "consume"),
                          Goto(CancelInFlight(Refused(eng, i)), "decide")}
           ELSE eng' = Goto(eng, "consume")

(* The rest of the iteration uses what its top read.                       *)
Decide ==
    LET timedOut == ~Failed(eng) /\ eng.stopping /\ HasPending(eng) /\ eng.due.stop
        e == IF Failed(eng) \/ timedOut THEN CancelInFlight(Latch(eng, "drain_timeout")) ELSE eng
    IN  /\ Step("decide") /\ Silent
        /\ eng' = IF \/ Failed(e) /\ InFlightTotal(e) = 0
                     \/ ~Failed(e) /\ DrainComplete(e, e.run) /\ ~e.polling
                     \/ e.cancelIssued /\ e.due.reap
                  THEN Return(e)
                  ELSE IF ~Failed(e) /\ e.run /\ e.inFlight = 0
                  THEN Goto(CancelInFlight(Latch(e, "order")), "top")
                  ELSE Goto(e, "pump")

(* A transfer comes back: full, cut short or in error, or cancelled.       *)
TransferCallback(i, status) ==
    LET slot == eng.slots[i]
        back == [eng EXCEPT
                   !.slots[i] = [@ EXCEPT !.state = status,
                                          !.data = IF status = "complete" THEN slot.id ELSE -1],
                   !.completed = @ + 1, !.inFlight = @ - 1, !.held = @ \ {i}]
    IN  /\ Step("pump") /\ Silent
        /\ i \in eng.held
        /\ status = "complete" => eng.completed < MaxBlocks
        /\ status = "cancelled" => slot.cancel
        /\ eng' = IF status = "failed" THEN Latch(back, "transfer") ELSE back

(* A cancelled reading is no failure.                                      *)
TelemetryCallback ==
    LET back == [eng EXCEPT !.polling = FALSE, !.held = @ \ {Telemetry}]
    IN  /\ Step("pump") /\ Silent
        /\ Telemetry \in eng.held
        /\ eng' \in {back, PollFailed(back)}

EndPump ==
    /\ Step("pump") /\ Silent
    /\ eng' \in {Goto(eng, "top"), Goto(CancelInFlight(Latch(eng, "event")), "top")}

EndThread_Fault ==
    /\ Step("returned") /\ Silent
    /\ eng' = Goto(eng, "ended")

(* Back in ddd_v1_capture_thread: a failure after the queue was ready      *)
(* clears ddd_running.                                                     *)
EndThread ==
    /\ Step("returned")
    /\ eng' = Goto(eng, "ended")
    /\ running' = (running /\ ~(Failed(eng) /\ eng.code # "consumer" /\ eng.signalled))
    /\ UNCHANGED delivered

(* The two deadlines, each set when the stop or the cancellation starts.   *)
DeadlinePasses ==
    /\ late' \in {[late EXCEPT !.stop = TRUE], [late EXCEPT !.reap = TRUE]}
    /\ late'.stop => eng.stopping
    /\ late'.reap => eng.cancelIssued
    /\ UNCHANGED <<running, eng, delivered>>

Callback ==
    \/ \E i \in Slots, status \in {"complete", "failed", "cancelled"} : TransferCallback(i, status)
    \/ TelemetryCallback

Thread ==
    \/ SubmitInitial \/ AllocationFails \/ LoopTop
    \/ NothingReady \/ OrderLost \/ ConsumeBlock \/ RejectBlock \/ Resubmit
    \/ Decide \/ EndPump \/ EndThread

EngineNext == Thread \/ Callback \/ DeadlinePasses

=============================================================================
