------------------------------ MODULE DddProofs ------------------------------
(***************************************************************************)
(* Proofs about DddCapture and DddAsync: the order in which blocks reach   *)
(* the consumer, what a successful run has consumed, what is freed, and    *)
(* when a capture is opened, for a queue of any length, any start-up       *)
(* discard and any number of blocks.                                       *)
(***************************************************************************)
EXTENDS DddCapture, TLAPS, FiniteSetTheorems

Places ==
    {"submit", "top", "consume", "resubmit", "decide", "pump", "returned", "ended"}

Codes ==
    {"success", "submit", "allocation", "order", "consumer", "drain_timeout", "transfer", "event"}

States == {"unused", "submitted", "failed", "complete", "cancelled", "retired"}

Transfers == [id : Nat, state : States, cancel : BOOLEAN, data : Int]

Engines ==
    [pc : Places, run : BOOLEAN, due : [stop : BOOLEAN, reap : BOOLEAN],
     held : SUBSET (Slots \cup {Telemetry}), storage : {"owned", "freed", "orphan"},
     slots : [Slots -> Transfers],
     polling : BOOLEAN, pollCancel : BOOLEAN, pollFailures : Nat,
     nextId : Nat, inFlight : Int, completed : Nat, consumed : Nat,
     accepting : BOOLEAN, stopping : BOOLEAN, cancelIssued : BOOLEAN, code : Codes,
     ready : BOOLEAN, signalled : BOOLEAN, startupFailed : BOOLEAN, synced : BOOLEAN]

(* What USB holds is what the engine has counted and marked; a filled      *)
(* transfer carries the block of its id; unless the run has failed every   *)
(* id is in flight or completed.                                           *)
Books(e) ==
    /\ e \in Engines
    /\ e.inFlight = Cardinality(e.held \cap Slots)
    /\ e.polling = (Telemetry \in e.held)
    /\ \A i \in Slots : (e.slots[i].state = "submitted") = (i \in e.held)
    /\ \A i \in Slots : e.slots[i].state = "complete" => e.slots[i].data = e.slots[i].id
    /\ ~Failed(e) => e.nextId = e.inFlight + e.completed
    /\ e.cancelIssued => Failed(e)

(* What the thread's place says: the slot it is about to submit is not in  *)
(* flight, and what the end of a run found.                                *)
Placed(e) ==
    /\ e.pc = "submit" => \A i \in Slots : i >= e.nextId => e.slots[i].state = "unused"
    /\ e.pc = "resubmit" =>
         /\ e.consumed > 0
         /\ e.slots[(e.consumed - 1) % QueueLength].state = "retired"
    /\ e.storage = "freed" =>
         /\ e.pc \in {"returned", "ended"}
         /\ e.held = {}
         /\ ~Failed(e) => ~e.run /\ e.consumed = e.nextId
    /\ e.pc \in {"returned", "ended"} /\ e.storage = "owned" => e.held = {}

(* The consumer has been handed the blocks counted; what the thread read   *)
(* of a stop is still true.                                                *)
Handed ==
    /\ running \in BOOLEAN /\ late \in [stop : BOOLEAN, reap : BOOLEAN]
    /\ delivered \in Seq(Int)
    /\ Len(delivered) = eng.consumed
    /\ \A n \in 1 .. Len(delivered) : delivered[n] = n - 1
    /\ ~eng.run => ~running

(* Between captures the queue is at rest, an orphan is known, and a device *)
(* that may be collecting is locked until it is seen unplugged.            *)
AtRest ==
    /\ quarantined \in BOOLEAN
    /\ lock \in {"none", "disappear", "reappear"}
    /\ device \in [present : BOOLEAN, collecting : BOOLEAN]
    /\ phase \in {"closed", "open", "closing"} => eng.pc = "ended"
    /\ phase \in {"closed", "open"} /\ eng.storage = "orphan" => quarantined
    /\ device.collecting => device.present
    /\ phase \in {"closed", "open", "closing"} /\ device.collecting => lock = "disappear"

IInv == Books(eng) /\ Placed(eng) /\ Handed /\ AtRest

-----------------------------------------------------------------------------
(* What the engine's functions do to the books.                            *)
LEMMA SlotsFinite ==
    /\ IsFiniteSet(Slots)
    /\ Telemetry \notin Slots
    /\ \A S : IsFiniteSet(S \cap Slots) /\ Cardinality(S \cap Slots) \in Nat
<1>1. QueueLength \in Nat
    BY DddAssumption
<1>2. IsFiniteSet(Slots)
    BY <1>1, FS_Interval DEF Slots
<1>3. Telemetry \notin Slots
    BY <1>1 DEF Telemetry, Slots
<1>4. ASSUME NEW S PROVE IsFiniteSet(S \cap Slots) /\ Cardinality(S \cap Slots) \in Nat
    <2>1. S \cap Slots \subseteq Slots
        OBVIOUS
    <2>2. IsFiniteSet(S \cap Slots)
        BY <1>2, <2>1, FS_Subset, Zenon
    <2> QED
        BY <2>2, FS_CardinalityType
<1> QED
    BY <1>2, <1>3, <1>4

(* gui_ddd_async_latch_failure keeps the first error and moves nothing.    *)
LEMMA LatchKeeps ==
    ASSUME NEW e, Books(e), NEW code \in Codes \ {"success"}
    PROVE  /\ Books(Latch(e, code)) /\ Failed(Latch(e, code))
           /\ Latch(e, code).pc = e.pc /\ Latch(e, code).run = e.run
           /\ Latch(e, code).storage = e.storage /\ Latch(e, code).held = e.held
           /\ Latch(e, code).slots = e.slots /\ Latch(e, code).consumed = e.consumed
           /\ Latch(e, code).nextId = e.nextId
<1> DEFINE f == Latch(e, code)
<1>1. e \in Engines
    BY DEF Books
<1>2. f \in Engines
    <2>1. code \in Codes
        OBVIOUS
    <2> HIDE DEF f
    <2>2. f = e \/ f = [e EXCEPT !.code = code, !.accepting = FALSE, !.ready = FALSE,
                                !.startupFailed = TRUE]
        BY DEF f, Latch
    <2>3. [e EXCEPT !.code = code, !.accepting = FALSE, !.ready = FALSE,
                    !.startupFailed = TRUE] \in Engines
        BY <1>1, <2>1 DEF Engines
    <2> QED
        BY <1>1, <2>2, <2>3
<1>3. /\ f.pc = e.pc /\ f.run = e.run /\ f.storage = e.storage /\ f.held = e.held
      /\ f.slots = e.slots /\ f.consumed = e.consumed /\ f.nextId = e.nextId
      /\ f.inFlight = e.inFlight /\ f.polling = e.polling
      /\ f.cancelIssued = e.cancelIssued /\ f.completed = e.completed
      /\ Failed(f)
    BY <1>1 DEF Latch, Engines, Codes, Failed
<1> HIDE DEF f
<1>4. Books(f)
    BY <1>2, <1>3 DEF Books
<1> QED
    BY <1>3, <1>4 DEF f

(* gui_ddd_async_cancel_in_flight marks transfers, after a failure only.   *)
LEMMA CancelKeeps ==
    ASSUME NEW e, Books(e), Failed(e)
    PROVE  /\ Books(CancelInFlight(e)) /\ Failed(CancelInFlight(e))
           /\ CancelInFlight(e).pc = e.pc /\ CancelInFlight(e).run = e.run
           /\ CancelInFlight(e).storage = e.storage /\ CancelInFlight(e).held = e.held
           /\ CancelInFlight(e).consumed = e.consumed
           /\ CancelInFlight(e).nextId = e.nextId
           /\ \A i \in Slots : CancelInFlight(e).slots[i].state = e.slots[i].state
<1> DEFINE f == CancelInFlight(e)
           s == [i \in Slots |-> CancelTransfer(e.slots[i])]
           b == (e.pollCancel \/ e.polling)
           g == [e EXCEPT !.pollCancel = b, !.cancelIssued = TRUE, !.accepting = FALSE, !.slots = s]
<1>1. e \in Engines
    BY DEF Books
<1>2. \A i \in Slots : e.slots[i] \in Transfers
    BY <1>1 DEF Engines
<1>3. ASSUME NEW i \in Slots
      PROVE  /\ s[i] \in Transfers /\ s[i].state = e.slots[i].state
             /\ s[i].id = e.slots[i].id /\ s[i].data = e.slots[i].data
    <2> DEFINE t == e.slots[i]
               c == (t.cancel \/ t.state = "submitted")
    <2>1. t \in Transfers /\ s[i] = [t EXCEPT !.cancel = c]
        BY <1>2 DEF CancelTransfer
    <2>2. c \in BOOLEAN
        BY <2>1 DEF Transfers
    <2> HIDE DEF t, c
    <2>3. [t EXCEPT !.cancel = c] \in Transfers
        BY <2>1, <2>2 DEF Transfers
    <2>4. /\ [t EXCEPT !.cancel = c].state = t.state /\ [t EXCEPT !.cancel = c].id = t.id
          /\ [t EXCEPT !.cancel = c].data = t.data
        BY <2>1 DEF Transfers
    <2> QED
        BY <2>1, <2>3, <2>4 DEF t
<1>4. b \in BOOLEAN
    BY <1>1 DEF Engines
<1>11. s \in [Slots -> Transfers]
    BY <1>3
<1>5. f = e \/ f = g
    BY DEF CancelInFlight, CancelTelemetry
<1> HIDE DEF s, b, f
<1>6. f \in Engines
    <2>1. g \in Engines
        BY <1>1, <1>4, <1>11 DEF Engines
    <2> QED
        BY <1>1, <1>5, <2>1
<1>7. /\ f.pc = e.pc /\ f.run = e.run /\ f.storage = e.storage /\ f.held = e.held
      /\ f.consumed = e.consumed /\ f.nextId = e.nextId
      /\ f.inFlight = e.inFlight /\ f.polling = e.polling /\ f.completed = e.completed
      /\ f.code = e.code
    BY <1>1, <1>5 DEF Engines
<1>8. f.slots = e.slots \/ f.slots = s
    BY <1>1, <1>5 DEF Engines
<1>9. \A i \in Slots : f.slots[i].state = e.slots[i].state /\ f.slots[i].id = e.slots[i].id
                       /\ f.slots[i].data = e.slots[i].data
    BY <1>3, <1>8
<1>10. Books(f) /\ Failed(f)
    BY <1>6, <1>7, <1>9 DEF Books, Failed
<1> QED
    BY <1>7, <1>9, <1>10 DEF f

LEMMA GotoKeeps ==
    ASSUME NEW e, Books(e), NEW pc \in Places
    PROVE  /\ Books(Goto(e, pc)) /\ Goto(e, pc).pc = pc /\ Goto(e, pc).run = e.run
           /\ Goto(e, pc).storage = e.storage /\ Goto(e, pc).held = e.held
           /\ Goto(e, pc).slots = e.slots /\ Goto(e, pc).consumed = e.consumed
           /\ Goto(e, pc).nextId = e.nextId /\ (Failed(Goto(e, pc)) <=> Failed(e))
<1> DEFINE f == Goto(e, pc)
<1>1. e \in Engines
    BY DEF Books
<1>2. f \in Engines
    BY <1>1 DEF Goto, Engines
<1>3. /\ f.pc = pc /\ f.run = e.run /\ f.storage = e.storage /\ f.held = e.held
      /\ f.slots = e.slots /\ f.consumed = e.consumed /\ f.nextId = e.nextId
      /\ f.inFlight = e.inFlight /\ f.polling = e.polling
      /\ f.cancelIssued = e.cancelIssued /\ f.completed = e.completed /\ f.code = e.code
    BY <1>1 DEF Goto, Engines
<1> HIDE DEF f
<1>4. Books(f) /\ (Failed(f) <=> Failed(e))
    BY <1>2, <1>3 DEF Books, Failed
<1> QED
    BY <1>3, <1>4 DEF f

(* libusb takes a transfer that it does not hold.                          *)
LEMMA SubmittedKeeps ==
    ASSUME NEW e, Books(e), NEW i \in Slots, e.slots[i].state # "submitted"
    PROVE  /\ Books(Submitted(e, i)) /\ Submitted(e, i).pc = e.pc
           /\ Submitted(e, i).run = e.run /\ Submitted(e, i).storage = e.storage
           /\ Submitted(e, i).consumed = e.consumed
           /\ Submitted(e, i).nextId = e.nextId + 1
           /\ \A j \in Slots : j # i => Submitted(e, i).slots[j] = e.slots[j]
<1> DEFINE f == Submitted(e, i)
           t == [id |-> e.nextId, state |-> "submitted", cancel |-> FALSE, data |-> -1]
           s == [e.slots EXCEPT ![i] = t]
           h == e.held \cup {i}
<1>1. e \in Engines
    BY DEF Books
<1>2. t \in Transfers
    BY <1>1 DEF Engines, Transfers, States
<1>3. s \in [Slots -> Transfers] /\ s[i] = t /\ \A j \in Slots : j # i => s[j] = e.slots[j]
    BY <1>1, <1>2 DEF Engines
<1>4. f = [e EXCEPT !.slots = s, !.nextId = e.nextId + 1, !.inFlight = e.inFlight + 1, !.held = h]
    BY <1>1 DEF Submitted, Engines
<1>5. i \notin e.held /\ h \subseteq Slots \cup {Telemetry}
    BY <1>1 DEF Books, Engines
<1>6. Cardinality(h \cap Slots) = Cardinality(e.held \cap Slots) + 1
    <2>1. h \cap Slots = (e.held \cap Slots) \cup {i}
        OBVIOUS
    <2> QED
        BY <1>5, <2>1, SlotsFinite, FS_AddElement
<1>7. t.id = e.nextId /\ t.state = "submitted"
    OBVIOUS
<1>8. (Telemetry \in h) = (Telemetry \in e.held)
    BY SlotsFinite
<1>9. \A j \in Slots : j \in h <=> j \in e.held \/ j = i
    OBVIOUS
<1> HIDE DEF s, t, h
<1>10. f \in Engines
    <2>1. h \in SUBSET (Slots \cup {Telemetry})
        BY <1>5
    <2>2. e.nextId + 1 \in Nat /\ e.inFlight + 1 \in Int
        BY <1>1 DEF Engines
    <2> HIDE DEF f
    <2> QED
        BY <1>1, <1>3, <1>4, <2>1, <2>2 DEF Engines
<1>11. /\ f.pc = e.pc /\ f.run = e.run /\ f.storage = e.storage /\ f.held = h
      /\ f.slots = s /\ f.consumed = e.consumed /\ f.nextId = e.nextId + 1
      /\ f.inFlight = e.inFlight + 1 /\ f.polling = e.polling
      /\ f.cancelIssued = e.cancelIssued /\ f.completed = e.completed /\ f.code = e.code
    BY <1>1, <1>4 DEF Engines
<1>12. e.inFlight \in Int /\ e.nextId \in Nat /\ e.completed \in Nat
    BY <1>1 DEF Engines
<1> HIDE DEF f
<1>13. Books(f)
    BY <1>3, <1>6, <1>7, <1>8, <1>9, <1>10, <1>11, <1>12 DEF Books, Failed
<1> QED
    BY <1>3, <1>11, <1>13 DEF f

(* libusb refuses a transfer that it does not hold: the run has failed.    *)
LEMMA RefusedKeeps ==
    ASSUME NEW e, Books(e), NEW i \in Slots, e.slots[i].state # "submitted", ~Failed(e)
    PROVE  /\ Books(Refused(e, i)) /\ Failed(Refused(e, i)) /\ Refused(e, i).pc = e.pc
           /\ Refused(e, i).run = e.run /\ Refused(e, i).storage = e.storage
           /\ Refused(e, i).consumed = e.consumed /\ Refused(e, i).held = e.held
           /\ Refused(e, i).nextId = e.nextId + 1
           /\ \A j \in Slots : j # i => Refused(e, i).slots[j] = e.slots[j]
<1> DEFINE f == Refused(e, i)
           t == [e.slots[i] EXCEPT !.id = e.nextId, !.state = "failed"]
           s == [e.slots EXCEPT ![i] = t]
<1>1. e \in Engines
    BY DEF Books
<1>2. t \in Transfers /\ t.state = "failed"
    <2>1. e.slots[i] \in Transfers /\ e.nextId \in Nat
        BY <1>1 DEF Engines
    <2>2. "failed" \in States
        BY DEF States
    <2> QED
        BY <2>1, <2>2 DEF Transfers
<1>3. s \in [Slots -> Transfers] /\ s[i] = t /\ \A j \in Slots : j # i => s[j] = e.slots[j]
    BY <1>1, <1>2 DEF Engines
<1>4. f = [e EXCEPT !.slots = s, !.nextId = e.nextId + 1, !.code = "submit",
                    !.accepting = FALSE, !.ready = FALSE, !.startupFailed = TRUE]
    BY <1>1 DEF Refused, Latch, Failed, Engines
<1>5. i \notin e.held
    BY <1>1 DEF Books, Engines
<1> HIDE DEF s, t
<1>6. f \in Engines
    <2>1. "submit" \in Codes /\ e.nextId + 1 \in Nat
        BY <1>1 DEF Engines, Codes
    <2> HIDE DEF f
    <2> QED
        BY ZenonT(30), <1>1, <1>3, <1>4, <2>1 DEF Engines
<1>7. /\ f.pc = e.pc /\ f.run = e.run /\ f.storage = e.storage /\ f.held = e.held
      /\ f.slots = s /\ f.consumed = e.consumed /\ f.nextId = e.nextId + 1
      /\ f.inFlight = e.inFlight /\ f.polling = e.polling
      /\ f.cancelIssued = e.cancelIssued /\ f.completed = e.completed /\ f.code = "submit"
    BY <1>1, <1>4 DEF Engines
<1> HIDE DEF f
<1>8. Books(f) /\ Failed(f)
    BY <1>2, <1>3, <1>5, <1>6, <1>7 DEF Books, Failed
<1> QED
    BY <1>3, <1>7, <1>8 DEF f

(* A change of what the books do not mention.                              *)
LEMMA BooksAside ==
    ASSUME NEW e, Books(e), NEW f \in Engines,
           f.held = e.held, f.slots = e.slots, f.inFlight = e.inFlight,
           f.polling = e.polling, f.nextId = e.nextId, f.completed = e.completed,
           f.code = e.code, f.cancelIssued = e.cancelIssued
    PROVE  Books(f) /\ (Failed(f) <=> Failed(e))
BY DEF Books, Failed

(* gui_ddd_async_maybe_submit_telemetry: one reading in flight at most.    *)
LEMMA PollKeeps ==
    ASSUME NEW e, Books(e), NEW f \in Poll(e)
    PROVE  Books(f) /\ f.pc = e.pc /\ f.run = e.run /\ f.storage = e.storage
           /\ f.consumed = e.consumed
<1> DEFINE h == e.held \cup {Telemetry}
           a == [e EXCEPT !.pollFailures = @ + 1]
           b == [e EXCEPT !.polling = TRUE, !.pollCancel = FALSE, !.held = h]
<1>1. e \in Engines
    BY DEF Books
<1>2. f = e \/ f = a \/ (~e.polling /\ f = b)
    BY DEF Poll, PollFailed
<1>3. CASE f = a
    <2>1. a \in Engines
        BY <1>1 DEF Engines
    <2>2. /\ a.pc = e.pc /\ a.run = e.run /\ a.storage = e.storage /\ a.held = e.held
          /\ a.slots = e.slots /\ a.consumed = e.consumed /\ a.nextId = e.nextId
          /\ a.inFlight = e.inFlight /\ a.polling = e.polling
          /\ a.cancelIssued = e.cancelIssued /\ a.completed = e.completed /\ a.code = e.code
        BY <1>1 DEF Engines
    <2> HIDE DEF a
    <2> QED
        BY <1>3, <2>1, <2>2, BooksAside
<1>4. CASE ~e.polling /\ f = b
    <2>1. h \in SUBSET (Slots \cup {Telemetry})
        BY <1>1 DEF Engines
    <2>2. h \cap Slots = e.held \cap Slots /\ Telemetry \in h
        BY SlotsFinite
    <2>3. \A i \in Slots : i \in h <=> i \in e.held
        BY SlotsFinite
    <2> HIDE DEF h
    <2>4. b \in Engines
        BY <1>1, <2>1 DEF Engines
    <2>5. /\ b.pc = e.pc /\ b.run = e.run /\ b.storage = e.storage /\ b.held = h
          /\ b.slots = e.slots /\ b.consumed = e.consumed /\ b.nextId = e.nextId
          /\ b.inFlight = e.inFlight /\ b.polling = TRUE
          /\ b.cancelIssued = e.cancelIssued /\ b.completed = e.completed /\ b.code = e.code
        BY <1>1 DEF Engines
    <2> HIDE DEF b
    <2>6. Books(b)
        <3>1. b.polling = (Telemetry \in b.held)
            BY <2>2, <2>5, Zenon
        <3>2. b.inFlight = Cardinality(b.held \cap Slots)
            BY <2>2, <2>5 DEF Books
        <3>3. \A i \in Slots : (b.slots[i].state = "submitted") = (i \in b.held)
            BY <2>3, <2>5 DEF Books
        <3> QED
            BY <2>4, <2>5, <3>1, <3>2, <3>3 DEF Books, Failed
    <2> QED
        BY <1>4, <2>5, <2>6
<1> QED
    BY <1>2, <1>3, <1>4

(* The end of a run frees only what is not pending.                        *)
LEMMA NothingPending ==
    ASSUME NEW e, Books(e), ~HasPending(e)
    PROVE  e.held = {} /\ e.inFlight = 0
<1> DEFINE h == e.held \cap Slots
<1>1. /\ e \in Engines /\ e.inFlight = Cardinality(h) /\ e.polling = (Telemetry \in e.held)
      /\ e.held \subseteq Slots \cup {Telemetry} /\ e.polling \in BOOLEAN
    BY DEF Books, Engines
<1>2. IsFiniteSet(h) /\ Cardinality(h) \in Nat
    BY SlotsFinite
<1> HIDE DEF h
<1>3. Cardinality(h) = 0 /\ ~e.polling
    BY <1>1, <1>2 DEF HasPending, InFlightTotal
<1>4. h = {}
    BY <1>2, <1>3, FS_EmptySet
<1> QED
    BY <1>1, <1>3, <1>4 DEF h

LEMMA ReturnKeeps ==
    ASSUME NEW e, Books(e),
           ~Failed(e) => ~e.run /\ e.consumed = e.nextId
    PROVE  /\ Books(Return(e)) /\ Placed(Return(e)) /\ Return(e).run = e.run
           /\ Return(e).consumed = e.consumed
<1> DEFINE f == Return(e)
           st == IF HasPending(e) THEN "orphan" ELSE "freed"
<1>1. e \in Engines
    BY DEF Books
<1>2. st \in {"owned", "freed", "orphan"} /\ st # "owned" /\ (st = "freed" => ~HasPending(e))
    OBVIOUS
<1>3. "returned" \in Places
    BY DEF Places
<1>4. f = [e EXCEPT !.pc = "returned", !.ready = FALSE, !.storage = st]
    BY DEF Return
<1> HIDE DEF st, f
<1>5. f \in Engines
    BY <1>1, <1>2, <1>3, <1>4 DEF Engines
<1>6. /\ f.pc = "returned" /\ f.run = e.run /\ f.storage = st /\ f.held = e.held
      /\ f.slots = e.slots /\ f.consumed = e.consumed /\ f.nextId = e.nextId
      /\ f.inFlight = e.inFlight /\ f.polling = e.polling
      /\ f.cancelIssued = e.cancelIssued /\ f.completed = e.completed /\ f.code = e.code
    BY <1>1, <1>4 DEF Engines
<1>7. Books(f) /\ (Failed(f) <=> Failed(e))
    BY <1>5, <1>6, BooksAside
<1>8. Placed(f)
    BY <1>2, <1>6, <1>7, NothingPending DEF Placed
<1> QED
    BY <1>6, <1>7, <1>8 DEF f

(* A step inside the run, to a place that says nothing of the slots.       *)
LEMMA PlacedInside ==
    ASSUME NEW e, Placed(e), e.pc \notin {"returned", "ended"}, NEW f,
           f.storage = e.storage,
           f.pc \notin {"submit", "resubmit", "returned", "ended"}
    PROVE  Placed(f)
BY DEF Placed

LEMMA HandedSilent ==
    ASSUME Handed, Silent, late' = late, eng'.consumed = eng.consumed, eng'.run = eng.run
    PROVE  Handed'
BY DEF Handed, Silent

-----------------------------------------------------------------------------
(* One lemma per action of the engine.                                     *)
EngInv == Books(eng) /\ Placed(eng) /\ Handed

LEMMA EngTyped ==
    ASSUME EngInv
    PROVE  /\ eng \in Engines /\ eng.consumed \in Nat /\ eng.nextId \in Nat
           /\ eng.inFlight \in Int /\ eng.completed \in Nat /\ eng.slots \in [Slots -> Transfers]
           /\ eng.pc \in Places /\ QueueLength \in Nat \ {0}
BY DddAssumption DEF EngInv, Books, Engines

LEMMA PlacesNamed ==
    {"submit", "top", "consume", "resubmit", "decide", "pump", "returned", "ended"} \subseteq Places
BY DEF Places

LEMMA CodesNamed ==
    {"submit", "allocation", "order", "consumer", "drain_timeout", "transfer", "event"}
        \subseteq Codes \ {"success"}
BY DEF Codes

(* A failure cancels what is in flight.                                    *)
LEMMA FailKeeps ==
    ASSUME NEW e, Books(e), NEW code \in Codes \ {"success"}
    PROVE  LET f == CancelInFlight(Latch(e, code))
           IN  /\ Books(f) /\ Failed(f) /\ f.pc = e.pc /\ f.run = e.run
               /\ f.storage = e.storage /\ f.held = e.held
               /\ f.consumed = e.consumed /\ f.nextId = e.nextId
               /\ \A i \in Slots : f.slots[i].state = e.slots[i].state
<1> DEFINE g == Latch(e, code)
<1>1. /\ Books(g) /\ Failed(g) /\ g.pc = e.pc /\ g.run = e.run
      /\ g.storage = e.storage /\ g.held = e.held
      /\ g.slots = e.slots /\ g.consumed = e.consumed /\ g.nextId = e.nextId
    BY LatchKeeps
<1> HIDE DEF g
<1>2. LET f == CancelInFlight(g)
      IN  /\ Books(f) /\ Failed(f) /\ f.pc = g.pc /\ f.run = g.run
          /\ f.storage = g.storage /\ f.held = g.held
          /\ f.consumed = g.consumed /\ f.nextId = g.nextId
          /\ \A i \in Slots : f.slots[i].state = g.slots[i].state
    BY <1>1, CancelKeeps
<1> QED
    BY <1>1, <1>2 DEF g

LEMMA SubmitInitialKeeps == EngInv /\ SubmitInitial => EngInv'
<1> SUFFICES ASSUME EngInv, SubmitInitial PROVE EngInv'
    OBVIOUS
<1>1. eng.pc = "submit" /\ Silent /\ late' = late /\ Books(eng) /\ Placed(eng) /\ Handed
    BY DEF SubmitInitial, Step, EngInv
<1>2. eng.storage # "freed"
    BY <1>1 DEF Placed
<1>3. CASE eng.nextId < QueueLength /\ ~Failed(eng)
    <2> DEFINE i == eng.nextId
    <2>1. i \in Slots /\ eng.slots[i].state = "unused"
        BY <1>1, <1>3, EngTyped DEF Slots, Placed
    <2>2. eng' = Submitted(eng, i) \/ eng' = Refused(eng, i)
        BY <1>3 DEF SubmitInitial
    <2> HIDE DEF i
    <2>3. /\ Books(eng') /\ eng'.pc = eng.pc /\ eng'.run = eng.run
          /\ eng'.storage = eng.storage /\ eng'.consumed = eng.consumed
          /\ eng'.nextId = eng.nextId + 1
          /\ \A j \in Slots : j # i => eng'.slots[j] = eng.slots[j]
        BY <1>1, <1>3, <2>1, <2>2, SubmittedKeeps, RefusedKeeps
    <2>4. \A j \in Slots : j >= eng'.nextId => eng'.slots[j].state = "unused"
        BY <1>1, <2>3, EngTyped DEF i, Slots, Placed
    <2>5. Placed(eng')
        BY <1>1, <1>2, <2>3, <2>4 DEF Placed
    <2> QED
        BY <1>1, <2>3, <2>5, HandedSilent DEF EngInv
<1>4. CASE Failed(eng)
    <2> DEFINE f == CancelInFlight(eng)
    <2>1. /\ Books(f) /\ f.run = eng.run /\ f.storage = eng.storage /\ f.consumed = eng.consumed
        BY <1>1, <1>4, CancelKeeps
    <2>2. eng' = Goto(f, "top")
        BY <1>4 DEF SubmitInitial
    <2> HIDE DEF f
    <2>3. /\ Books(eng') /\ eng'.run = eng.run /\ eng'.storage = eng.storage
          /\ eng'.consumed = eng.consumed /\ eng'.pc = "top"
        BY ZenonT(30), <2>1, <2>2, GotoKeeps, PlacesNamed
    <2> QED
        BY <1>1, <2>3, PlacedInside, HandedSilent DEF EngInv
<1>5. CASE ~(eng.nextId < QueueLength) /\ ~Failed(eng)
    <2> DEFINE f == [eng EXCEPT !.ready = TRUE, !.signalled = TRUE]
    <2>1. f \in Engines /\ f.held = eng.held /\ f.slots = eng.slots /\ f.inFlight = eng.inFlight
          /\ f.polling = eng.polling /\ f.nextId = eng.nextId /\ f.completed = eng.completed
          /\ f.code = eng.code /\ f.cancelIssued = eng.cancelIssued
          /\ f.run = eng.run /\ f.storage = eng.storage /\ f.consumed = eng.consumed
        BY EngTyped DEF Engines
    <2>2. eng' = Goto(f, "top")
        BY <1>5 DEF SubmitInitial
    <2> HIDE DEF f
    <2>3. Books(f)
        BY <1>1, <2>1, BooksAside
    <2>5. /\ Books(eng') /\ eng'.run = f.run /\ eng'.storage = f.storage
          /\ eng'.consumed = f.consumed /\ eng'.pc = "top"
        BY <2>2, <2>3, GotoKeeps, PlacesNamed
    <2>4. /\ Books(eng') /\ eng'.run = eng.run /\ eng'.storage = eng.storage
          /\ eng'.consumed = eng.consumed /\ eng'.pc = "top"
        BY <2>1, <2>5
    <2> QED
        BY <1>1, <2>4, PlacedInside, HandedSilent DEF EngInv
<1> QED
    BY <1>3, <1>4, <1>5

LEMMA AllocationFailsKeeps == EngInv /\ AllocationFails => EngInv'
<1> SUFFICES ASSUME EngInv, AllocationFails PROVE EngInv'
    OBVIOUS
<1>1. Silent /\ late' = late /\ Books(eng) /\ Placed(eng) /\ Handed
    BY DEF AllocationFails, Step, EngInv
<1> DEFINE f == Latch(eng, "allocation")
<1>2. eng' = Return(f)
    BY DEF AllocationFails
<1>3. Books(f) /\ Failed(f) /\ f.run = eng.run /\ f.consumed = eng.consumed
    BY <1>1, LatchKeeps, CodesNamed
<1> HIDE DEF f
<1>4. Books(eng') /\ Placed(eng') /\ eng'.run = eng.run /\ eng'.consumed = eng.consumed
    BY <1>2, <1>3, ReturnKeeps
<1> QED
    BY <1>1, <1>4, HandedSilent DEF EngInv


(* The top of the loop.                                                    *)
LEMMA LoopTopKeeps == EngInv /\ LoopTop => EngInv'
<1> SUFFICES ASSUME EngInv, LoopTop PROVE EngInv'
    OBVIOUS
<1> DEFINE stop == (eng.stopping \/ ~running)
           accept == (eng.accepting /\ running)
           place == IF Failed(eng) THEN "decide" ELSE "consume"
           seen == [eng EXCEPT !.run = running, !.due = late, !.stopping = stop,
                               !.accepting = accept, !.pc = place]
           cancel == (seen.pollCancel \/ seen.polling)
           told == [seen EXCEPT !.pollCancel = cancel]
<1>1. eng.pc = "top" /\ Silent /\ late' = late /\ Books(eng) /\ Placed(eng) /\ Handed
    BY DEF LoopTop, Step, EngInv
<1>2. eng' \in Poll(seen) \/ eng' = seen \/ eng' = told
    BY DEF LoopTop, CancelTelemetry
<1>3. running \in BOOLEAN /\ late \in [stop : BOOLEAN, reap : BOOLEAN]
      /\ stop \in BOOLEAN /\ accept \in BOOLEAN
    BY <1>1, EngTyped DEF Handed, Engines
<1>4. place \in {"decide", "consume"} /\ {"decide", "consume"} \subseteq Places
    BY PlacesNamed
<1> HIDE DEF stop, accept, place
<1>5. seen \in Engines
    BY <1>3, <1>4, EngTyped DEF Engines
<1>6. /\ seen.held = eng.held /\ seen.slots = eng.slots /\ seen.inFlight = eng.inFlight
      /\ seen.polling = eng.polling /\ seen.nextId = eng.nextId
      /\ seen.completed = eng.completed /\ seen.code = eng.code
      /\ seen.cancelIssued = eng.cancelIssued /\ seen.pc = place /\ seen.run = running
      /\ seen.storage = eng.storage /\ seen.consumed = eng.consumed
    BY EngTyped DEF Engines
<1> HIDE DEF seen
<1>7. Books(seen)
    BY <1>1, <1>5, <1>6, BooksAside
<1>8. cancel \in BOOLEAN
    BY <1>5 DEF Engines
<1> HIDE DEF cancel
<1>9. told \in Engines
    BY <1>5, <1>8 DEF Engines
<1>10. /\ told.held = seen.held /\ told.slots = seen.slots /\ told.inFlight = seen.inFlight
      /\ told.polling = seen.polling /\ told.nextId = seen.nextId
      /\ told.completed = seen.completed /\ told.code = seen.code
      /\ told.cancelIssued = seen.cancelIssued /\ told.pc = seen.pc /\ told.run = seen.run
      /\ told.storage = seen.storage /\ told.consumed = seen.consumed
    BY <1>5 DEF Engines
<1> HIDE DEF told
<1>11. Books(told)
    BY <1>7, <1>9, <1>10, BooksAside
<1>12. Books(eng') /\ eng'.pc = seen.pc /\ eng'.run = seen.run
       /\ eng'.storage = seen.storage /\ eng'.consumed = seen.consumed
    BY <1>2, <1>7, <1>10, <1>11, PollKeeps
<1>13. Placed(eng')
    BY <1>1, <1>4, <1>6, <1>12, PlacedInside
<1>14. Handed'
    BY <1>1, <1>6, <1>12 DEF Handed, Silent
<1> QED
    BY <1>12, <1>13, <1>14 DEF EngInv

(* A place of the loop reached with nothing else changed.                  *)
LEMMA MovesOn ==
    ASSUME EngInv, eng.pc \notin {"returned", "ended"}, Silent, late' = late,
           NEW pc \in {"top", "consume", "decide", "pump"}, eng' = Goto(eng, pc)
    PROVE  EngInv'
<1>0. pc \in Places
    BY DEF Places
<1>1. /\ Books(eng') /\ eng'.pc = pc /\ eng'.run = eng.run
      /\ eng'.storage = eng.storage /\ eng'.consumed = eng.consumed
    BY <1>0, GotoKeeps DEF EngInv
<1> QED
    BY <1>1, PlacedInside, HandedSilent DEF EngInv

(* A place of the loop reached after a failure.                            *)
LEMMA FailsAndMovesOn ==
    ASSUME EngInv, eng.pc \notin {"returned", "ended"}, Silent, late' = late,
           NEW pc \in {"top", "consume", "decide", "pump"}, NEW code \in Codes \ {"success"},
           eng' = Goto(CancelInFlight(Latch(eng, code)), pc)
    PROVE  EngInv'
<1> DEFINE f == CancelInFlight(Latch(eng, code))
<1>1. Books(f) /\ f.run = eng.run /\ f.storage = eng.storage /\ f.consumed = eng.consumed
    BY FailKeeps DEF EngInv
<1>2. eng' = Goto(f, pc)
    OBVIOUS
<1> HIDE DEF f
<1>0. pc \in Places
    BY DEF Places
<1>3. /\ Books(eng') /\ eng'.pc = pc /\ eng'.run = f.run
      /\ eng'.storage = f.storage /\ eng'.consumed = f.consumed
    BY <1>0, <1>1, <1>2, GotoKeeps
<1> QED
    BY <1>1, <1>3, PlacedInside, HandedSilent DEF EngInv

LEMMA NothingReadyKeeps == EngInv /\ NothingReady => EngInv'
BY MovesOn DEF NothingReady, Step

LEMMA OrderLostKeeps == EngInv /\ OrderLost => EngInv'
BY FailsAndMovesOn, CodesNamed DEF OrderLost, Step

LEMMA EndPumpKeeps == EngInv /\ EndPump => EngInv'
<1> SUFFICES ASSUME EngInv, EndPump PROVE EngInv'
    OBVIOUS
<1>1. eng.pc = "pump" /\ Silent /\ late' = late
    BY DEF EndPump, Step
<1>2. eng' = Goto(eng, "top") \/ eng' = Goto(CancelInFlight(Latch(eng, "event")), "top")
    BY DEF EndPump
<1> QED
    BY <1>1, <1>2, MovesOn, FailsAndMovesOn, CodesNamed

(* gui_ddd_async_consume_ready hands on the block whose turn it is.        *)
LEMMA NextSlotInRange ==
    ASSUME EngInv
    PROVE  /\ NextSlot(eng) \in Slots
           /\ eng.consumed > 0 => (eng.consumed - 1) % QueueLength \in Slots
<1>1. eng.consumed \in Nat /\ QueueLength \in Nat \ {0}
    BY EngTyped
<1>2. \A n \in Nat : n % QueueLength \in 0 .. QueueLength - 1
    BY <1>1
<1> QED
    BY <1>1, <1>2 DEF NextSlot, Slots

LEMMA ReadyBlock ==
    ASSUME EngInv, Peek(eng) = "ready"
    PROVE  /\ eng.slots[NextSlot(eng)].state = "complete"
           /\ eng.slots[NextSlot(eng)].data = eng.consumed
<1>1. /\ eng.slots[NextSlot(eng)].state = "complete"
      /\ eng.slots[NextSlot(eng)].id = eng.consumed
    BY DEF Peek
<1> QED
    BY <1>1, NextSlotInRange DEF EngInv, Books

LEMMA ConsumeBlockKeeps == EngInv /\ ConsumeBlock => EngInv'
<1> SUFFICES ASSUME EngInv, ConsumeBlock PROVE EngInv'
    OBVIOUS
<1> DEFINE i == NextSlot(eng)
           t == [eng.slots[i] EXCEPT !.state = "retired"]
           s == [eng.slots EXCEPT ![i] = t]
           sync == (eng.synced \/ eng.consumed >= Discard)
<1>1. /\ eng.pc = "consume" /\ late' = late /\ running' = running
      /\ Peek(eng) = "ready" /\ delivered' = Append(delivered, eng.slots[i].data)
      /\ Books(eng) /\ Placed(eng) /\ Handed
    BY DEF ConsumeBlock, Step, EngInv
<1>2. i \in Slots /\ eng.slots[i].state = "complete" /\ eng.slots[i].data = eng.consumed
    BY <1>1, NextSlotInRange, ReadyBlock
<1>3. eng' = [eng EXCEPT !.slots = s, !.consumed = eng.consumed + 1, !.synced = sync,
                         !.pc = "resubmit"]
    BY DEF ConsumeBlock
<1>4. t \in Transfers /\ t.state = "retired" /\ s \in [Slots -> Transfers]
    <2>1. eng.slots[i] \in Transfers /\ "retired" \in States
        BY <1>2, EngTyped DEF States
    <2>2. t \in Transfers /\ t.state = "retired"
        BY <2>1 DEF Transfers
    <2> QED
        BY <2>2, EngTyped
<1>5. s[i] = t /\ \A j \in Slots : j # i => s[j] = eng.slots[j]
    BY <1>2, EngTyped
<1>6. i = ((eng.consumed + 1) - 1) % QueueLength
    BY EngTyped DEF NextSlot
<1>7. sync \in BOOLEAN /\ "resubmit" \in Places /\ eng.consumed + 1 \in Nat
    BY EngTyped, PlacesNamed, DddAssumption DEF Engines
<1> HIDE DEF i, t, s, sync
<1>8. eng' \in Engines
    BY ZenonT(30), <1>3, <1>4, <1>7, EngTyped DEF Engines
<1>9. /\ eng'.held = eng.held /\ eng'.slots = s /\ eng'.inFlight = eng.inFlight
      /\ eng'.polling = eng.polling /\ eng'.nextId = eng.nextId
      /\ eng'.completed = eng.completed /\ eng'.code = eng.code
      /\ eng'.cancelIssued = eng.cancelIssued /\ eng'.pc = "resubmit" /\ eng'.run = eng.run
      /\ eng'.storage = eng.storage /\ eng'.consumed = eng.consumed + 1
    BY <1>3, EngTyped DEF Engines
<1>10. Books(eng')
    <2>1. i \notin eng.held
        BY <1>1, <1>2 DEF Books
    <2> QED
        BY <1>1, <1>4, <1>5, <1>8, <1>9, <2>1 DEF Books, Failed
<1>11. Placed(eng')
    <2>1. eng.storage # "freed"
        BY <1>1 DEF Placed
    <2>2. eng'.consumed > 0 /\ eng'.slots[(eng'.consumed - 1) % QueueLength].state = "retired"
        BY <1>4, <1>5, <1>6, <1>9, EngTyped
    <2> QED
        BY <1>9, <2>1, <2>2 DEF Placed
<1>12. Handed'
    <2> DEFINE d == Append(delivered, eng.consumed)
    <2>1. /\ delivered \in Seq(Int) /\ Len(delivered) = eng.consumed /\ eng.consumed \in Int
          /\ \A n \in 1 .. Len(delivered) : delivered[n] = n - 1
        BY <1>1, EngTyped DEF Handed
    <2>2. /\ d \in Seq(Int) /\ Len(d) = eng.consumed + 1
          /\ \A n \in 1 .. Len(d) : d[n] = n - 1
        BY <2>1
    <2>3. delivered' = d
        BY <1>1, <1>2
    <2> HIDE DEF d
    <2> QED
        BY <1>1, <1>9, <2>2, <2>3 DEF Handed
<1> QED
    BY <1>10, <1>11, <1>12 DEF EngInv

(* A block the consumer refuses ends the run.                              *)
LEMMA RejectBlockKeeps == EngInv /\ RejectBlock => EngInv'
<1> SUFFICES ASSUME EngInv, RejectBlock PROVE EngInv'
    OBVIOUS
<1> DEFINE i == NextSlot(eng)
           f == CancelInFlight(Latch(eng, "consumer"))
           t == [f.slots[i] EXCEPT !.state = "failed"]
           s == [f.slots EXCEPT ![i] = t]
<1>1. /\ eng.pc = "consume" /\ late' = late /\ running' = FALSE /\ delivered' = delivered
      /\ Peek(eng) = "ready" /\ Books(eng) /\ Placed(eng) /\ Handed
    BY DEF RejectBlock, Step, EngInv
<1>2. i \in Slots /\ eng.slots[i].state = "complete"
    BY <1>1, NextSlotInRange, ReadyBlock
<1>3. eng' = [f EXCEPT !.slots = s, !.synced = FALSE, !.pc = "decide"]
    BY DEF RejectBlock
<1>4. /\ Books(f) /\ Failed(f) /\ f.run = eng.run
      /\ f.storage = eng.storage /\ f.consumed = eng.consumed
      /\ f.slots[i].state = "complete"
    BY <1>1, <1>2, FailKeeps, CodesNamed
<1> HIDE DEF f, i
<1>6. f \in Engines /\ f.slots \in [Slots -> Transfers]
    BY <1>4 DEF Books, Engines
<1>5. t \in Transfers /\ t.state = "failed" /\ s \in [Slots -> Transfers]
    <2>1. f.slots[i] \in Transfers /\ "failed" \in States
        BY <1>2, <1>6 DEF States
    <2>2. t \in Transfers /\ t.state = "failed"
        BY <2>1 DEF Transfers
    <2> QED
        BY <1>6, <2>2
<1>7. s[i] = t /\ \A j \in Slots : j # i => s[j] = f.slots[j]
    BY <1>2, <1>6
<1>8. "decide" \in Places
    BY PlacesNamed
<1> HIDE DEF t, s
<1>9. eng' \in Engines
    BY <1>3, <1>5, <1>6, <1>8 DEF Engines
<1>10. /\ eng'.held = f.held /\ eng'.slots = s /\ eng'.inFlight = f.inFlight
      /\ eng'.polling = f.polling /\ eng'.nextId = f.nextId
      /\ eng'.completed = f.completed /\ eng'.code = f.code
      /\ eng'.cancelIssued = f.cancelIssued /\ eng'.pc = "decide" /\ eng'.run = f.run
      /\ eng'.storage = f.storage /\ eng'.consumed = f.consumed
    BY <1>3, <1>6 DEF Engines
<1>11. Books(eng')
    <2>1. i \notin f.held
        BY <1>2, <1>4 DEF Books
    <2> QED
        BY <1>4, <1>5, <1>7, <1>9, <1>10, <2>1 DEF Books, Failed
<1>12. Placed(eng')
    BY <1>1, <1>4, <1>10, PlacedInside
<1>13. Handed'
    BY <1>1, <1>4, <1>10 DEF Handed
<1> QED
    BY <1>11, <1>12, <1>13 DEF EngInv

LEMMA ResubmitKeeps == EngInv /\ Resubmit => EngInv'
<1> SUFFICES ASSUME EngInv, Resubmit PROVE EngInv'
    OBVIOUS
<1> DEFINE i == (eng.consumed - 1) % QueueLength
<1>1. /\ eng.pc = "resubmit" /\ Silent /\ late' = late
      /\ Books(eng) /\ Placed(eng) /\ Handed
    BY DEF Resubmit, Step, EngInv
<1>2. i \in Slots /\ eng.slots[i].state # "submitted"
    BY <1>1, NextSlotInRange DEF Placed
<1>3. \/ eng' = Goto(eng, "consume")
      \/ eng' = Goto(Submitted(eng, i), "consume")
      \/ ~Failed(eng) /\ eng' = Goto(CancelInFlight(Refused(eng, i)), "decide")
    BY DEF Resubmit
<1> HIDE DEF i
<1>4. CASE eng' = Goto(eng, "consume")
    BY <1>1, <1>4, MovesOn
<1>5. CASE eng' = Goto(Submitted(eng, i), "consume")
    <2> DEFINE f == Submitted(eng, i)
    <2>1. Books(f) /\ f.run = eng.run /\ f.storage = eng.storage /\ f.consumed = eng.consumed
        BY <1>1, <1>2, SubmittedKeeps
    <2>2. eng' = Goto(f, "consume")
        BY <1>5
    <2> HIDE DEF f
    <2>3. /\ Books(eng') /\ eng'.pc = "consume" /\ eng'.run = f.run
          /\ eng'.storage = f.storage /\ eng'.consumed = f.consumed
        BY ZenonT(30), <2>1, <2>2, GotoKeeps, PlacesNamed
    <2> QED
        BY <1>1, <2>1, <2>3, PlacedInside, HandedSilent DEF EngInv
<1>6. CASE ~Failed(eng) /\ eng' = Goto(CancelInFlight(Refused(eng, i)), "decide")
    <2> DEFINE g == Refused(eng, i)
               f == CancelInFlight(g)
    <2>1. /\ Books(g) /\ Failed(g) /\ g.run = eng.run /\ g.storage = eng.storage
          /\ g.consumed = eng.consumed
        BY <1>1, <1>2, <1>6, RefusedKeeps
    <2> HIDE DEF g
    <2>2. /\ Books(f) /\ f.run = g.run /\ f.storage = g.storage /\ f.consumed = g.consumed
        BY <2>1, CancelKeeps
    <2>3. eng' = Goto(f, "decide")
        BY <1>6 DEF g
    <2> HIDE DEF f
    <2>4. /\ Books(eng') /\ eng'.pc = "decide" /\ eng'.run = f.run
          /\ eng'.storage = f.storage /\ eng'.consumed = f.consumed
        BY ZenonT(30), <2>2, <2>3, GotoKeeps, PlacesNamed
    <2> QED
        BY <1>1, <2>1, <2>2, <2>4, PlacedInside, HandedSilent DEF EngInv
<1> QED
    BY <1>3, <1>4, <1>5, <1>6

(* The end of an iteration: only a drained run ends without a failure.     *)
LEMMA DecideKeeps == EngInv /\ Decide => EngInv'
<1> SUFFICES ASSUME EngInv, Decide PROVE EngInv'
    OBVIOUS
<1> DEFINE timedOut == ~Failed(eng) /\ eng.stopping /\ HasPending(eng) /\ eng.due.stop
           fails == Failed(eng) \/ timedOut
           e == IF fails THEN CancelInFlight(Latch(eng, "drain_timeout")) ELSE eng
           done == \/ Failed(e) /\ InFlightTotal(e) = 0
                   \/ ~Failed(e) /\ DrainComplete(e, e.run) /\ ~e.polling
                   \/ e.cancelIssued /\ e.due.reap
           starved == ~Failed(e) /\ e.run /\ e.inFlight = 0
<1>1. /\ eng.pc = "decide" /\ Silent /\ late' = late
      /\ Books(eng) /\ Placed(eng) /\ Handed
    BY DEF Decide, Step, EngInv
<1>2. eng' = IF done THEN Return(e)
             ELSE IF starved THEN Goto(CancelInFlight(Latch(e, "order")), "top")
             ELSE Goto(e, "pump")
    BY DEF Decide
<1> HIDE DEF timedOut, fails
<1>3. /\ Books(e) /\ e.pc = eng.pc /\ e.run = eng.run
      /\ e.storage = eng.storage /\ e.consumed = eng.consumed
      /\ ~fails => e = eng
    BY <1>1, FailKeeps, CodesNamed
<1> HIDE DEF e, done, starved
<1>4. CASE done
    <2>1. ~Failed(e) => ~e.run /\ e.inFlight = 0 /\ e.completed = e.consumed
        BY <1>3, <1>4 DEF done, DrainComplete, Books
    <2>2. ~Failed(e) => e.nextId = e.inFlight + e.completed
        BY <1>3 DEF Books
    <2>3. e.completed \in Nat
        BY <1>3 DEF Books, Engines
    <2>4. ~Failed(e) => ~e.run /\ e.consumed = e.nextId
        BY <2>1, <2>2, <2>3
    <2>5. eng' = Return(e)
        BY <1>2, <1>4
    <2>6. Books(eng') /\ Placed(eng') /\ eng'.run = e.run /\ eng'.consumed = e.consumed
        BY <1>3, <2>4, <2>5, ReturnKeeps
    <2> QED
        BY <1>1, <1>3, <2>6, HandedSilent DEF EngInv
<1>5. CASE ~done /\ starved
    <2> DEFINE f == CancelInFlight(Latch(e, "order"))
    <2>1. Books(f) /\ f.run = e.run /\ f.storage = e.storage /\ f.consumed = e.consumed
        BY <1>3, FailKeeps, CodesNamed
    <2>2. eng' = Goto(f, "top")
        BY <1>2, <1>5
    <2> HIDE DEF f
    <2>3. /\ Books(eng') /\ eng'.pc = "top" /\ eng'.run = f.run
          /\ eng'.storage = f.storage /\ eng'.consumed = f.consumed
        BY <2>1, <2>2, GotoKeeps, PlacesNamed
    <2>4. eng'.run = eng.run /\ eng'.storage = eng.storage /\ eng'.consumed = eng.consumed
        BY <1>3, <2>1, <2>3
    <2> QED
        BY <1>1, <2>3, <2>4, PlacedInside, HandedSilent DEF EngInv
<1>6. CASE ~done /\ ~starved
    <2>1. eng' = Goto(e, "pump")
        BY <1>2, <1>6
    <2>2. /\ Books(eng') /\ eng'.pc = "pump" /\ eng'.run = e.run
          /\ eng'.storage = e.storage /\ eng'.consumed = e.consumed
        BY ZenonT(30), <1>3, <2>1, GotoKeeps, PlacesNamed
    <2>3. eng'.run = eng.run /\ eng'.storage = eng.storage /\ eng'.consumed = eng.consumed
        BY <1>3, <2>2
    <2> QED
        BY <1>1, <2>2, <2>3, PlacedInside, HandedSilent DEF EngInv
<1> QED
    BY <1>4, <1>5, <1>6

(* USB gives a transfer back.                                              *)
LEMMA TransferCallbackKeeps ==
    ASSUME EngInv, NEW i \in Slots, NEW status \in {"complete", "failed", "cancelled"},
           TransferCallback(i, status)
    PROVE  EngInv'
<1> DEFINE data == IF status = "complete" THEN eng.slots[i].id ELSE -1
           t == [eng.slots[i] EXCEPT !.state = status, !.data = data]
           s == [eng.slots EXCEPT ![i] = t]
           h == eng.held \ {i}
           back == [eng EXCEPT !.slots = s, !.completed = eng.completed + 1,
                               !.inFlight = eng.inFlight - 1, !.held = h]
<1>1. /\ eng.pc = "pump" /\ Silent /\ late' = late /\ i \in eng.held
      /\ Books(eng) /\ Placed(eng) /\ Handed
    BY DEF TransferCallback, Step, EngInv
<1>2. eng' = back \/ eng' = Latch(back, "transfer")
    BY DEF TransferCallback
<1>3. eng.slots[i] \in Transfers /\ status \in States
    BY EngTyped DEF States
<1>4. data \in Int /\ (status = "complete" => data = eng.slots[i].id)
    BY <1>3 DEF Transfers
<1> HIDE DEF data
<1>5. t \in Transfers /\ t.state = status /\ t.data = data /\ t.id = eng.slots[i].id
    BY <1>3, <1>4 DEF Transfers
<1> HIDE DEF t
<1>6. s \in [Slots -> Transfers] /\ s[i] = t /\ \A j \in Slots : j # i => s[j] = eng.slots[j]
    BY <1>5, EngTyped
<1>7. /\ h \in SUBSET (Slots \cup {Telemetry})
      /\ (Telemetry \in h) = (Telemetry \in eng.held)
      /\ \A j \in Slots : j \in h <=> j \in eng.held /\ j # i
    BY EngTyped, SlotsFinite DEF Engines
<1>8. Cardinality(h \cap Slots) = Cardinality(eng.held \cap Slots) - 1
    <2>1. h \cap Slots = (eng.held \cap Slots) \ {i} /\ i \in eng.held \cap Slots
        BY <1>1
    <2>2. IsFiniteSet(eng.held \cap Slots)
        BY SlotsFinite
    <2> DEFINE inSlots == eng.held \cap Slots
    <2> HIDE DEF inSlots
    <2>3. IsFiniteSet(inSlots) /\ i \in inSlots
        BY <2>1, <2>2 DEF inSlots
    <2>4. Cardinality(inSlots \ {i}) = Cardinality(inSlots) - 1
        BY <2>3, FS_RemoveElement
    <2> QED
        BY <2>1, <2>4 DEF inSlots
<1>9. eng.completed + 1 \in Nat /\ eng.inFlight - 1 \in Int
    BY EngTyped
<1> HIDE DEF s, h
<1>10. back \in Engines
    BY <1>6, <1>7, <1>9, EngTyped DEF Engines
<1>11. /\ back.held = h /\ back.slots = s /\ back.inFlight = eng.inFlight - 1
      /\ back.polling = eng.polling /\ back.nextId = eng.nextId
      /\ back.completed = eng.completed + 1 /\ back.code = eng.code
      /\ back.cancelIssued = eng.cancelIssued /\ back.pc = eng.pc /\ back.run = eng.run
      /\ back.storage = eng.storage /\ back.consumed = eng.consumed
    BY EngTyped DEF Engines
<1> HIDE DEF back
<1>12. Books(back)
    <2>1. back.inFlight = Cardinality(back.held \cap Slots)
        BY <1>1, <1>8, <1>11 DEF Books
    <2>2. back.polling = (Telemetry \in back.held)
        BY <1>1, <1>7, <1>11 DEF Books
    <2>3. \A j \in Slots : (back.slots[j].state = "submitted") = (j \in back.held)
        BY <1>1, <1>5, <1>6, <1>7, <1>11 DEF Books
    <2>4. \A j \in Slots : back.slots[j].state = "complete" => back.slots[j].data = back.slots[j].id
        BY <1>1, <1>4, <1>5, <1>6, <1>11 DEF Books
    <2>5. ~Failed(back) => back.nextId = back.inFlight + back.completed
        BY <1>1, <1>11, EngTyped DEF Books, Failed
    <2>6. back.cancelIssued => Failed(back)
        BY <1>1, <1>11 DEF Books, Failed
    <2> QED
        BY <1>10, <2>1, <2>2, <2>3, <2>4, <2>5, <2>6 DEF Books
<1>13. /\ Books(eng') /\ eng'.pc = back.pc /\ eng'.run = back.run
       /\ eng'.storage = back.storage /\ eng'.consumed = back.consumed
    <2>1. "transfer" \in Codes \ {"success"}
        BY CodesNamed
    <2>2. CASE eng' = back
        BY <1>12, <2>2
    <2>3. CASE eng' = Latch(back, "transfer")
        BY <1>12, <2>1, <2>3, LatchKeeps
    <2> QED
        BY <1>2, <2>2, <2>3
<1>14. eng'.pc = "pump" /\ eng'.run = eng.run /\ eng'.storage = eng.storage
       /\ eng'.consumed = eng.consumed
    BY <1>1, <1>11, <1>13
<1> QED
    BY <1>1, <1>13, <1>14, PlacedInside, HandedSilent DEF EngInv

LEMMA TelemetryCallbackKeeps == EngInv /\ TelemetryCallback => EngInv'
<1> SUFFICES ASSUME EngInv, TelemetryCallback PROVE EngInv'
    OBVIOUS
<1> DEFINE h == eng.held \ {Telemetry}
           back == [eng EXCEPT !.polling = FALSE, !.held = h]
           fail == [back EXCEPT !.pollFailures = @ + 1]
<1>1. /\ eng.pc = "pump" /\ Silent /\ late' = late
      /\ Books(eng) /\ Placed(eng) /\ Handed
    BY DEF TelemetryCallback, Step, EngInv
<1>2. eng' = back \/ eng' = fail
    BY DEF TelemetryCallback, PollFailed
<1>3. /\ h \in SUBSET (Slots \cup {Telemetry}) /\ Telemetry \notin h
      /\ \A j \in Slots : j \in h <=> j \in eng.held
      /\ h \cap Slots = eng.held \cap Slots
    BY EngTyped, SlotsFinite DEF Engines
<1> HIDE DEF h
<1>4. back \in Engines
    BY <1>3, EngTyped DEF Engines
<1>5. /\ back.held = h /\ back.slots = eng.slots /\ back.inFlight = eng.inFlight
      /\ back.polling = FALSE /\ back.nextId = eng.nextId
      /\ back.completed = eng.completed /\ back.code = eng.code
      /\ back.cancelIssued = eng.cancelIssued /\ back.pc = eng.pc /\ back.run = eng.run
      /\ back.storage = eng.storage /\ back.consumed = eng.consumed
    BY EngTyped DEF Engines
<1> HIDE DEF back
<1>6. Books(back)
    <2>1. back.polling = (Telemetry \in back.held)
        <3>1. ~(Telemetry \in back.held) /\ ~back.polling /\ back.polling \in BOOLEAN
            BY <1>3, <1>5
        <3> QED
            BY <3>1
    <2>2. back.inFlight = Cardinality(back.held \cap Slots)
        BY <1>1, <1>3, <1>5 DEF Books
    <2>3. \A j \in Slots : (back.slots[j].state = "submitted") = (j \in back.held)
        BY <1>1, <1>3, <1>5 DEF Books
    <2> QED
        BY <1>1, <1>4, <1>5, <2>1, <2>2, <2>3 DEF Books, Failed
<1>7. fail \in Engines
    BY <1>4 DEF Engines
<1>8. /\ fail.held = back.held /\ fail.slots = back.slots /\ fail.inFlight = back.inFlight
      /\ fail.polling = back.polling /\ fail.nextId = back.nextId
      /\ fail.completed = back.completed /\ fail.code = back.code
      /\ fail.cancelIssued = back.cancelIssued /\ fail.pc = back.pc /\ fail.run = back.run
      /\ fail.storage = back.storage /\ fail.consumed = back.consumed
    BY <1>4 DEF Engines
<1> HIDE DEF fail
<1>9. Books(fail)
    BY <1>6, <1>7, <1>8, BooksAside
<1>10. Books(eng') /\ eng'.pc = "pump" /\ eng'.run = eng.run /\ eng'.storage = eng.storage
       /\ eng'.consumed = eng.consumed
    BY <1>1, <1>2, <1>5, <1>6, <1>8, <1>9
<1> QED
    BY <1>1, <1>10, PlacedInside, HandedSilent DEF EngInv

LEMMA EndThreadKeeps == EngInv /\ EndThread => EngInv'
<1> SUFFICES ASSUME EngInv, EndThread PROVE EngInv'
    OBVIOUS
<1>1. /\ eng.pc = "returned" /\ late' = late /\ delivered' = delivered
      /\ running' \in BOOLEAN /\ (running' => running)
      /\ Books(eng) /\ Placed(eng) /\ Handed
    BY DEF EndThread, Step, EngInv, Handed
<1>2. eng' = Goto(eng, "ended")
    BY DEF EndThread
<1>3. /\ Books(eng') /\ eng'.pc = "ended" /\ eng'.run = eng.run /\ eng'.held = eng.held
      /\ eng'.storage = eng.storage /\ eng'.consumed = eng.consumed
      /\ eng'.nextId = eng.nextId /\ (Failed(eng') <=> Failed(eng))
    BY ZenonT(30), <1>1, <1>2, GotoKeeps, PlacesNamed
<1>4. Placed(eng')
    BY <1>1, <1>3 DEF Placed
<1>5. Handed'
    BY <1>1, <1>3 DEF Handed
<1> QED
    BY <1>3, <1>4, <1>5 DEF EngInv

LEMMA DeadlinePassesKeeps == EngInv /\ DeadlinePasses => EngInv'
<1> SUFFICES ASSUME EngInv, DeadlinePasses PROVE EngInv'
    OBVIOUS
<1>1. late' \in [stop : BOOLEAN, reap : BOOLEAN]
    BY DEF EngInv, Handed, DeadlinePasses
<1>2. UNCHANGED <<running, eng, delivered>>
    BY DEF DeadlinePasses
<1> QED
    BY <1>1, <1>2 DEF EngInv, Handed, Books, Placed, Failed

LEMMA EngineNextKeeps == EngInv /\ EngineNext => EngInv'
BY SubmitInitialKeeps, AllocationFailsKeeps, LoopTopKeeps, NothingReadyKeeps,
   OrderLostKeeps, ConsumeBlockKeeps, RejectBlockKeeps, ResubmitKeeps, DecideKeeps,
   EndPumpKeeps, EndThreadKeeps, TransferCallbackKeeps, TelemetryCallbackKeeps,
   DeadlinePassesKeeps
DEF EngineNext, Thread, Callback

-----------------------------------------------------------------------------
(* The capture around the engine.                                          *)

(* The engine is started afresh.                                           *)
LEMMA FreshKeeps ==
    /\ Books(Fresh) /\ Placed(Fresh) /\ Fresh.run /\ Fresh.consumed = 0
    /\ Fresh.storage = "owned" /\ Fresh.held = {} /\ OnTime \in [stop : BOOLEAN, reap : BOOLEAN]
<1>1. OnTime \in [stop : BOOLEAN, reap : BOOLEAN]
    BY DEF OnTime
<1> DEFINE s == [i \in Slots |-> [id |-> 0, state |-> "unused", cancel |-> FALSE, data |-> -1]]
<1>2. s \in [Slots -> Transfers] /\ \A i \in Slots : s[i].state = "unused"
    BY DEF Transfers, States
<1> HIDE DEF s
<1>3. Fresh.slots = s
    BY DEF Fresh, s
<1>4. {} \in SUBSET (Slots \cup {Telemetry}) /\ "submit" \in Places /\ "success" \in Codes
    BY PlacesNamed DEF Codes
<1>5. Fresh \in Engines
    BY <1>1, <1>2, <1>4 DEF Fresh, Engines, s
<1>6. /\ Fresh.held = {} /\ Fresh.polling = FALSE /\ Fresh.inFlight = 0 /\ Fresh.nextId = 0
      /\ Fresh.completed = 0 /\ Fresh.consumed = 0 /\ Fresh.storage = "owned"
      /\ Fresh.pc = "submit" /\ Fresh.run = TRUE /\ Fresh.cancelIssued = FALSE
    BY DEF Fresh
<1>7. Cardinality({} \cap Slots) = 0
    BY FS_EmptySet
<1>8. Books(Fresh)
    <2>1. Fresh.polling = (Telemetry \in Fresh.held)
        <3>1. ~(Telemetry \in Fresh.held) /\ ~Fresh.polling /\ Fresh.polling \in BOOLEAN
            BY <1>6
        <3> QED
            BY <3>1
    <2>2. Fresh.inFlight = Cardinality(Fresh.held \cap Slots)
        BY <1>6, <1>7
    <2>3. \A i \in Slots : (Fresh.slots[i].state = "submitted") = (i \in Fresh.held)
        BY <1>2, <1>3, <1>6
    <2> QED
        BY <1>2, <1>3, <1>5, <1>6, <2>1, <2>2, <2>3 DEF Books, Failed
<1>9. Placed(Fresh)
    BY <1>2, <1>3, <1>6 DEF Placed
<1> QED
    BY <1>1, <1>6, <1>8, <1>9

LEMMA InitIInv == Init => IInv
<1> SUFFICES ASSUME Init PROVE IInv
    OBVIOUS
<1>1. eng = Goto(Fresh, "ended")
    BY DEF Init
<1>2. /\ Books(eng) /\ eng.pc = "ended" /\ eng.run = Fresh.run /\ eng.held = {}
      /\ eng.storage = "owned" /\ eng.consumed = 0
    <2>1. Books(Fresh) /\ "ended" \in Places
        BY FreshKeeps, PlacesNamed
    <2>2. /\ Books(Goto(Fresh, "ended")) /\ Goto(Fresh, "ended").pc = "ended"
          /\ Goto(Fresh, "ended").run = Fresh.run
          /\ Goto(Fresh, "ended").storage = Fresh.storage
          /\ Goto(Fresh, "ended").held = Fresh.held
          /\ Goto(Fresh, "ended").consumed = Fresh.consumed
        BY <2>1, GotoKeeps
    <2> QED
        BY <1>1, <2>2, FreshKeeps
<1>3. Placed(eng)
    BY <1>2 DEF Placed
<1>4. Handed
    <2>1. running = FALSE /\ late = OnTime /\ delivered = <<>>
        BY DEF Init
    <2>2. delivered \in Seq(Int) /\ Len(delivered) = 0
        BY <2>1
    <2>3. OnTime \in [stop : BOOLEAN, reap : BOOLEAN]
        BY FreshKeeps
    <2>4. running \in BOOLEAN /\ ~running
        BY <2>1
    <2>5. late \in [stop : BOOLEAN, reap : BOOLEAN]
        BY <2>1, <2>3
    <2>6. Len(delivered) = eng.consumed /\ \A n \in 1 .. Len(delivered) : delivered[n] = n - 1
        BY <1>2, <2>2
    <2> QED
        BY <2>2, <2>4, <2>5, <2>6 DEF Handed
<1>5. AtRest
    BY <1>2 DEF AtRest, Init
<1> QED
    BY <1>2, <1>3, <1>4, <1>5 DEF IInv

(* The engine moves only while the device is in use.                       *)
LEMMA EngineAtRest ==
    ASSUME IInv, EngineNext, UNCHANGED captureVars
    PROVE  AtRest'
<1>1. CASE eng' = eng
    BY <1>1 DEF IInv, AtRest, captureVars
<1>2. CASE eng' # eng
    <2>1. eng.pc # "ended"
        BY <1>2 DEF EngineNext, Thread, Callback, DeadlinePasses, SubmitInitial,
            AllocationFails, LoopTop, NothingReady, OrderLost, ConsumeBlock, RejectBlock,
            Resubmit, Decide, EndPump, EndThread, TransferCallback, TelemetryCallback, Step
    <2> QED
        BY <2>1 DEF IInv, AtRest, captureVars
<1> QED
    BY <1>1, <1>2

LEMMA ControllerIInv ==
    ASSUME IInv, Controller \/ Plug
    PROVE  IInv'
<1> USE DEF IInv
<1>1. CASE Start
    <2>1. /\ eng' = Fresh /\ running' = TRUE /\ late' = OnTime /\ delivered' = <<>>
          /\ phase' = "starting" /\ device.present /\ UNCHANGED <<lock, quarantined>>
          /\ device' = [device EXCEPT !.collecting = TRUE]
        BY <1>1 DEF Start
    <2>2. Books(eng') /\ Placed(eng')
        BY <2>1, FreshKeeps
    <2>3. Handed'
        BY <2>1, FreshKeeps DEF Handed
    <2>4. AtRest'
        BY <2>1 DEF AtRest
    <2> QED
        BY <2>2, <2>3, <2>4
<1>2. CASE GiveUp
    BY <1>2 DEF GiveUp, Handed, AtRest
<1>3. CASE ~Start /\ ~GiveUp
    <2>1. UNCHANGED vars
        BY <1>3 DEF Controller, Open, StartFails, StreamReady, StopDevice, Close, Enumerate, Plug
    <2>2. Books(eng') /\ Placed(eng') /\ Handed'
        BY <2>1 DEF vars, Handed
    <2>3. eng' = eng
        BY <2>1 DEF vars
    <2>4. AtRest'
        <3>1. CASE Open
            BY <2>3, <3>1 DEF Open, AtRest
        <3>2. CASE StartFails
            BY <2>3, <3>2 DEF StartFails, AtRest
        <3>3. CASE StreamReady
            BY <2>3, <3>3 DEF StreamReady, AtRest
        <3>4. CASE StopDevice
            BY <2>3, <3>4 DEF StopDevice, AtRest
        <3>5. CASE Close
            BY <2>3, <3>5 DEF Close, Abandon, AtRest
        <3>6. CASE Enumerate
            BY <2>3, <3>6 DEF Enumerate, Replugged, AtRest
        <3>7. CASE Plug
            BY <2>3, <3>7 DEF Plug, AtRest
        <3> QED
            BY <1>3, <3>1, <3>2, <3>3, <3>4, <3>5, <3>6, <3>7 DEF Controller
    <2> QED
        BY <2>2, <2>4
<1> QED
    BY <1>1, <1>2, <1>3

LEMMA StepIInv == IInv /\ [Next]_allVars => IInv'
<1> SUFFICES ASSUME IInv, [Next]_allVars PROVE IInv'
    OBVIOUS
<1>1. CASE EngineNext /\ UNCHANGED captureVars
    BY <1>1, EngineNextKeeps, EngineAtRest DEF EngInv, IInv
<1>2. CASE Controller \/ Plug
    BY <1>2, ControllerIInv
<1>3. CASE UNCHANGED allVars
    BY <1>3 DEF allVars, vars, captureVars, IInv, Books, Placed, Failed, Handed, AtRest
<1> QED
    BY <1>1, <1>2, <1>3 DEF Next

LEMMA AlwaysIInv == Spec => []IInv
BY InitIInv, StepIInv, PTL DEF Spec

-----------------------------------------------------------------------------
(* The engine's counter of transfers in flight, its flag for the reading   *)
(* and the states of its slots agree with what USB holds                   *)
(* (gui_ddd_async.c:120-221).                                              *)
THEOREM DddTypeCorrect == Spec => []TypeOK
<1>1. IInv => TypeOK
    BY DEF IInv, Books, Engines, Handed, AtRest, TypeOK
<1> QED
    BY <1>1, AlwaysIInv, PTL

(* The consumer is handed the blocks in the order they were submitted, in  *)
(* whatever order USB completes them (gui_ddd_async_consume_ready).        *)
THEOREM BlocksInOrder == Spec => []InOrder
<1>1. IInv => InOrder
    <2> SUFFICES ASSUME IInv, NEW n \in DOMAIN delivered PROVE delivered[n] = n - 1
        BY DEF InOrder
    <2>1. delivered \in Seq(Int)
        BY DEF IInv, Handed
    <2>2. n \in 1 .. Len(delivered)
        BY <2>1
    <2> QED
        BY <2>2 DEF IInv, Handed
<1> QED
    BY <1>1, AlwaysIInv, PTL

(* A run that reports success was stopped, and every block it asked USB    *)
(* for was filled and consumed (gui_ddd_async_run).                        *)
THEOREM SuccessConsumesAll == Spec => []SuccessIsComplete
<1>1. IInv => SuccessIsComplete
    BY DEF IInv, Placed, Handed, SuccessIsComplete
<1> QED
    BY <1>1, AlwaysIInv, PTL

(* Nothing USB may still write to is freed (the end of gui_ddd_async_run). *)
THEOREM FreedNotHeld == Spec => []FreedIsReaped
<1>1. IInv => FreedIsReaped
    BY DEF IInv, Placed, FreedIsReaped
<1> QED
    BY <1>1, AlwaysIInv, PTL

(* A capture is opened only when no queue of an earlier one is retained    *)
(* and the device is known not to be collecting (gui_ddd_v1_open).         *)
THEOREM OpensSafely == Spec => OpenIsSafe
<1>1. IInv /\ [Next]_allVars =>
          [phase = "closed" /\ phase' = "open" => eng.held = {} /\ ~device.collecting]_allVars
    <2> SUFFICES ASSUME IInv, Next, phase = "closed", phase' = "open"
                 PROVE  eng.held = {} /\ ~device.collecting
        OBVIOUS
    <2>1. Open
        BY DEF Next, captureVars, Controller, Open, Start, StartFails, StreamReady, GiveUp,
            StopDevice, Close, Enumerate, Plug
    <2>2. ~quarantined /\ lock = "none"
        BY <2>1 DEF Open, OpenAllowed, Locked
    <2>3. ~device.collecting /\ eng.pc = "ended" /\ eng.storage # "orphan"
        BY <2>2 DEF IInv, AtRest
    <2>4. eng.storage \in {"owned", "freed", "orphan"}
        BY DEF IInv, Books, Engines
    <2> QED
        BY <2>3, <2>4 DEF IInv, Placed
<1> QED
    BY <1>1, AlwaysIInv, PTL DEF Spec, OpenIsSafe
=============================================================================
