----------------------------- MODULE DddCapture -----------------------------
(***************************************************************************)
(* A DdD capture: the user-interface thread opens, starts, stops and       *)
(* closes the device (input/gui_ddd_v1.c) around one run of the queue      *)
(* (DddAsync).  A queue that USB never gave back is retained for the life  *)
(* of the process and blocks further opens; a device whose stop could not  *)
(* be verified is locked until it was seen unplugged and plugged again.    *)
(*                                                                         *)
(* The device and the answers to control requests are external.  One DdD,  *)
(* always at the same path.                                                *)
(***************************************************************************)
EXTENDS DddAsync

VARIABLES
    phase,        \* where gui_ddd_v1_open, _start and _stop stand
    lock,         \* s_lock_phase, for the one path
    quarantined,  \* s_ddd_async_abandoned is set
    device        \* external: plugged in, and may be collecting

captureVars == <<phase, lock, quarantined, device>>
allVars == <<vars, captureVars>>

Init ==
    /\ running = FALSE /\ late = OnTime /\ delivered = <<>>
    /\ eng = Goto(Fresh, "ended")
    /\ phase = "closed" /\ lock = "none" /\ quarantined = FALSE
    /\ device = [present |-> TRUE, collecting |-> FALSE]

-----------------------------------------------------------------------------
(* The user-interface thread.                                              *)

Locked == lock # "none"

OpenAllowed == ~quarantined /\ ~Locked

(* A device that cannot be found or claimed is closed again.               *)
Open ==
    /\ phase = "closed"
    /\ OpenAllowed /\ device.present
    /\ phase' = "open"
    /\ UNCHANGED <<vars, lock, quarantined, device>>

(* Configuration and thread creation: the thread runs, or a rollback       *)
(* undoes what was sent, or the rollback failed and the path is locked.    *)
Start ==
    /\ phase = "open"
    /\ device.present
    /\ running' = TRUE /\ late' = OnTime /\ delivered' = <<>>
    /\ eng' = Fresh
    /\ phase' = "starting"
    /\ device' = [device EXCEPT !.collecting = TRUE]
    /\ UNCHANGED <<lock, quarantined>>

StartFails ==
    /\ phase = "open"
    /\ phase' = "closed"
    /\ \/ device.present /\ UNCHANGED <<lock, device>>
       \/ /\ lock' = "disappear"
          /\ device' = [device EXCEPT !.collecting = device.present]
    /\ UNCHANGED <<vars, quarantined>>

(* The stream is ready: the queue is, and a checked block was published.   *)
StreamReady ==
    /\ phase = "starting"
    /\ eng.ready /\ eng.synced /\ running /\ ~eng.startupFailed
    /\ phase' = "capturing"
    /\ UNCHANGED <<vars, lock, quarantined, device>>

(* Start gives up after a failure or a second; stop may come at any time,  *)
(* from the user or from a request the capture thread left.                *)
GiveUp ==
    /\ phase \in {"starting", "capturing"}
    /\ running' = FALSE
    /\ phase' = "joining"
    /\ UNCHANGED <<eng, late, delivered, lock, quarantined, device>>

SyncControlAllowed_Fault == TRUE

(* An orphan with nothing pending would be freed first; a run returns one  *)
(* only while something is.                                                *)
SyncControlAllowed == eng.storage # "orphan"

(* After the join: the device is told to stop, unless the request could    *)
(* hang behind the orphan.  External: a synchronous request needs an event *)
(* pump with nothing pending to come back.                                 *)
StopDevice ==
    /\ phase = "joining" /\ eng.pc = "ended"
    /\ IF SyncControlAllowed
       THEN /\ eng.held = {}
            /\ \/ /\ device.present
                  /\ device' = [device EXCEPT !.collecting = FALSE]
                  /\ UNCHANGED lock
               \/ lock' = "disappear" /\ UNCHANGED device
       ELSE lock' = "disappear" /\ UNCHANGED device
    /\ phase' = "closing"
    /\ UNCHANGED <<vars, quarantined>>

Abandon == quarantined' = (quarantined \/ eng.storage = "orphan")

(* ddd_v1_close: an orphan keeps its handle and takes the one place.       *)
Close ==
    /\ phase = "closing"
    /\ Abandon
    /\ phase' = "closed"
    /\ UNCHANGED <<vars, lock, device>>

Replugged_Fault(present) == IF present THEN "none" ELSE lock

(* observe_enumeration.                                                    *)
Replugged(present) ==
    CASE lock = "disappear" /\ ~present -> "reappear"
      [] lock = "reappear" /\ present   -> "none"
      [] OTHER                          -> lock

Enumerate ==
    /\ phase = "closed"
    /\ lock' = Replugged(device.present)
    /\ lock' # lock
    /\ UNCHANGED <<vars, phase, quarantined, device>>

(* External: a device that loses power stops collecting.                   *)
Plug ==
    /\ device' = [present |-> ~device.present, collecting |-> FALSE]
    /\ UNCHANGED <<vars, phase, lock, quarantined>>

Controller ==
    Open \/ Start \/ StartFails \/ StreamReady \/ GiveUp \/ StopDevice \/ Close \/ Enumerate

Next ==
    \/ EngineNext /\ UNCHANGED captureVars
    \/ Controller
    \/ Plug

(* The capture thread runs, its pump returns after 10 ms, the clock goes   *)
(* on, and the user-interface loop comes round.  Nothing is assumed of USB *)
(* or of the user.                                                         *)
Fairness ==
    /\ WF_allVars(Thread /\ UNCHANGED captureVars)
    /\ WF_allVars(DeadlinePasses /\ UNCHANGED captureVars)
    /\ WF_allVars(StopDevice \/ Close)
    /\ WF_allVars((phase = "starting" \/ ~running) /\ GiveUp)

Spec == Init /\ [][Next]_allVars /\ Fairness

-----------------------------------------------------------------------------
(* Types, and the counter of transfers in flight agrees with what USB      *)
(* holds (gui_ddd_async.c:120-221).                                        *)
TypeOK ==
    /\ {running, quarantined} \subseteq BOOLEAN
    /\ eng.held \subseteq Slots \cup {Telemetry}
    /\ eng.inFlight = Cardinality(eng.held \cap Slots)
    /\ eng.polling = (Telemetry \in eng.held)
    /\ \A i \in Slots : (eng.slots[i].state = "submitted") = (i \in eng.held)
    /\ eng.storage \in {"owned", "freed", "orphan"}
    /\ lock \in {"none", "disappear", "reappear"}

(* The consumer is handed the blocks of the stream in the order they were  *)
(* submitted, each one filled, in whatever order USB completes them        *)
(* (gui_ddd_async.c:393-449).                                              *)
InOrder == \A n \in DOMAIN delivered : delivered[n] = n - 1

(* A run that reports success was stopped, and every block it asked USB    *)
(* for was filled and consumed (gui_ddd_async.h:128-140).                  *)
SuccessIsComplete ==
    eng.storage = "freed" /\ ~Failed(eng) =>
        /\ ~running
        /\ Len(delivered) = eng.nextId

(* Nothing USB may still write to is freed: not a transfer, not the        *)
(* telemetry buffer (gui_ddd_async.c:524-549, 686-706).                    *)
FreedIsReaped == eng.storage = "freed" => eng.held = {}

(* A capture is opened only when no queue of an earlier one is retained    *)
(* and the device is known not to be collecting: it was told to stop and   *)
(* answered, or it lost power (gui_ddd_v1.c:374-457).                      *)
OpenIsSafe ==
    [][phase = "closed" /\ phase' = "open" => eng.held = {} /\ ~device.collecting]_allVars

(* A capture being stopped is closed, whatever USB does, and one whose     *)
(* queue failed is closed too (gui_ddd_async.c:616-684).                   *)
StopEnds == phase = "joining" ~> phase = "closed"
FailureEnds == Failed(eng) /\ phase \in {"starting", "capturing"} ~> phase = "closed"

(* An ordinary stop is not reported as lost order: once capture has        *)
(* stopped, the gap behind the last block is a successful drain            *)
(* (gui_ddd_async.h:128-131).                                              *)
StopIsNoOrderFailure ==
    [][~running /\ eng.code = "success" => eng'.code # "order"]_allVars
=============================================================================
