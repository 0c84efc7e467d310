----------------------------- MODULE RecordTaps -----------------------------
(***************************************************************************)
(* The tap handshake between the CXADC capture thread and the record       *)
(* layer: how a direct recording starts and stops while the capture thread *)
(* goes on reading both cards (input/gui_cxadc.c:2446-2466,                *)
(* output/gui_record_direct.c:59-174, output/gui_record.c).                *)
(*                                                                         *)
(* Channels are handled A then B on both sides.  The capture thread enters *)
(* both taps (counts itself in flight, then reads the enabled flag), pushes*)
(* both chunks or none, then leaves both.  The record layer arms and       *)
(* disarms the taps without any lock, one atomic at a time.                *)
(*                                                                         *)
(* A thread's place is a pair: a stage and the channel it is at.           *)
(*                                                                         *)
(* straddled records that a capture iteration was under way, in a state in *)
(* which it does harm, while gui_record_direct_tap_enable reset the counter*)
(* of a channel.  Ten milliseconds of sleep are all that keeps this from   *)
(* happening.                                                              *)
(***************************************************************************)
EXTENDS Integers

CONSTANTS
    MaxIterations,  \* bound: capture iterations
    MaxSessions     \* bound: recordings

ASSUME TapsAssumption ==
    /\ MaxIterations \in Nat
    /\ MaxSessions \in Nat

VARIABLES
    tap_enabled,   \* ctx->tap_enabled per channel
    tap_inflight,  \* ctx->tap_inflight per channel
    active,        \* s_direct_channel_a_active, s_direct_channel_b_active
    is_recording,  \* app->is_recording
    ctl,           \* where the record layer is
    cap,           \* where the capture thread is
    gate,          \* tap_a_ch, tap_b_ch: the channels it gates on
    on,            \* a_on, b_on: what entering the taps returned
    pushed,        \* history: chunks pushed per channel
    iterations,    \* history
    sessions,      \* history
    straddled      \* history: see above

tapVars == <<tap_enabled, tap_inflight>>
controlVars == <<active, is_recording, ctl, sessions>>
captureVars == <<cap, gate, on, pushed, iterations>>
tapsVars == <<tapVars, controlVars, captureVars, straddled>>

Channels == {"A", "B"}

(* After channel A comes channel B, after B the next stage.                *)
After(c, stage, next) == IF c = "A" THEN <<stage, "B">> ELSE <<next, "A">>

(* The places of the capture thread at which it has loaded the flag of a   *)
(* channel, and at which it counts as in flight there if it is gated.      *)
Loaded ==
    [A |-> {<<"flag", "B">>, <<"enter", "A">>, <<"latch", "A">>,
            <<"enter", "B">>, <<"latch", "B">>, <<"push", "A">>,
            <<"push", "B">>, <<"leave", "A">>, <<"leave", "B">>},
     B |-> {<<"enter", "A">>, <<"latch", "A">>, <<"enter", "B">>,
            <<"latch", "B">>, <<"push", "A">>, <<"push", "B">>,
            <<"leave", "A">>, <<"leave", "B">>}]

CountedIn ==
    [A |-> {<<"latch", "A">>, <<"enter", "B">>, <<"latch", "B">>,
            <<"push", "A">>, <<"push", "B">>, <<"leave", "A">>},
     B |-> {<<"latch", "B">>, <<"push", "A">>, <<"push", "B">>,
            <<"leave", "A">>, <<"leave", "B">>}]

(* The iteration under way counts as in flight on channel c.               *)
InflightAt(c) == gate[c] /\ cap \in CountedIn[c]

(* It has seen a channel inactive, but has not seen both so.               *)
OneSided ==
    /\ \E c \in Channels : cap \in Loaded[c] /\ ~gate[c]
    /\ \E c \in Channels : cap \in Loaded[c] => gate[c]

TapsInit ==
    /\ tap_enabled = [c \in Channels |-> FALSE]
    /\ tap_inflight = [c \in Channels |-> 0]
    /\ active = [c \in Channels |-> FALSE]
    /\ is_recording = FALSE
    /\ ctl = <<"idle", "A">>
    /\ cap = <<"idle", "A">>
    /\ gate = [c \in Channels |-> FALSE]
    /\ on = [c \in Channels |-> FALSE]
    /\ pushed = [c \in Channels |-> 0]
    /\ iterations = 0
    /\ sessions = 0
    /\ straddled = FALSE

-----------------------------------------------------------------------------
(* The record layer: gui_record_start_confirmed, RAW branch, with both     *)
(* channels eligible for the direct path.                                  *)

StartRecording ==
    /\ ctl = <<"idle", "A">>
    /\ sessions < MaxSessions
    /\ sessions' = sessions + 1
    /\ ctl' = <<"clear", "A">>
    /\ UNCHANGED <<tapVars, active, is_recording, captureVars, straddled>>

(* memset of the channel's context.                                        *)
ClearContext(c) ==
    /\ ctl = <<"clear", c>>
    /\ tap_enabled' = [tap_enabled EXCEPT ![c] = FALSE]
    /\ tap_inflight' = [tap_inflight EXCEPT ![c] = 0]
    /\ ctl' = After(c, "clear", "activate")
    /\ UNCHANGED <<active, is_recording, sessions, captureVars, straddled>>

(* From here on the capture thread enters the tap of this channel.         *)
Activate(c) ==
    /\ ctl = <<"activate", c>>
    /\ active' = [active EXCEPT ![c] = TRUE]
    /\ ctl' = After(c, "activate", "mark")
    /\ UNCHANGED <<tapVars, is_recording, sessions, captureVars, straddled>>

(* is_recording is set and the writer threads are started.                 *)
MarkRecording ==
    /\ ctl = <<"mark", "A">>
    /\ is_recording' = TRUE
    /\ ctl' = <<"reset", "A">>
    /\ UNCHANGED <<tapVars, active, sessions, captureVars, straddled>>

(* gui_record_direct_tap_enable: tap_inflight := 0, whatever the capture   *)
(* thread is at ...                                                        *)
ResetInflight(c) ==
    /\ ctl = <<"reset", c>>
    /\ tap_inflight' = [tap_inflight EXCEPT ![c] = 0]
    /\ straddled' = (straddled \/ InflightAt(c) \/ OneSided)
    /\ ctl' = <<"enable", c>>
    /\ UNCHANGED <<tap_enabled, active, is_recording, sessions, captureVars>>

(* ... and tap_enabled := true.                                            *)
EnableTap(c) ==
    /\ ctl = <<"enable", c>>
    /\ tap_enabled' = [tap_enabled EXCEPT ![c] = TRUE]
    /\ ctl' = After(c, "reset", "recording")
    /\ UNCHANGED <<tap_inflight, active, is_recording, sessions, captureVars, straddled>>

-----------------------------------------------------------------------------
(* The record layer: gui_record_stop and the finalize thread.              *)

RequestStop ==
    /\ ctl = <<"recording", "A">>
    /\ ctl' = <<"disable", "A">>
    /\ UNCHANGED <<tapVars, active, is_recording, sessions, captureVars, straddled>>

DisableTap(c) ==
    /\ ctl = <<"disable", c>>
    /\ tap_enabled' = [tap_enabled EXCEPT ![c] = FALSE]
    /\ ctl' = After(c, "disable", "wait")
    /\ UNCHANGED <<tap_inflight, active, is_recording, sessions, captureVars, straddled>>

(* Seeded fault: the stopper does not wait.                                *)
WaitIdle_Fault(c) ==
    /\ ctl = <<"wait", c>>
    /\ ctl' = After(c, "wait", "unmark")
    /\ UNCHANGED <<tapVars, active, is_recording, sessions, captureVars, straddled>>

(* gui_record_direct_tap_wait_idle polls until tap_inflight is 0.          *)
WaitIdle(c) ==
    /\ ctl = <<"wait", c>>
    /\ tap_inflight[c] = 0
    /\ ctl' = After(c, "wait", "unmark")
    /\ UNCHANGED <<tapVars, active, is_recording, sessions, captureVars, straddled>>

(* is_recording is cleared: the writers make their final drain.            *)
ClearRecording ==
    /\ ctl = <<"unmark", "A">>
    /\ is_recording' = FALSE
    /\ ctl' = <<"drain", "A">>
    /\ UNCHANGED <<tapVars, active, sessions, captureVars, straddled>>

(* gui_record_finalize_stop_sync has joined the writer threads.            *)
WritersJoined ==
    /\ ctl = <<"drain", "A">>
    /\ ctl' = <<"deactivate", "A">>
    /\ UNCHANGED <<tapVars, active, is_recording, sessions, captureVars, straddled>>

Deactivate(c) ==
    /\ ctl = <<"deactivate", c>>
    /\ active' = [active EXCEPT ![c] = FALSE]
    /\ ctl' = After(c, "deactivate", "disarm")
    /\ UNCHANGED <<tapVars, is_recording, sessions, captureVars, straddled>>

DisarmTap(c) ==
    /\ ctl = <<"disarm", c>>
    /\ tap_enabled' = [tap_enabled EXCEPT ![c] = FALSE]
    /\ ctl' = After(c, "disarm", "idle")
    /\ UNCHANGED <<tap_inflight, active, is_recording, sessions, captureVars, straddled>>

RecordStep(c) ==
    \/ ClearContext(c) \/ Activate(c) \/ ResetInflight(c) \/ EnableTap(c)
    \/ DisableTap(c) \/ WaitIdle(c) \/ Deactivate(c) \/ DisarmTap(c)

RecordLayer ==
    \/ \E c \in Channels : RecordStep(c)
    \/ MarkRecording \/ ClearRecording \/ WritersJoined

-----------------------------------------------------------------------------
(* The capture thread: one iteration per pair of card reads.               *)

(* Both cards delivered a chunk.                                           *)
BeginIteration ==
    /\ cap = <<"idle", "A">>
    /\ iterations < MaxIterations
    /\ iterations' = iterations + 1
    /\ cap' = <<"flag", "A">>
    /\ UNCHANGED <<tapVars, controlVars, gate, on, pushed, straddled>>

(* gui_record_direct_tap_channel_active.                                   *)
LoadFlag(c) ==
    /\ cap = <<"flag", c>>
    /\ gate' = [gate EXCEPT ![c] = active[c]]
    /\ cap' = After(c, "flag", "enter")
    /\ UNCHANGED <<tapVars, controlVars, on, pushed, iterations, straddled>>

(* gui_record_direct_tap_iteration_enter: count in, ...                    *)
EnterTap(c) ==
    /\ cap = <<"enter", c>>
    /\ tap_inflight' = [tap_inflight EXCEPT ![c] = IF gate[c] THEN @ + 1 ELSE @]
    /\ cap' = <<"latch", c>>
    /\ UNCHANGED <<tap_enabled, controlVars, gate, on, pushed, iterations, straddled>>

(* Seeded fault: the flag is not read again once the tap is entered.       *)
LatchTap_Fault(c) ==
    /\ cap = <<"latch", c>>
    /\ on' = [on EXCEPT ![c] = TRUE]
    /\ cap' = After(c, "enter", "push")
    /\ UNCHANGED <<tapVars, controlVars, gate, pushed, iterations, straddled>>

(* ... then read the flag.  A channel that is not gated never objects.     *)
LatchTap(c) ==
    /\ cap = <<"latch", c>>
    /\ on' = [on EXCEPT ![c] = gate[c] => tap_enabled[c]]
    /\ cap' = After(c, "enter", "push")
    /\ UNCHANGED <<tapVars, controlVars, gate, pushed, iterations, straddled>>

(* Seeded fault: each channel decides for itself.                          *)
Recorded_Fault(c) == gate[c] /\ on[c]

(* Both chunks are pushed on the same decision.                            *)
Recorded(c) == gate[c] /\ on["A"] /\ on["B"]

PushLatched(c) ==
    /\ cap = <<"push", c>>
    /\ pushed' = [pushed EXCEPT ![c] = IF Recorded(c) THEN @ + 1 ELSE @]
    /\ cap' = After(c, "push", "leave")
    /\ UNCHANGED <<tapVars, controlVars, gate, on, iterations, straddled>>

(* Seeded fault: the iteration counts itself out of taps it never entered. *)
LeaveTapUngated_Fault(c) ==
    /\ cap = <<"leave", c>>
    /\ tap_inflight' = [tap_inflight EXCEPT ![c] = @ - 1]
    /\ cap' = After(c, "leave", "idle")
    /\ UNCHANGED <<tap_enabled, controlVars, gate, on, pushed, iterations, straddled>>

(* Seeded fault: the iteration is never counted out.                       *)
LeaveTapKept_Fault(c) ==
    /\ cap = <<"leave", c>>
    /\ cap' = After(c, "leave", "idle")
    /\ UNCHANGED <<tapVars, controlVars, gate, on, pushed, iterations, straddled>>

LeaveTap(c) ==
    /\ cap = <<"leave", c>>
    /\ tap_inflight' = [tap_inflight EXCEPT ![c] = IF gate[c] THEN @ - 1 ELSE @]
    /\ cap' = After(c, "leave", "idle")
    /\ UNCHANGED <<tap_enabled, controlVars, gate, on, pushed, iterations, straddled>>

IterationStep(c) ==
    LoadFlag(c) \/ EnterTap(c) \/ LatchTap(c) \/ PushLatched(c) \/ LeaveTap(c)

Iteration == \E c \in Channels : IterationStep(c)

TapsNext ==
    \/ StartRecording
    \/ RequestStop
    \/ RecordLayer
    \/ BeginIteration
    \/ Iteration

(* The record layer's calls run on; an iteration that has begun ends (its  *)
(* pushes wait with timeouts).  The device need not deliver another chunk. *)
TapsFairness == WF_tapsVars(RecordLayer) /\ WF_tapsVars(Iteration)

TapsSpec == TapsInit /\ [][TapsNext]_tapsVars

TapsFairSpec == TapsSpec /\ TapsFairness

-----------------------------------------------------------------------------
(* Properties.                                                             *)

ControlStages == {"idle", "clear", "activate", "mark", "reset", "enable",
                  "recording", "disable", "wait", "unmark", "drain",
                  "deactivate", "disarm"}

CaptureStages == {"idle", "flag", "enter", "latch", "push", "leave"}

TapsTypeOK ==
    /\ tap_enabled \in [Channels -> BOOLEAN]
    /\ tap_inflight \in [Channels -> -1 .. 1]
    /\ active \in [Channels -> BOOLEAN]
    /\ is_recording \in BOOLEAN
    /\ ctl \in ControlStages \X Channels
    /\ cap \in CaptureStages \X Channels
    /\ gate \in [Channels -> BOOLEAN]
    /\ on \in [Channels -> BOOLEAN]
    /\ pushed \in [Channels -> Nat]
    /\ iterations \in Nat
    /\ sessions \in Nat
    /\ straddled \in BOOLEAN

(* A push of channel c is still to come in the current iteration.          *)
WillPush(c) ==
    /\ Recorded(c)
    /\ cap = <<"push", "A">> \/ (cap = <<"push", "B">> /\ c = "B")

(* Once the stopper has seen both taps idle, no chunk can reach the ring   *)
(* any more.                                                               *)
Quiet ==
    ctl[1] \in {"unmark", "drain", "deactivate", "disarm", "idle", "clear"}
        => \A c \in Channels : ~WillPush(c)

(* The writers' final drain has no producer beside it                      *)
(* (gui_record_direct.h:112-115): in every schedule in which no iteration  *)
(* straddled the enabling of the taps, in any number of recordings.        *)
QuietAfterStop == straddled \/ Quiet

(* Between iterations as many chunks of A as of B have been pushed.        *)
Paired == cap = <<"idle", "A">> => pushed["A"] = pushed["B"]

(* A recording starts and stops on the same chunk on both channels         *)
(* (gui_record_direct.h:105-109), unless an iteration straddled.           *)
Lockstep == straddled \/ Paired

(* The stop returns: the wait for idle taps, which has no bound of its own *)
(* (gui_record_direct.c:70-75), is bounded by the iteration, unless one    *)
(* straddled.                                                              *)
StopReturns == ctl = <<"disable", "A">> ~> ctl = <<"drain", "A">> \/ straddled
=============================================================================
