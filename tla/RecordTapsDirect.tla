-------------------------- MODULE RecordTapsDirect --------------------------
(***************************************************************************)
(* What RecordDirect takes from RecordTaps.  RecordDirect models one       *)
(* channel of one recording and reduces the stop to two steps: the tap is  *)
(* disabled, and is_recording is cleared once no push is in flight.  Here  *)
(* each channel of the handshake is mapped to the producer and the stop of *)
(* RecordDirect, with a writer that has not run and a spill file that holds*)
(* one chunk already, so that every push is to the spill file: one step.   *)
(***************************************************************************)
EXTENDS RecordTaps

(* The tap as the writer of one recording sees it: on until the stopper    *)
(* has disabled both channels, stopped once is_recording is cleared.       *)
TapOf ==
    IF ctl[1] \in {"wait", "unmark"} THEN "disabled"
    ELSE IF ctl[1] \in {"drain", "deactivate", "disarm", "idle"} THEN "stopped"
    ELSE "on"

(* A push begins when the last tap is latched and ends with the chunk in   *)
(* the queue.                                                              *)
PushOf(c) == IF WillPush(c) THEN "spill" ELSE "idle"

Begun(c) == pushed[c] + (IF WillPush(c) THEN 1 ELSE 0)

(* The chunk the spill file held and those pushed so far.                  *)
SpillOf(c) == [j \in 1 .. pushed[c] + 1 |-> j - 1]

Direct(c) == INSTANCE RecordDirect WITH
    RingSlots <- 1,
    MaxBlock <- 1,
    MaxPushes <- MaxIterations + 1,
    MaxFileFailures <- 0,
    ring <- [x \in {0} |-> -1],
    rhead <- 0,
    rtail <- 0,
    spill <- SpillOf(c),
    tap <- TapOf,
    ppc <- PushOf(c),
    pushes <- Begun(c) + 1,
    accepted <- pushed[c] + 1,
    wpc <- "top",
    stopping <- FALSE,
    from_ring <- FALSE,
    len <- 0,
    write_ok <- TRUE,
    block <- <<>>,
    have_pending <- FALSE,
    file <- <<>>,
    failures <- 0,
    mishaps <- {}

(* The next recording, which RecordDirect does not model: it starts with   *)
(* no push in flight.                                                      *)
NextRecording(c) ==
    /\ TapOf = "stopped"
    /\ TapOf' = "on"
    /\ ~WillPush(c)
    /\ UNCHANGED <<PushOf(c), pushed[c]>>

(* Until an iteration straddles an enable, every step of the handshake is, *)
(* for each channel, a step that RecordDirect allows, the start of the next*)
(* recording, or nothing.  So no push begins after the stopper disabled    *)
(* both taps, and is_recording is not cleared while one is in flight       *)
(* (output/gui_record_direct.h:105-115).                                   *)
ImplementsDirect ==
    [][\/ straddled'
       \/ \A c \in Channels :
              \/ Direct(c)!Next
              \/ NextRecording(c)
              \/ UNCHANGED <<TapOf, PushOf(c), pushed[c]>>]_tapsVars
=============================================================================
