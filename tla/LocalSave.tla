------------------------------ MODULE LocalSave ------------------------------
(***************************************************************************)
(* A recording made on the monitor client: the server's recording writes   *)
(* its files through proxies (net/monitor_local_save_proxy.c), a sender    *)
(* thread streams them over one socket (net/gui_monitor_local_save.c), and *)
(* the client's receiver (net/monitor_local_save_files.c) keeps them as    *)
(* .partial files until a COMMIT renames them all.                         *)
(*                                                                         *)
(* A chunk is what a proxy's cache holds; a file is its header, chunks     *)
(* appended to it, and the header written again before the file is closed. *)
(* Frame coding, checksums, statistics and paths are left out, and so is a *)
(* name already taken on the client, which is one more way to fail there.  *)
(***************************************************************************)
EXTENDS Integers, Sequences, FiniteSets

CONSTANTS
    Files,         \* RF outputs of a recording
    Chunks,        \* bound: chunks of a file after its header
    Window,        \* streamed writes before a SYNC, 8 in the code
    QueueLimit,    \* chunks queued or being sent, 64 MiB in the code
    MaxSessions    \* bound: recordings

ASSUME LocalSaveAssumption ==
    /\ IsFiniteSet(Files) /\ "recording" \notin Files
    /\ {Chunks, MaxSessions} \subseteq Nat
    /\ {Window, QueueLimit} \subseteq Nat \ {0}

VARIABLES
    ctl,     \* the recording, from begin to end, and the flags of the link
    file,    \* the proxies and the threads that write to them
    queue,   \* jobs for the sender
    snd,     \* the sender thread
    conn,    \* the socket: "none", "up" or "down"
    wire,    \* frames on their way to the client
    acks,    \* and the client's answers
    cli,     \* the client's receiver
    disk     \* files on the client

vars == <<ctl, file, queue, snd, conn, wire, acks, cli, disk>>

link == <<conn, wire, acks>>

NoFile == [name |-> "none", data |-> <<>>]

(* bad: the proxy takes no more; error: the writer thread saw it fail.     *)
NoProxy == [pc |-> "none", n |-> 0, cache |-> <<>>, bad |-> FALSE, error |-> FALSE, res |-> "wait"]

FreshReceiver == [up |-> TRUE, open |-> {}, closed |-> {}]

Idle(pc) == [pc |-> pc, job |-> <<>>, out |-> 0, ok |-> TRUE]

Init ==
    /\ ctl = [phase |-> "idle", session |-> 0, active |-> FALSE, failed |-> FALSE, record |-> FALSE,
              stop |-> FALSE, commit |-> FALSE, res |-> "wait", complete |-> FALSE]
    /\ file = [f \in Files |-> NoProxy]
    /\ queue = <<>> /\ snd = Idle("exited")
    /\ conn = "none" /\ wire = <<>> /\ acks = <<>>
    /\ cli = [FreshReceiver EXCEPT !.up = FALSE]
    /\ disk = [f \in Files |-> NoFile]

-----------------------------------------------------------------------------
(* gui_monitor_local_save_send.  A job is refused when the link or the     *)
(* queue has stopped, or when there is no memory for it; a write waits for *)
(* room first.                                                             *)

Job(type, f, chunk) == [type |-> type, f |-> f, chunk |-> chunk]

Writes(s) == Cardinality({i \in DOMAIN s : s[i].type = "WRITE"})

Queued == Writes(queue) + Writes(IF snd.pc \in {"exited", "idle"} THEN <<>> ELSE <<snd.job>>)

Room == Queued < QueueLimit

Closed == ctl.stop \/ ctl.failed \/ ~ctl.active \/ ~ctl.record

Enqueue(job) ==
    /\ ~Closed
    /\ job.type = "WRITE" => Room
    /\ queue' = Append(queue, job)

Refuse(type) ==
    /\ type = "WRITE" => ctl.stop \/ ctl.failed \/ Room
    /\ UNCHANGED queue

-----------------------------------------------------------------------------
(* The proxies.                                                            *)

Proxy(f, change) ==
    /\ file' = [file EXCEPT ![f] = change]
    /\ UNCHANGED <<ctl, snd, link, cli, disk>>

Ask(f, type, waiting, refused) ==
    \/ Enqueue(Job(type, f, <<>>)) /\ Proxy(f, [file[f] EXCEPT !.pc = waiting, !.res = "wait"])
    \/ Refuse(type) /\ Proxy(f, [file[f] EXCEPT !.pc = refused])

(* One thread opens the files in turn; another, when the writers are done, *)
(* rewrites their headers and then closes them in turn.                    *)
Others(f, pcs) == \A g \in Files \ {f} : file[g].pc \in pcs

OpenFile(f) ==
    /\ ctl.phase = "starting" /\ file[f].pc = "none"
    /\ Others(f, {"none", "writing"})
    /\ Ask(f, "OPEN", "opening", "refused")

Opened(f) ==
    /\ file[f].pc = "opening" /\ file[f].res # "wait"
    /\ Proxy(f, [file[f] EXCEPT !.pc = IF file[f].res = "ok" THEN "writing" ELSE "refused"])
    /\ UNCHANGED queue

Finishing == {"none", "refused", "header", "done"}

(* A chunk goes to the cache, the header first.                            *)
Put(f) ==
    /\ ctl.phase = "recording" /\ file[f].pc = "writing"
    /\ ~file[f].bad /\ file[f].cache = <<>> /\ file[f].n <= Chunks
    /\ Proxy(f, [file[f] EXCEPT !.cache = <<file[f].n, 1>>, !.n = @ + 1])
    /\ UNCHANGED queue

(* Only a writer thread sets s_record_write_error; what fails when the     *)
(* recording is over is noticed by the CLOSE alone.                        *)
Flush(f) ==
    /\ file[f].pc = "writing" \/ (file[f].pc = "header" /\ Others(f, Finishing))
    /\ file[f].cache # <<>> /\ ~file[f].bad
    /\ \/ Enqueue(Job("WRITE", f, file[f].cache)) /\ Proxy(f, [file[f] EXCEPT !.cache = <<>>])
       \/ Refuse("WRITE") /\ Proxy(f, [file[f] EXCEPT !.bad = TRUE, !.error = (ctl.phase = "recording")])

Flushed_Fault(f) == TRUE

Flushed(f) == file[f].cache = <<>> \/ file[f].bad

(* The recording is over: the cache is flushed and the header rewritten.   *)
Rewrite(f) ==
    /\ ctl.phase \in {"stopping", "givingUp"}
    /\ file[f].pc = "writing" /\ Flushed(f)
    /\ Proxy(f, [file[f] EXCEPT !.pc = "header",
                                !.cache = IF file[f].bad \/ file[f].n = 0 THEN @ ELSE <<0, 2>>])
    /\ UNCHANGED queue

(* mls_proxy_close asks for a CLOSE only after everything was sent.        *)
Sound(f) == ~file[f].bad /\ ~ctl.failed

CloseFile(f) ==
    /\ file[f].pc = "header" /\ Flushed(f)
    /\ Others(f, Finishing)
    /\ IF Sound(f) THEN Ask(f, "CLOSE", "closing", "abort")
       ELSE Proxy(f, [file[f] EXCEPT !.pc = "abort"]) /\ UNCHANGED queue

CloseAnswered(f) ==
    /\ file[f].pc = "closing" /\ file[f].res # "wait"
    /\ Proxy(f, [file[f] EXCEPT !.pc = IF file[f].res = "ok" THEN "done" ELSE "abort"])
    /\ UNCHANGED queue

AbortFile(f) ==
    /\ file[f].pc = "abort"
    /\ Ask(f, "ABORT", "aborting", "done")

Aborted(f) ==
    /\ file[f].pc = "aborting" /\ file[f].res # "wait"
    /\ Proxy(f, [file[f] EXCEPT !.pc = "done"])
    /\ UNCHANGED queue

-----------------------------------------------------------------------------
(* The sender thread.                                                      *)

Usable == ctl.record /\ ctl.active /\ ~ctl.failed /\ conn # "none"

MarkFailed == ctl' = [ctl EXCEPT !.failed = TRUE, !.active = FALSE]

(* A SYNC after a window of writes, and before every other request.        *)
Barrier(out, job) == out >= Window \/ (out > 0 /\ job.type # "WRITE")

Plan(s) ==
    [s EXCEPT !.pc = IF ~s.ok THEN "finish"
                     ELSE IF Barrier(s.out, s.job) THEN "sync"
                     ELSE IF s.job.type # "WRITE" THEN "control"
                     ELSE "finish"]

TakeJob_Fault ==
    /\ snd.pc = "idle" /\ queue # <<>> /\ ~ctl.failed
    /\ queue' = Tail(queue)
    /\ LET s == [snd EXCEPT !.job = Head(queue), !.ok = TRUE]
       IN  snd' = IF s.job.type = "WRITE" THEN [s EXCEPT !.pc = "stream"] ELSE Plan(s)
    /\ UNCHANGED <<ctl, file, link, cli, disk>>

TakeJob ==
    /\ snd.pc = "idle" /\ queue # <<>>
    /\ queue' = Tail(queue)
    /\ LET s == [snd EXCEPT !.job = Head(queue), !.ok = TRUE]
       IN  snd' = IF s.job.type = "WRITE" THEN [s EXCEPT !.pc = "stream"] ELSE Plan(s)
    /\ UNCHANGED <<ctl, file, link, cli, disk>>

SenderExits ==
    /\ snd.pc = "idle" /\ queue = <<>> /\ ctl.stop
    /\ snd' = Idle("exited")
    /\ UNCHANGED <<ctl, file, queue, link, cli, disk>>

Transmit(frame) == wire' = IF conn = "up" THEN Append(wire, frame) ELSE wire

StreamChunk ==
    /\ snd.pc = "stream" /\ Usable
    /\ Transmit(snd.job)
    /\ snd' = Plan([snd EXCEPT !.out = @ + 1])
    /\ UNCHANGED <<ctl, file, queue, conn, acks, cli, disk>>

(* A frame that is to be acknowledged; the thread waits for the answer.    *)
Request ==
    /\ snd.pc \in {"sync", "control"} /\ Usable
    /\ Transmit(IF snd.pc = "sync" THEN Job("SYNC", snd.job.f, <<>>) ELSE snd.job)
    /\ snd' = [snd EXCEPT !.pc = IF @ = "sync" THEN "syncing" ELSE "asking"]
    /\ UNCHANGED <<ctl, file, queue, conn, acks, cli, disk>>

SendFails ==
    /\ snd.pc \in {"stream", "sync", "control"}
    /\ snd' = [snd EXCEPT !.pc = "finish", !.ok = FALSE, !.out = IF snd.pc = "sync" THEN 0 ELSE @]
    /\ \/ ~Usable /\ UNCHANGED ctl
       \/ Usable /\ conn = "down" /\ MarkFailed
    /\ UNCHANGED <<file, queue, link, cli, disk>>

Accepts_Fault(ack) == TRUE

Accepts(ack) == ack

Acknowledged ==
    /\ snd.pc \in {"syncing", "asking"} /\ acks # <<>> /\ Accepts(Head(acks))
    /\ acks' = Tail(acks)
    /\ snd' = IF snd.pc = "syncing" THEN Plan([snd EXCEPT !.out = 0]) ELSE [snd EXCEPT !.pc = "finish"]
    /\ UNCHANGED <<ctl, file, queue, conn, wire, cli, disk>>

(* An error, a broken connection, or no answer within 15 seconds.          *)
NotAcknowledged ==
    /\ snd.pc \in {"syncing", "asking"}
    /\ MarkFailed
    /\ snd' = [snd EXCEPT !.pc = "finish", !.ok = FALSE, !.out = IF snd.pc = "syncing" THEN 0 ELSE @]
    /\ UNCHANGED <<file, queue, link, cli, disk>>

FinishJob ==
    /\ snd.pc = "finish"
    /\ snd' = [snd EXCEPT !.pc = "idle", !.job = <<>>, !.ok = TRUE]
    /\ LET res == IF snd.ok THEN "ok" ELSE "fail"
       IN  IF snd.job.type = "WRITE" THEN UNCHANGED <<file, ctl>>
           ELSE IF snd.job.f \in Files
                THEN file' = [file EXCEPT ![snd.job.f].res = res] /\ UNCHANGED ctl
                ELSE ctl' = [ctl EXCEPT !.res = res] /\ UNCHANGED file
    /\ UNCHANGED <<queue, link, cli, disk>>

-----------------------------------------------------------------------------
(* The recording.                                                          *)

Control(change) ==
    /\ ctl' = change
    /\ UNCHANGED <<link, cli>>

Begin ==
    /\ ctl.phase = "idle" /\ ctl.session < MaxSessions
    /\ ctl.active /\ ~ctl.failed
    /\ Control([ctl EXCEPT !.phase = "starting", !.session = @ + 1, !.record = TRUE, !.stop = FALSE,
                           !.complete = FALSE])
    /\ queue' = <<>> /\ snd' = Idle("idle")
    /\ file' = [f \in Files |-> NoProxy] /\ disk' = [f \in Files |-> NoFile]

StartRecording ==
    /\ ctl.phase = "starting" /\ \A f \in Files : file[f].pc = "writing"
    /\ Control([ctl EXCEPT !.phase = "recording"])
    /\ UNCHANGED <<file, queue, snd, disk>>

StartFails ==
    /\ ctl.phase = "starting"
    /\ \E f \in Files : file[f].pc = "refused"
    /\ \A f \in Files : file[f].pc # "opening"
    /\ Control([ctl EXCEPT !.phase = "givingUp"])
    /\ UNCHANGED <<file, queue, snd, disk>>

(* The user stops, or a writer that failed; a failed link is polled for.   *)
StopRecording ==
    /\ ctl.phase = "recording"
    /\ Control([ctl EXCEPT !.phase = "stopping"])
    /\ UNCHANGED <<file, queue, snd, disk>>

Good(drops) == ~drops /\ ~ctl.failed /\ \A f \in Files : ~file[f].error

(* gui_monitor_local_save_end, once every proxy is closed.                 *)
EndRecording ==
    /\ ctl.phase \in {"stopping", "givingUp"}
    /\ \A f \in Files : file[f].pc \in {"none", "refused", "done"}
    /\ \E drops \in BOOLEAN :
         LET commit == ctl.phase = "stopping" /\ Good(drops)
         IN  \/ /\ commit \/ (ctl.active /\ ~ctl.failed)
                /\ Enqueue(Job(IF commit THEN "COMMIT" ELSE "ABORT", "recording", <<>>))
                /\ Control([ctl EXCEPT !.phase = "ending", !.commit = commit, !.res = "wait"])
             \/ /\ Refuse("COMMIT")
                /\ Control([ctl EXCEPT !.phase = "joining", !.stop = TRUE])
    /\ UNCHANGED <<file, snd, disk>>

EndAnswered ==
    /\ ctl.phase = "ending" /\ ctl.res # "wait"
    /\ Control([ctl EXCEPT !.phase = "joining", !.stop = TRUE, !.complete = ctl.commit /\ ctl.res = "ok"])
    /\ UNCHANGED <<file, queue, snd, disk>>

JoinSender ==
    /\ ctl.phase = "joining" /\ snd.pc = "exited"
    /\ Control([ctl EXCEPT !.phase = "idle", !.record = FALSE, !.res = "wait", !.commit = FALSE])
    /\ UNCHANGED <<file, queue, snd, disk>>

-----------------------------------------------------------------------------
(* The socket: the client attaches, the network fails, the server's thread *)
(* for the connection closes it.                                           *)

Attach ==
    /\ conn = "none" /\ ~cli.up
    /\ ~ctl.active /\ ~ctl.record
    /\ ctl.session < MaxSessions
    /\ ctl' = [ctl EXCEPT !.active = TRUE, !.failed = FALSE]
    /\ conn' = "up" /\ wire' = <<>> /\ acks' = <<>> /\ cli' = FreshReceiver
    /\ UNCHANGED <<file, queue, snd, disk>>

NetworkFails ==
    /\ conn = "up"
    /\ conn' = "down"
    /\ UNCHANGED <<ctl, file, queue, snd, wire, acks, cli, disk>>

Detach ==
    /\ conn # "none" /\ snd.pc \notin {"syncing", "asking"}
    /\ ~ctl.active \/ (~ctl.record /\ conn = "down")
    /\ conn' = "none"
    /\ ctl' = [ctl EXCEPT !.active = FALSE, !.failed = TRUE]
    /\ UNCHANGED <<file, queue, snd, wire, acks, cli, disk>>

-----------------------------------------------------------------------------
(* The client's receiver.                                                  *)

Hangs == cli' = [cli EXCEPT !.up = FALSE, !.open = {}, !.closed = {}]

(* Every file opened was closed; nothing is renamed before that.           *)
Committable == cli.closed # {} /\ cli.open = {}

Stored(f, chunk) ==
    [p \in 1 .. (IF chunk[1] < Len(disk[f].data) THEN Len(disk[f].data) ELSE chunk[1] + 1) |->
        IF p = chunk[1] + 1 THEN chunk[2]
        ELSE IF p \in DOMAIN disk[f].data THEN disk[f].data[p] ELSE 0]

(* A frame applied without an error.                                       *)
Apply(frame) ==
    CASE frame.type = "OPEN" ->
           /\ frame.f \notin cli.open \cup cli.closed
           /\ cli' = [cli EXCEPT !.open = @ \cup {frame.f}]
           /\ disk' = [disk EXCEPT ![frame.f].name = "partial"]
      [] frame.type = "WRITE" ->
           /\ frame.f \in cli.open
           /\ disk' = [disk EXCEPT ![frame.f].data = Stored(frame.f, frame.chunk)]
           /\ UNCHANGED cli
      [] frame.type = "SYNC" -> UNCHANGED <<cli, disk>>
      [] frame.type = "CLOSE" ->
           /\ frame.f \in cli.open
           /\ cli' = [cli EXCEPT !.open = @ \ {frame.f}, !.closed = @ \cup {frame.f}]
           /\ UNCHANGED disk
      [] frame.type = "ABORT" -> Hangs /\ UNCHANGED disk
      [] frame.type = "COMMIT" ->
           /\ Committable
           /\ disk' = [f \in Files |-> IF f \in cli.closed THEN [disk[f] EXCEPT !.name = "final"]
                                       ELSE disk[f]]
           /\ cli' = FreshReceiver

(* Frames on a socket are still read after the server has closed it.       *)
Receive ==
    /\ cli.up /\ wire # <<>>
    /\ Apply(Head(wire))
    /\ wire' = Tail(wire)
    /\ acks' = IF Head(wire).type = "WRITE" \/ conn # "up" THEN acks ELSE Append(acks, TRUE)
    /\ conn' = IF conn = "up" /\ Head(wire).type = "ABORT" THEN "down" ELSE conn
    /\ UNCHANGED <<ctl, file, queue, snd>>

(* A full disk, a bad frame, a rename that fails: the renames already made *)
(* are undone, or some are left.                                           *)
ReceiveFails ==
    /\ cli.up /\ wire # <<>>
    /\ Hangs
    /\ IF Head(wire).type = "COMMIT" /\ Committable
       THEN \E renamed \in SUBSET cli.closed :
              /\ renamed # cli.closed
              /\ disk' = [f \in Files |-> IF f \in renamed THEN [disk[f] EXCEPT !.name = "final"]
                                          ELSE disk[f]]
       ELSE UNCHANGED disk
    /\ wire' = Tail(wire)
    /\ acks' = IF conn = "up" THEN Append(acks, FALSE) ELSE acks
    /\ conn' = IF conn = "up" THEN "down" ELSE conn
    /\ UNCHANGED <<ctl, file, queue, snd>>

(* The user stops it, it crashes, or its socket breaks.                    *)
ReceiverEnds ==
    /\ cli.up
    /\ Hangs
    /\ wire' = <<>>
    /\ conn' = IF conn = "up" THEN "down" ELSE conn
    /\ UNCHANGED <<ctl, file, queue, snd, acks, disk>>

-----------------------------------------------------------------------------
ProxyStep(f) ==
    \/ OpenFile(f) \/ Opened(f) \/ Put(f) \/ Flush(f) \/ Rewrite(f)
    \/ CloseFile(f) \/ CloseAnswered(f) \/ AbortFile(f) \/ Aborted(f)

Sender ==
    \/ TakeJob \/ SenderExits \/ StreamChunk \/ Request \/ SendFails
    \/ Acknowledged \/ NotAcknowledged \/ FinishJob

Recording ==
    Begin \/ StartRecording \/ StartFails \/ StopRecording \/ EndRecording \/ EndAnswered \/ JoinSender

Environment == Attach \/ NetworkFails \/ Detach \/ Receive \/ ReceiveFails \/ ReceiverEnds

Next == (\E f \in Files : ProxyStep(f)) \/ Sender \/ Recording \/ Environment

(* Threads run and socket calls end within 15 seconds; nothing is asked of *)
(* the client or the network.  The server's poll stops a failed recording. *)
Fairness ==
    /\ \A f \in Files : WF_vars(ProxyStep(f))
    /\ WF_vars(Sender)
    /\ WF_vars(StartRecording \/ StartFails \/ EndRecording \/ EndAnswered \/ JoinSender)
    /\ WF_vars(ctl.failed /\ StopRecording)

Spec == Init /\ [][Next]_vars /\ Fairness

-----------------------------------------------------------------------------
(* What a proxy was given to write: its chunks, and the header twice.      *)
Whole(f) == [p \in 1 .. file[f].n |-> IF p = 1 THEN 2 ELSE 1]

Ended == ctl.phase = "idle" /\ ctl.session > 0

(* Types; the queue keeps its limit (gui_monitor_local_save.c:117-122).    *)
TypeOK ==
    /\ ctl.phase \in {"idle", "starting", "recording", "givingUp", "stopping", "ending", "joining"}
    /\ conn \in {"none", "up", "down"} /\ cli.open \cup cli.closed \subseteq Files
    /\ snd.out \in 0 .. Window
    /\ Queued <= QueueLimit
    /\ ctl.active => conn # "none" /\ ~ctl.failed

(* A file gets its final name only with everything that was written to it, *)
(* in its last version (monitor_local_save_files.c:76-103).                 *)
FinalIsWhole == \A f \in Files : disk[f].name = "final" => disk[f].data = Whole(f)

(* A recording reported as committed has all its files under their final   *)
(* names, whatever was lost, late or refused on the way                    *)
(* (gui_record.c:3480-3488).                                               *)
CommittedIsFinal == ctl.complete => \A f \in Files : disk[f].name = "final"

(* A recording that stops, or whose link fails, is ended, though the       *)
(* client may never answer (gui_monitor_local_save.c:322-388).             *)
EndsAnyway ==
    (ctl.phase = "stopping" \/ (ctl.phase = "recording" /\ ctl.failed)) ~> ctl.phase = "idle"

(* A recording that is not reported as committed has left .partial files:  *)
(* "incomplete session; .partial client files retained"                    *)
(* (gui_record.c:3487).                                                    *)
IncompleteStaysPartial ==
    Ended /\ ~ctl.complete => \A f \in Files : disk[f].name # "final"
=============================================================================
