-------------------------- MODULE LocalSaveProofs --------------------------
(***************************************************************************)
(* Proofs about LocalSave: a name is final only over whole data, and a     *)
(* recording reported as committed has every file under its final name.    *)
(*                                                                         *)
(* The invariant follows a chunk from a proxy's cache through the queue,   *)
(* the sender and the socket to the disk.  It rests on two facts about the *)
(* order of frames: a request is the last thing in the queue, in the       *)
(* sender and on the wire, and by the time it is sent a SYNC has emptied   *)
(* the wire of the recording's writes.                                     *)
(***************************************************************************)
EXTENDS LocalSave, FiniteSetTheorems, SequenceTheorems, TLAPS

-----------------------------------------------------------------------------
(* Types.                                                                  *)

ProxyPcs ==
    {"none", "opening", "refused", "writing", "header", "closing", "abort", "aborting", "done"}

SenderPcs == {"exited", "idle", "stream", "sync", "syncing", "control", "asking", "finish"}

Answers == {"wait", "ok", "fail"}

Chunk == Nat \X {1, 2}

Jobs ==
    [type : {"OPEN", "CLOSE"}, f : Files, chunk : {<<>>}]
      \cup [type : {"WRITE"}, f : Files, chunk : Chunk]
      \cup [type : {"ABORT", "SYNC"}, f : Files \cup {"recording"}, chunk : {<<>>}]
      \cup [type : {"COMMIT"}, f : {"recording"}, chunk : {<<>>}]

Recordings ==
    [phase : {"idle", "starting", "recording", "givingUp", "stopping", "ending", "joining"},
     session : Nat, active : BOOLEAN, failed : BOOLEAN, record : BOOLEAN, stop : BOOLEAN,
     commit : BOOLEAN, res : Answers, complete : BOOLEAN]

Proxies ==
    [pc : ProxyPcs, n : Nat, cache : {<<>>} \cup Chunk, bad : BOOLEAN, error : BOOLEAN,
     res : Answers]

Senders == [pc : SenderPcs, job : Jobs \cup {<<>>}, out : Nat, ok : BOOLEAN]

Receivers == [up : BOOLEAN, open : SUBSET Files, closed : SUBSET Files]

DiskFiles == [name : {"none", "partial", "final"}, data : Seq({0, 1, 2})]

Typed ==
    /\ ctl \in Recordings
    /\ file \in [Files -> Proxies]
    /\ queue \in Seq(Jobs)
    /\ snd \in Senders
    /\ conn \in {"none", "up", "down"}
    /\ wire \in Seq(Jobs) /\ acks \in Seq(BOOLEAN)
    /\ cli \in Receivers
    /\ disk \in [Files -> DiskFiles]

-----------------------------------------------------------------------------
(* The link, the recording and the sender.                                 *)

Waiting == {"syncing", "asking"}

LinkInv ==
    /\ ctl.active => conn # "none" /\ ~ctl.failed
    /\ ctl.record <=> ctl.phase # "idle"
    /\ ctl.record /\ ~ctl.failed => ctl.active
    /\ conn = "up" => cli.up
    /\ cli.open \cap cli.closed = {}
    /\ ctl.phase \notin {"idle", "joining"} => ~ctl.stop
    /\ ctl.complete => ctl.phase \in {"idle", "joining"}

SenderInv ==
    /\ ctl.phase = "idle" => snd.pc = "exited"
    /\ snd.pc = "exited" => ctl.phase \in {"idle", "joining"}
    /\ snd.pc \in Waiting => ~ctl.failed
    /\ snd.job = <<>> <=> snd.pc \in {"exited", "idle"}
    /\ snd.pc # "finish" => snd.ok
    /\ snd.pc = "stream" => snd.job.type = "WRITE"
    /\ snd.pc \in {"control", "asking"} => snd.job.type # "WRITE"
    /\ snd.pc \notin {"sync", "syncing", "control", "asking"} => snd.out < Window
    /\ snd.pc \in {"sync", "syncing"} => snd.out <= Window
    /\ snd.pc \in {"control", "asking"} => snd.out = 0

-----------------------------------------------------------------------------
(* The proxies, one turn at a time, and the jobs they have asked for.      *)

Current(f) == file[f].pc \notin {"none", "opening", "refused"}

Phase(f) ==
    /\ ctl.phase \in {"idle", "ending", "joining"} => file[f].pc \in {"none", "refused", "done"}
    /\ ctl.phase = "starting" => file[f].pc \in {"none", "opening", "refused", "writing"}
    /\ ctl.phase = "recording" => file[f].pc = "writing"
    /\ ctl.phase = "stopping" => Current(f)
    /\ ctl.phase = "givingUp" => file[f].pc # "opening"
    /\ ctl.phase = "ending" /\ ctl.commit => file[f].pc = "done"

Empty(f) == file[f].n = 0 /\ file[f].cache = <<>> /\ ~file[f].bad

Cached(f) ==
    /\ ctl.phase \in {"starting", "givingUp"} \/ ~Current(f) => Empty(f)
    /\ file[f].cache # <<>> => file[f].cache[1] < file[f].n
    /\ file[f].pc = "writing" /\ file[f].cache # <<>> => file[f].cache[2] = 1
    /\ file[f].pc = "header" /\ ~file[f].bad => file[f].cache \in {<<>>, <<0, 2>>}
    /\ file[f].pc = "closing" => ~file[f].bad /\ file[f].cache = <<>>

Turn(f) ==
    /\ file[f].pc = "opening" => Others(f, {"none", "writing"})
    /\ file[f].pc \in {"closing", "abort", "aborting"} => Others(f, Finishing)

ProxyInv == \A f \in Files : Phase(f) /\ Cached(f) /\ Turn(f)

IsWrite(j, f) == j.type = "WRITE" /\ j.f = f

WriteOK(j) ==
    /\ j.chunk[1] < file[j.f].n
    /\ j.chunk[2] = 2 => j.chunk[1] = 0 /\ file[j.f].pc # "writing"

Asks(f, pc) == file[f].pc = pc /\ file[f].res = "wait"

JobOK(j) ==
    /\ j.type = "WRITE" => Current(j.f) /\ WriteOK(j)
    /\ j.type = "OPEN" => Asks(j.f, "opening")
    /\ j.type = "CLOSE" => Asks(j.f, "closing")
    /\ j.type = "ABORT" /\ j.f \in Files => Asks(j.f, "aborting")
    /\ j.f = "recording" =>
         /\ ctl.phase = "ending" /\ ctl.res = "wait"
         /\ ctl.commit <=> j.type = "COMMIT"
    /\ j.type # "SYNC"

Held == snd.job # <<>>

JobsInv ==
    /\ \A i \in DOMAIN queue :
         /\ JobOK(queue[i])
         /\ queue[i].type # "WRITE" => i = Len(queue)
    /\ Held => JobOK(snd.job)
    /\ Held /\ snd.job.type # "WRITE" => queue = <<>>

-----------------------------------------------------------------------------
(* Frames and answers.                                                     *)

Asked == IF snd.pc = "syncing" THEN Job("SYNC", snd.job.f, <<>>) ELSE snd.job

AcksInv ==
    ~ctl.failed =>
        /\ acks \in {<<>>, <<TRUE>>, <<FALSE>>}
        /\ acks = <<FALSE>> => conn # "up"
        /\ acks = <<TRUE>> => snd.pc \in Waiting /\ (cli.up => wire = <<>>)

FrameOK(i) ==
    /\ wire[i].type # "WRITE" => i = Len(wire)
    /\ wire[i].type # "WRITE" /\ ~ctl.failed => snd.pc \in Waiting /\ wire[i] = Asked
    /\ wire[i].type = "WRITE" => wire[i].f \in cli.open
    /\ wire[i].type = "WRITE" /\ ctl.record /\ Current(wire[i].f) =>
         WriteOK(wire[i]) /\ (ctl.failed \/ snd.pc = "exited" \/ snd.out > 0)

WireInv == cli.up => \A i \in DOMAIN wire : FrameOK(i)

-----------------------------------------------------------------------------
(* From the cache to the disk.                                             *)

NoWrites(s, f) == \A i \in DOMAIN s : ~IsWrite(s[i], f)

OpenAnswered(f) ==
    \/ snd.pc = "asking" /\ acks = <<TRUE>> /\ snd.job.type = "OPEN" /\ snd.job.f = f
    \/ snd.pc = "finish" /\ snd.ok /\ snd.job.type = "OPEN" /\ snd.job.f = f
    \/ file[f].pc = "opening" /\ file[f].res = "ok"

Opens(f) ==
    /\ ctl.record /\ f \notin cli.open \cup cli.closed /\ ~Current(f) => disk[f].data = <<>>
    /\ OpenAnswered(f) => f \in cli.open /\ disk[f].data = <<>> /\ NoWrites(wire, f)
    /\ ctl.record /\ Current(f) => f \in cli.open \cup cli.closed \/ disk[f].name = "final"
    /\ ctl.record /\ Current(f) => Len(disk[f].data) <= file[f].n

Closing(f) == f \in cli.closed \/ \E i \in DOMAIN wire : wire[i].type = "CLOSE" /\ wire[i].f = f

Closes(f) ==
    /\ Closing(f) =>
         /\ disk[f].data = Whole(f)
         /\ file[f].pc \notin {"writing", "header"}
         /\ NoWrites(wire, f) /\ NoWrites(queue, f)
         /\ ~(snd.pc = "stream" /\ IsWrite(snd.job, f))
    /\ \A i \in DOMAIN wire : wire[i].type = "CLOSE" /\ wire[i].f = f => Current(f)

DiskInv == cli.up => \A f \in Files : Opens(f) /\ Closes(f)

(* Position p of a file is on the disk in version v, or on its way there   *)
(* with no other version behind it.                                        *)
Version(f, p) == IF p = 1 /\ file[f].pc # "writing" THEN 2 ELSE 1

Other(j, f, p, v) == IsWrite(j, f) /\ j.chunk[1] = p - 1 /\ j.chunk[2] # v

NoOther(s, f, p, v) == \A i \in DOMAIN s : ~Other(s[i], f, p, v)

Streams(j, f, p, v) == IsWrite(j, f) /\ j.chunk = <<p - 1, v>>

LastIn(s, f, p, v) ==
    \E i \in DOMAIN s : Streams(s[i], f, p, v) /\ \A k \in DOMAIN s : k > i => ~Other(s[k], f, p, v)

HeldOther(f, p, v) == snd.pc = "stream" /\ Other(snd.job, f, p, v)

Landed(f, p, v) ==
    \/ LastIn(wire, f, p, v)
    \/ /\ NoOther(wire, f, p, v)
       /\ p \in DOMAIN disk[f].data /\ disk[f].data[p] = v

Left(f, p, v) ==
    \/ LastIn(queue, f, p, v)
    \/ /\ NoOther(queue, f, p, v)
       /\ \/ snd.pc = "stream" /\ Streams(snd.job, f, p, v)
          \/ ~HeldOther(f, p, v) /\ Landed(f, p, v)

Arrives(f, p, v) == file[f].cache = <<p - 1, v>> \/ Left(f, p, v)

Live == ctl.record /\ ~ctl.failed /\ conn = "up"

NothingLost ==
    Live => \A f \in Files :
              file[f].pc \in {"writing", "header", "closing"} /\ ~file[f].bad =>
                \A p \in 1 .. file[f].n : Arrives(f, p, Version(f, p))

-----------------------------------------------------------------------------
(* The commit.                                                             *)

Over ==
    /\ ctl.phase \in {"ending", "joining", "idle"}
    /\ queue = <<>>
    /\ snd.pc \in {"asking", "finish", "idle", "exited"}

AllFinal == \A f \in Files : disk[f].name = "final"

CommitAnswered ==
    \/ snd.pc = "asking" /\ acks = <<TRUE>> /\ snd.job.type = "COMMIT"
    \/ snd.pc = "finish" /\ snd.ok /\ snd.job.type = "COMMIT"
    \/ ctl.phase = "ending" /\ ctl.commit /\ ctl.res = "ok"
    \/ ctl.complete

CommitInv ==
    /\ (\E i \in DOMAIN wire : wire[i].type = "COMMIT") /\ cli.up => Over
    /\ (\E f \in Files : disk[f].name = "final") => Over /\ (cli.up => wire = <<>>)
    /\ FinalIsWhole
    /\ CommitAnswered => AllFinal

IInv ==
    /\ Typed /\ LinkInv /\ SenderInv /\ ProxyInv /\ JobsInv
    /\ AcksInv /\ WireInv /\ DiskInv /\ NothingLost /\ CommitInv

-----------------------------------------------------------------------------
(* Type correctness, and what the steps of the proxies do field by field.  *)

LEMMA InitTyped == Init => Typed
  <1> SUFFICES ASSUME Init PROVE Typed
    OBVIOUS
  <1>1. ctl \in Recordings BY DEF Init, Recordings, Answers
  <1>2. NoProxy \in Proxies BY DEF NoProxy, Proxies, ProxyPcs, Answers
  <1>3. Idle("exited") \in Senders BY DEF Idle, Senders, SenderPcs
  <1>4. cli \in Receivers BY DEF Init, Receivers, FreshReceiver
  <1>5. NoFile \in DiskFiles BY DEF NoFile, DiskFiles
  <1> QED BY <1>1, <1>2, <1>3, <1>4, <1>5 DEF Init, Typed

(* What the proxies and the recording ask for is a job.                    *)
LEMMA JobTyped ==
  ASSUME NEW f \in Files \cup {"recording"}, NEW type, NEW chunk,
         \/ type \in {"OPEN", "CLOSE"} /\ f \in Files /\ chunk = <<>>
         \/ type = "WRITE" /\ f \in Files /\ chunk \in Chunk
         \/ type \in {"ABORT", "SYNC"} /\ chunk = <<>>
         \/ type = "COMMIT" /\ f = "recording" /\ chunk = <<>>
  PROVE  Job(type, f, chunk) \in Jobs
  BY DEF Job, Jobs

(* A step of a proxy writes its own record and may append one job.         *)
Appends(j) == queue' = queue \/ queue' = Append(queue, j)

(* A step that writes one proxy and appends at most one job.               *)
LEMMA ProxyUpdate ==
  ASSUME Typed, NEW f \in Files, NEW r \in Proxies, Proxy(f, r),
         NEW j \in Jobs, Appends(j)
  PROVE  Typed' /\ file'[f] = r /\ \A g \in Files \ {f} : file'[g] = file[g]
  <1>1. file \in [Files -> Proxies] /\ file' = [file EXCEPT ![f] = r] BY DEF Typed, Proxy
  <1>2. file' \in [Files -> Proxies] BY <1>1
  <1>3. queue' \in Seq(Jobs)
    <2>1. queue \in Seq(Jobs) BY DEF Typed
    <2> QED BY <2>1 DEF Appends
  <1>4. Typed' BY <1>2, <1>3 DEF Typed, Proxy, link
  <1> QED BY <1>1, <1>4

(* Every step of a proxy is of that form.                                  *)
LEMMA ProxyStepUpdate ==
  ASSUME Typed, NEW f \in Files, ProxyStep(f)
  PROVE  \E r \in Proxies : \E j \in Jobs : Proxy(f, r) /\ Appends(j)
  <1>0. file[f] \in Proxies BY DEF Typed
  <1>b. Job("OPEN", f, <<>>) \in Jobs /\ Job("CLOSE", f, <<>>) \in Jobs
        /\ Job("ABORT", f, <<>>) \in Jobs
    BY JobTyped
  <1>p. \A pc \in ProxyPcs : [file[f] EXCEPT !.pc = pc] \in Proxies
    BY <1>0 DEF Proxies
  <1>r. \A pc \in ProxyPcs : [file[f] EXCEPT !.pc = pc, !.res = "wait"] \in Proxies
    BY <1>0 DEF Proxies, Answers
  <1>1. CASE OpenFile(f)
    BY <1>1, <1>b, <1>p, <1>r DEF OpenFile, Ask, Enqueue, Refuse, Appends, ProxyPcs
  <1>2. CASE Opened(f)
    BY <1>2, <1>b, <1>p DEF Opened, Appends, ProxyPcs
  <1>3. CASE Put(f)
    <2>1. file[f].n \in Nat BY <1>0 DEF Proxies
    <2>2. <<file[f].n, 1>> \in Chunk /\ file[f].n + 1 \in Nat BY <2>1 DEF Chunk
    <2>3. [file[f] EXCEPT !.cache = <<file[f].n, 1>>, !.n = @ + 1] \in Proxies
      BY <1>0, <2>1, <2>2 DEF Proxies
    <2> QED BY <1>3, <2>3, <1>b DEF Put, Appends
  <1>4. CASE Flush(f)
    <2>1. file[f].cache \in Chunk BY <1>0, <1>4 DEF Flush, Proxies
    <2>2. Job("WRITE", f, file[f].cache) \in Jobs BY <2>1, JobTyped
    <2>3. [file[f] EXCEPT !.cache = <<>>] \in Proxies BY <1>0 DEF Proxies
    <2>4. [file[f] EXCEPT !.bad = TRUE, !.error = (ctl.phase = "recording")] \in Proxies
      BY <1>0 DEF Proxies
    <2> QED BY <1>4, <2>2, <2>3, <2>4 DEF Flush, Enqueue, Refuse, Appends
  <1>5. CASE Rewrite(f)
    <2>1. <<0, 2>> \in Chunk BY DEF Chunk
    <2>2. \A c \in {<<>>} \cup Chunk : [file[f] EXCEPT !.pc = "header", !.cache = c] \in Proxies
      BY <1>0 DEF Proxies, ProxyPcs
    <2>3. file[f].cache \in {<<>>} \cup Chunk BY <1>0 DEF Proxies
    <2>4. [file[f] EXCEPT !.pc = "header",
             !.cache = IF file[f].bad \/ file[f].n = 0 THEN @ ELSE <<0, 2>>] \in Proxies
      <3> DEFINE c == IF file[f].bad \/ file[f].n = 0 THEN file[f].cache ELSE <<0, 2>>
      <3>1. c \in {<<>>} \cup Chunk BY <2>1, <2>3
      <3> QED BY <3>1, <2>2
    <2> QED BY <1>5, <2>4, <1>b DEF Rewrite, Appends
  <1>6. CASE CloseFile(f)
    BY <1>6, <1>b, <1>p, <1>r DEF CloseFile, Ask, Enqueue, Refuse, Appends, ProxyPcs
  <1>7. CASE CloseAnswered(f)
    BY <1>7, <1>b, <1>p DEF CloseAnswered, Appends, ProxyPcs
  <1>8. CASE AbortFile(f)
    BY <1>8, <1>b, <1>p, <1>r DEF AbortFile, Ask, Enqueue, Refuse, Appends, ProxyPcs
  <1>9. CASE Aborted(f)
    BY <1>9, <1>b, <1>p DEF Aborted, Appends, ProxyPcs
  <1> QED BY <1>1, <1>2, <1>3, <1>4, <1>5, <1>6, <1>7, <1>8, <1>9 DEF ProxyStep

LEMMA ProxyTyped ==
  ASSUME Typed, NEW f \in Files, ProxyStep(f)
  PROVE  Typed'
  BY ProxyStepUpdate, ProxyUpdate

(* What the sender does next with a job keeps the job.                     *)
LEMMA PlanTyped ==
  ASSUME NEW s \in Senders
  PROVE  Plan(s) \in Senders /\ Plan(s).job = s.job /\ Plan(s).out = s.out /\ Plan(s).ok = s.ok
  BY DEF Plan, Senders, SenderPcs

LEMMA SenderTyped ==
  ASSUME Typed, SenderInv, Sender
  PROVE  Typed'
  <1>0. snd \in Senders /\ ctl \in Recordings /\ queue \in Seq(Jobs) /\ wire \in Seq(Jobs)
        /\ acks \in Seq(BOOLEAN)
    BY DEF Typed
  <1>m. [ctl EXCEPT !.failed = TRUE, !.active = FALSE] \in Recordings BY <1>0 DEF Recordings
  <1>h. snd.pc \notin {"exited", "idle"} => snd.job \in Jobs
    BY <1>0 DEF Senders, SenderInv
  <1>p. \A pc \in SenderPcs : [snd EXCEPT !.pc = pc] \in Senders
    BY <1>0 DEF Senders
  <1>q. \A pc \in SenderPcs, out \in Nat : [snd EXCEPT !.pc = pc, !.ok = FALSE, !.out = out] \in Senders
    BY <1>0 DEF Senders
  <1>o. \A out \in Nat : [snd EXCEPT !.out = out] \in Senders
    BY <1>0 DEF Senders
  <1>n. snd.out \in Nat /\ 0 \in Nat /\ snd.out + 1 \in Nat
    BY <1>0 DEF Senders
  <1>t. ASSUME NEW frame \in Jobs, Transmit(frame) PROVE wire' \in Seq(Jobs)
    BY <1>0, <1>t DEF Transmit
  <1>1. CASE TakeJob
    <2> DEFINE s == [snd EXCEPT !.job = Head(queue), !.ok = TRUE]
    <2>1. Head(queue) \in Jobs /\ queue' \in Seq(Jobs) BY <1>0, <1>1 DEF TakeJob
    <2>2. s \in Senders /\ [s EXCEPT !.pc = "stream"] \in Senders
      BY <1>0, <2>1 DEF Senders, SenderPcs
    <2>3. Plan(s) \in Senders BY <2>2, PlanTyped
    <2>4. snd' \in Senders
      <3>1. snd' = (IF s.job.type = "WRITE" THEN [s EXCEPT !.pc = "stream"] ELSE Plan(s))
        BY <1>1 DEF TakeJob
      <3> HIDE DEF s
      <3> QED BY <3>1, <2>2, <2>3
    <2> QED BY <2>1, <2>4, <1>1 DEF TakeJob, Typed, link
  <1>2. CASE SenderExits
    <2>1. Idle("exited") \in Senders BY DEF Idle, Senders, SenderPcs
    <2> QED BY <1>2, <2>1 DEF SenderExits, Typed, link
  <1>3. CASE StreamChunk
    <2>1. snd' \in Senders BY <1>3, <1>o, <1>n, PlanTyped DEF StreamChunk
    <2>2. wire' \in Seq(Jobs) BY <1>h, <1>3, <1>t DEF StreamChunk
    <2> QED BY <1>3, <2>1, <2>2 DEF StreamChunk, Typed
  <1>4. CASE Request
    <2>1. snd.job \in Jobs /\ snd.job.f \in Files \cup {"recording"} BY <1>4, <1>h DEF Request, Jobs
    <2>2. Job("SYNC", snd.job.f, <<>>) \in Jobs BY <2>1, JobTyped
    <2>3. wire' \in Seq(Jobs) BY <2>1, <2>2, <1>4, <1>t DEF Request
    <2>4. snd' \in Senders BY <1>4, <1>p DEF Request, SenderPcs
    <2> QED BY <1>4, <2>3, <2>4 DEF Request, Typed
  <1>5. CASE SendFails
    <2>1. snd' \in Senders BY <1>5, <1>n, <1>q DEF SendFails, SenderPcs
    <2>2. ctl' \in Recordings BY <1>0, <1>5, <1>m DEF SendFails, MarkFailed
    <2> QED BY <1>5, <2>1, <2>2 DEF SendFails, Typed, link
  <1>6. CASE Acknowledged
    <2>1. snd' \in Senders BY <1>6, <1>n, <1>o, <1>p, PlanTyped DEF Acknowledged, SenderPcs
    <2>2. acks' \in Seq(BOOLEAN) BY <1>0, <1>6 DEF Acknowledged
    <2> QED BY <1>6, <2>1, <2>2 DEF Acknowledged, Typed
  <1>7. CASE NotAcknowledged
    <2>1. snd' \in Senders BY <1>7, <1>n, <1>q DEF NotAcknowledged, SenderPcs
    <2>2. ctl' \in Recordings BY <1>0, <1>7, <1>m DEF NotAcknowledged, MarkFailed
    <2> QED BY <1>7, <2>1, <2>2 DEF NotAcknowledged, Typed, link
  <1>8. CASE FinishJob
    <2>1. snd' \in Senders
      <3>1. [snd EXCEPT !.pc = "idle", !.job = <<>>, !.ok = TRUE] \in Senders
        BY <1>0 DEF Senders, SenderPcs
      <3> QED BY <1>8, <3>1 DEF FinishJob
    <2> DEFINE res == IF snd.ok THEN "ok" ELSE "fail"
    <2>2. res \in Answers BY DEF Answers
    <2>3. [ctl EXCEPT !.res = res] \in Recordings BY <1>0, <2>2 DEF Recordings
    <2>4. file \in [Files -> Proxies] BY DEF Typed
    <2>5. snd.job.f \in Files => [file EXCEPT ![snd.job.f].res = res] \in [Files -> Proxies]
      <3>1. \A f \in Files : [file[f] EXCEPT !.res = res] \in Proxies
        BY <2>2, <2>4 DEF Proxies
      <3> QED BY <2>4, <3>1
    <2>6. ctl' \in Recordings /\ file' \in [Files -> Proxies]
      <3> HIDE DEF res
      <3>1. \/ ctl' = ctl /\ file' = file
            \/ /\ snd.job.f \in Files
               /\ ctl' = ctl /\ file' = [file EXCEPT ![snd.job.f].res = res]
            \/ ctl' = [ctl EXCEPT !.res = res] /\ file' = file
        BY <1>8 DEF FinishJob, res
      <3> QED BY <3>1, <1>0, <2>3, <2>4, <2>5
    <2> QED BY <1>8, <2>1, <2>6 DEF FinishJob, Typed, link
  <1> QED BY <1>1, <1>2, <1>3, <1>4, <1>5, <1>6, <1>7, <1>8 DEF Sender

LEMMA RecordingTyped ==
  ASSUME Typed, Recording
  PROVE  Typed'
  <1>0. ctl \in Recordings BY DEF Typed
  <1>1. CASE Begin
    <2>1. ctl.session + 1 \in Nat BY <1>0 DEF Recordings
    <2>2. ctl' \in Recordings BY <1>0, <1>1, <2>1 DEF Begin, Control, Recordings
    <2>3. NoProxy \in Proxies BY DEF NoProxy, Proxies, ProxyPcs, Answers
    <2>4. Idle("idle") \in Senders BY DEF Idle, Senders, SenderPcs
    <2>5. NoFile \in DiskFiles BY DEF NoFile, DiskFiles
    <2> QED BY <1>1, <2>2, <2>3, <2>4, <2>5 DEF Begin, Control, link, Typed
  <1>2. CASE StartRecording
    <2>1. ctl' \in Recordings BY <1>0, <1>2 DEF StartRecording, Control, Recordings
    <2> QED BY <1>2, <2>1 DEF StartRecording, Control, link, Typed
  <1>3. CASE StartFails
    <2>1. ctl' \in Recordings BY <1>0, <1>3 DEF StartFails, Control, Recordings
    <2> QED BY <1>3, <2>1 DEF StartFails, Control, link, Typed
  <1>4. CASE StopRecording
    <2>1. ctl' \in Recordings BY <1>0, <1>4 DEF StopRecording, Control, Recordings
    <2> QED BY <1>4, <2>1 DEF StopRecording, Control, link, Typed
  <1>5. CASE EndRecording
    <2>1. \A commit \in BOOLEAN :
            [ctl EXCEPT !.phase = "ending", !.commit = commit, !.res = "wait"] \in Recordings
      BY <1>0 DEF Recordings, Answers
    <2>2. [ctl EXCEPT !.phase = "joining", !.stop = TRUE] \in Recordings
      BY <1>0 DEF Recordings
    <2>3. PICK drops \in BOOLEAN :
            LET commit == ctl.phase = "stopping" /\ Good(drops)
            IN  \/ /\ commit \/ (ctl.active /\ ~ctl.failed)
                   /\ Enqueue(Job(IF commit THEN "COMMIT" ELSE "ABORT", "recording", <<>>))
                   /\ Control([ctl EXCEPT !.phase = "ending", !.commit = commit, !.res = "wait"])
                \/ /\ Refuse("COMMIT")
                   /\ Control([ctl EXCEPT !.phase = "joining", !.stop = TRUE])
      BY <1>5 DEF EndRecording
    <2> DEFINE commit == ctl.phase = "stopping" /\ Good(drops)
               job == Job(IF commit THEN "COMMIT" ELSE "ABORT", "recording", <<>>)
    <2>4. job \in Jobs BY JobTyped
    <2>5. commit \in BOOLEAN OBVIOUS
    <2>6. \/ queue' = Append(queue, job) /\ ctl' = [ctl EXCEPT !.phase = "ending", !.commit = commit, !.res = "wait"]
          \/ queue' = queue /\ ctl' = [ctl EXCEPT !.phase = "joining", !.stop = TRUE]
      BY <2>3 DEF Enqueue, Refuse, Control
    <2> HIDE DEF job, commit
    <2>7. ctl' \in Recordings BY <2>1, <2>2, <2>5, <2>6
    <2>8. queue' \in Seq(Jobs)
      <3>1. queue \in Seq(Jobs) BY DEF Typed
      <3> QED BY <2>4, <2>6, <3>1
    <2> QED BY <1>5, <2>7, <2>8 DEF EndRecording, Control, link, Typed
  <1>6. CASE EndAnswered
    <2> DEFINE c == ctl.commit /\ ctl.res = "ok"
    <2>1. c \in BOOLEAN BY <1>0 DEF Recordings
    <2>2. ctl' = [ctl EXCEPT !.phase = "joining", !.stop = TRUE, !.complete = c]
      BY <1>6 DEF EndAnswered, Control
    <2> HIDE DEF c
    <2>3. ctl' \in Recordings BY <1>0, <2>1, <2>2 DEF Recordings
    <2> QED BY <1>6, <2>3 DEF EndAnswered, Control, link, Typed
  <1>7. CASE JoinSender
    <2>1. ctl' \in Recordings BY <1>0, <1>7 DEF JoinSender, Control, Recordings, Answers
    <2> QED BY <1>7, <2>1 DEF JoinSender, Control, link, Typed
  <1> QED BY <1>1, <1>2, <1>3, <1>4, <1>5, <1>6, <1>7 DEF Recording

LEMMA StoredTyped ==
  ASSUME Typed, NEW f \in Files, NEW chunk \in Chunk
  PROVE  Stored(f, chunk) \in Seq({0, 1, 2})
  <1>1. disk[f].data \in Seq({0, 1, 2}) BY DEF Typed, DiskFiles
  <1>2. chunk[1] \in Nat /\ chunk[2] \in {1, 2} BY DEF Chunk
  <1> DEFINE d == disk[f].data
             n == IF chunk[1] < Len(d) THEN Len(d) ELSE chunk[1] + 1
             v(p) == IF p = chunk[1] + 1 THEN chunk[2] ELSE IF p \in DOMAIN d THEN d[p] ELSE 0
  <1>3. n \in Nat BY <1>1, <1>2
  <1>4. \A p \in 1 .. n : v(p) \in {0, 1, 2} BY <1>1, <1>2
  <1>5. Stored(f, chunk) = [p \in 1 .. n |-> v(p)] BY DEF Stored
  <1> HIDE DEF n, v
  <1> QED BY <1>3, <1>4, <1>5

LEMMA AppendIn ==
  ASSUME NEW S, NEW s \in Seq(S), NEW x \in S
  PROVE  Append(s, x) \in Seq(S)
  OBVIOUS

LEMMA ReceiveTyped ==
  ASSUME Typed, cli.up, wire # <<>>, Apply(Head(wire))
  PROVE  cli' \in Receivers /\ disk' \in [Files -> DiskFiles]
  <1>0. cli \in Receivers /\ disk \in [Files -> DiskFiles] BY DEF Typed
  <1> DEFINE h == Head(wire)
  <1>1. h \in Jobs BY DEF Typed
  <1> HIDE DEF h
  <1>a. Apply(h) BY DEF h
  <1>n. \A f \in Files : \A name \in {"none", "partial", "final"} :
          [disk[f] EXCEPT !.name = name] \in DiskFiles
    BY <1>0 DEF DiskFiles
  <1>2. CASE h.type = "OPEN"
    <2>1. h.f \in Files BY <1>1, <1>2 DEF Jobs
    <2>2. cli' \in Receivers BY <1>0, <1>a, <1>2, <2>1 DEF Apply, Receivers
    <2>3. disk' = [disk EXCEPT ![h.f] = [disk[h.f] EXCEPT !.name = "partial"]]
      BY <1>a, <1>2 DEF Apply
    <2> QED BY <2>1, <2>2, <2>3, <1>0, <1>n
  <1>3. CASE h.type = "WRITE"
    <2>1. h.f \in Files /\ h.chunk \in Chunk BY <1>1, <1>3 DEF Jobs
    <2>2. cli' = cli BY <1>a, <1>3 DEF Apply
    <2>3. disk' = [disk EXCEPT ![h.f] = [disk[h.f] EXCEPT !.data = Stored(h.f, h.chunk)]]
      BY <1>a, <1>3 DEF Apply
    <2>4. Stored(h.f, h.chunk) \in Seq({0, 1, 2}) BY <2>1, StoredTyped
    <2>5. [disk[h.f] EXCEPT !.data = Stored(h.f, h.chunk)] \in DiskFiles
      <3> DEFINE s == Stored(h.f, h.chunk)
      <3> HIDE DEF s
      <3>1. s \in Seq({0, 1, 2}) BY <2>4 DEF s
      <3>2. [disk[h.f] EXCEPT !.data = s] \in DiskFiles BY <3>1, <1>0, <2>1 DEF DiskFiles
      <3> QED BY <3>2 DEF s
    <2> QED BY <2>1, <2>2, <2>3, <2>5, <1>0
  <1>4. CASE h.type = "SYNC"
    BY <1>a, <1>0, <1>4 DEF Apply
  <1>5. CASE h.type = "CLOSE"
    <2>1. h.f \in Files BY <1>1, <1>5 DEF Jobs
    <2> DEFINE o == cli.open \ {h.f}
               c == cli.closed \cup {h.f}
    <2>2. o \in SUBSET Files /\ c \in SUBSET Files BY <1>0, <2>1 DEF Receivers
    <2>3. cli' = [cli EXCEPT !.open = o, !.closed = c] BY <1>a, <1>5 DEF Apply
    <2> HIDE DEF o, c
    <2>4. cli' \in Receivers BY <1>0, <2>2, <2>3 DEF Receivers
    <2> QED BY <2>4, <1>a, <1>0, <1>5 DEF Apply
  <1>6. CASE h.type = "ABORT"
    BY <1>a, <1>0, <1>6 DEF Apply, Hangs, Receivers
  <1>7. CASE h.type = "COMMIT"
    <2>0. cli' = FreshReceiver BY <1>a, <1>7 DEF Apply
    <2>1. cli' \in Receivers BY <2>0 DEF FreshReceiver, Receivers
    <2>2. disk' = [f \in Files |-> IF f \in cli.closed THEN [disk[f] EXCEPT !.name = "final"]
                                   ELSE disk[f]]
      BY <1>a, <1>7 DEF Apply
    <2> QED BY <2>1, <2>2, <1>0, <1>n
  <1>8. h.type \in {"OPEN", "WRITE", "SYNC", "CLOSE", "ABORT", "COMMIT"} BY <1>1 DEF Jobs
  <1> QED BY <1>2, <1>3, <1>4, <1>5, <1>6, <1>7, <1>8

LEMMA EnvironmentTyped ==
  ASSUME Typed, Environment
  PROVE  Typed'
  <1>0. ctl \in Recordings /\ cli \in Receivers /\ disk \in [Files -> DiskFiles]
        /\ wire \in Seq(Jobs) /\ acks \in Seq(BOOLEAN)
    BY DEF Typed
  <1>h. [cli EXCEPT !.up = FALSE, !.open = {}, !.closed = {}] \in Receivers BY <1>0 DEF Receivers
  <1>1. CASE Attach
    <2>1. ctl' \in Recordings BY <1>0, <1>1 DEF Attach, Recordings
    <2>2. cli' \in Receivers BY <1>1 DEF Attach, FreshReceiver, Receivers
    <2> QED BY <1>1, <2>1, <2>2 DEF Attach, Typed
  <1>2. CASE NetworkFails
    BY <1>2 DEF NetworkFails, Typed
  <1>3. CASE Detach
    <2>1. ctl' \in Recordings BY <1>0, <1>3 DEF Detach, Recordings
    <2> QED BY <1>3, <2>1 DEF Detach, Typed
  <1>4. CASE Receive
    <2>1. cli' \in Receivers /\ disk' \in [Files -> DiskFiles] BY <1>4, ReceiveTyped DEF Receive
    <2>2. wire' \in Seq(Jobs) BY <1>0, <1>4 DEF Receive
    <2>a. acks' \in Seq(BOOLEAN)
      <3>0. Append(acks, TRUE) \in Seq(BOOLEAN)
        <4>1. TRUE \in BOOLEAN OBVIOUS
        <4> QED BY <1>0, <4>1, AppendIn
      <3>1. acks' = acks \/ acks' = Append(acks, TRUE) BY <1>4 DEF Receive
      <3> QED BY <1>0, <3>0, <3>1
    <2>3. conn' \in {"none", "up", "down"} BY <1>4 DEF Receive, Typed
    <2> QED BY <1>4, <2>1, <2>2, <2>a, <2>3 DEF Receive, Typed
  <1>5. CASE ReceiveFails
    <2>1. cli' \in Receivers BY <1>h, <1>5 DEF ReceiveFails, Hangs
    <2>2. wire' \in Seq(Jobs) BY <1>0, <1>5 DEF ReceiveFails
    <2>a. acks' \in Seq(BOOLEAN)
      <3>0. Append(acks, FALSE) \in Seq(BOOLEAN)
        <4>1. FALSE \in BOOLEAN OBVIOUS
        <4> QED BY <1>0, <4>1, AppendIn
      <3>1. acks' = acks \/ acks' = Append(acks, FALSE) BY <1>5 DEF ReceiveFails
      <3> QED BY <1>0, <3>0, <3>1
    <2>3. conn' \in {"none", "up", "down"} BY <1>5 DEF ReceiveFails, Typed
    <2>4. disk' \in [Files -> DiskFiles]
      <3>1. \A f \in Files : [disk[f] EXCEPT !.name = "final"] \in DiskFiles
        BY <1>0 DEF DiskFiles
      <3>2. \/ disk' = disk
            \/ \E renamed \in SUBSET cli.closed :
                 disk' = [f \in Files |-> IF f \in renamed THEN [disk[f] EXCEPT !.name = "final"]
                                          ELSE disk[f]]
        BY <1>5 DEF ReceiveFails
      <3> QED BY <3>1, <3>2, <1>0
    <2> QED BY <1>5, <2>1, <2>2, <2>a, <2>3, <2>4 DEF ReceiveFails, Typed
  <1>6. CASE ReceiverEnds
    <2>1. cli' \in Receivers BY <1>h, <1>6 DEF ReceiverEnds, Hangs
    <2> QED BY <1>6, <2>1 DEF ReceiverEnds, Typed
  <1> QED BY <1>1, <1>2, <1>3, <1>4, <1>5, <1>6 DEF Environment

LEMMA TypedStep == Typed /\ SenderInv /\ [Next]_vars => Typed'
  <1> SUFFICES ASSUME Typed, SenderInv, [Next]_vars PROVE Typed'
    OBVIOUS
  <1>1. CASE Next
    BY <1>1, ProxyTyped, SenderTyped, RecordingTyped, EnvironmentTyped DEF Next
  <1>2. CASE UNCHANGED vars
    BY <1>2 DEF vars, Typed
  <1> QED BY <1>1, <1>2
-----------------------------------------------------------------------------
(* The link and the sender.                                                *)

LEMMA InitLink == Init => LinkInv /\ SenderInv
  <1> SUFFICES ASSUME Init PROVE LinkInv /\ SenderInv
    OBVIOUS
  <1>1. /\ ctl.phase = "idle" /\ ~ctl.active /\ ~ctl.failed /\ ~ctl.record /\ ~ctl.complete
        /\ conn = "none"
    BY DEF Init
  <1>2. cli.open = {} BY DEF Init, FreshReceiver
  <1>3. snd = Idle("exited") BY DEF Init
  <1>4. snd.pc = "exited" /\ snd.job = <<>> /\ snd.out = 0 /\ snd.ok BY <1>3 DEF Idle
  <1> QED BY <1>1, <1>2, <1>4, LocalSaveAssumption DEF LinkInv, SenderInv, Waiting

LEMMA ProxyLink ==
  ASSUME LinkInv, SenderInv, NEW f \in Files, ProxyStep(f)
  PROVE  LinkInv' /\ SenderInv'
  <1>1. UNCHANGED <<ctl, snd, link, cli, disk>>
    BY DEF ProxyStep, OpenFile, Opened, Put, Flush, Rewrite, CloseFile, CloseAnswered, AbortFile,
           Aborted, Ask, Proxy
  <1> QED BY <1>1 DEF LinkInv, SenderInv, link

(* What the steps of the sender write besides the job and the wire.        *)
Reports == \E res \in Answers : ctl' = [ctl EXCEPT !.res = res]

(* What the sender does to the recording: it may mark the link failed, or  *)
(* report an answer.                                                       *)
LEMMA SenderCtl ==
  ASSUME Sender
  PROVE  ctl' = ctl \/ MarkFailed \/ Reports
  <1>1. CASE FinishJob
    BY <1>1 DEF FinishJob, Reports, Answers
  <1> QED BY <1>1 DEF Sender, TakeJob, SenderExits, StreamChunk, Request, SendFails, Acknowledged,
                      NotAcknowledged

LEMMA SenderLink ==
  ASSUME Typed, LinkInv, SenderInv, Sender
  PROVE  LinkInv'
  <1>0. ctl \in Recordings BY DEF Typed
  <1>1. UNCHANGED <<conn, cli>>
    BY DEF Sender, TakeJob, SenderExits, StreamChunk, Request, SendFails, Acknowledged,
           NotAcknowledged, FinishJob, link
  <1>2. /\ ctl'.phase = ctl.phase /\ ctl'.record = ctl.record /\ ctl'.stop = ctl.stop
        /\ ctl'.complete = ctl.complete
        /\ \/ ctl'.active = ctl.active /\ ctl'.failed = ctl.failed
           \/ ~ctl'.active /\ ctl'.failed
    BY <1>0, SenderCtl DEF MarkFailed, Reports, Recordings
  <1> QED BY <1>1, <1>2 DEF LinkInv

(* A job that is planned leaves the window where the plan needs it.        *)
LEMMA PlanSender ==
  ASSUME NEW s \in Senders, s.job # <<>>, s.out <= Window, s.ok
  PROVE  LET p == Plan(s)
         IN  /\ p.pc \in {"sync", "control", "finish"}
             /\ p.pc = "control" => p.job.type # "WRITE" /\ p.out = 0
             /\ p.pc = "finish" => p.out < Window
  BY LocalSaveAssumption DEF Plan, Senders, Barrier

LEMMA SenderSender ==
  ASSUME Typed, LinkInv, SenderInv, Sender
  PROVE  SenderInv'
  <1>0. snd \in Senders /\ ctl \in Recordings /\ queue \in Seq(Jobs) BY DEF Typed
  <1>w. Window \in Nat /\ Window > 0 /\ snd.out \in Nat BY <1>0, LocalSaveAssumption DEF Senders
  <1>j. \A j \in Jobs : j # <<>> BY DEF Jobs
  <1>c. /\ ctl'.phase = ctl.phase
        /\ ctl'.failed = ctl.failed \/ MarkFailed
    BY <1>0, SenderCtl DEF MarkFailed, Reports, Recordings
  <1>1. CASE TakeJob
    <2> DEFINE s == [snd EXCEPT !.job = Head(queue), !.ok = TRUE]
    <2>1. Head(queue) \in Jobs BY <1>0, <1>1 DEF TakeJob
    <2>2. s \in Senders /\ s.job = Head(queue) /\ s.ok /\ s.out = snd.out /\ s.pc = "idle"
      BY <1>0, <1>1, <2>1 DEF TakeJob, Senders
    <2>3. snd' = (IF s.job.type = "WRITE" THEN [s EXCEPT !.pc = "stream"] ELSE Plan(s)) /\ ctl' = ctl
      BY <1>1 DEF TakeJob
    <2>4. snd.out < Window /\ ctl.phase # "idle" BY <1>1 DEF TakeJob, SenderInv
    <2> HIDE DEF s
    <2>5. s.job # <<>> BY <2>1, <2>2, <1>j
    <2>6. CASE s.job.type = "WRITE"
      <3>1. snd' = [s EXCEPT !.pc = "stream"] BY <2>3, <2>6
      <3>2. snd'.pc = "stream" /\ snd'.job = s.job /\ snd'.out = s.out /\ snd'.ok
        BY <3>1, <2>2 DEF Senders
      <3> QED BY <3>2, <2>2, <2>3, <2>4, <2>5, <2>6 DEF SenderInv, Waiting
    <2>7. CASE s.job.type # "WRITE"
      <3>1. snd' = Plan(s) BY <2>3, <2>7
      <3>2. s.out <= Window BY <2>2, <2>4, <1>w
      <3>3. /\ snd'.pc \in {"sync", "control", "finish"}
            /\ snd'.pc = "control" => snd'.job.type # "WRITE" /\ snd'.out = 0
            /\ snd'.pc = "finish" => snd'.out < Window
            /\ snd'.job = s.job /\ snd'.out = s.out /\ snd'.ok = s.ok
        BY <2>2, <2>5, <3>1, <3>2, PlanTyped, PlanSender
      <3> QED BY <3>2, <3>3, <2>2, <2>3, <2>4, <2>5, <2>7 DEF SenderInv, Waiting
    <2> QED BY <2>6, <2>7
  <1>2. CASE SenderExits
    <2>1. snd'.pc = "exited" /\ snd'.job = <<>> /\ snd'.out = 0 /\ snd'.ok
      BY <1>2 DEF SenderExits, Idle
    <2>2. ctl' = ctl /\ ctl.phase \in {"idle", "joining"} BY <1>2 DEF SenderExits, LinkInv
    <2> QED BY <2>1, <2>2, <1>w DEF SenderInv, Waiting
  <1>3. CASE StreamChunk
    <2> DEFINE s == [snd EXCEPT !.out = @ + 1]
    <2>1. snd.out + 1 \in Nat /\ snd.out + 1 <= Window /\ snd.job # <<>> /\ snd.ok /\ ctl.phase # "idle"
      BY <1>w, <1>3 DEF StreamChunk, SenderInv
    <2>2. s \in Senders /\ s.job = snd.job /\ s.out = snd.out + 1 /\ s.ok
      BY <1>0, <2>1 DEF Senders
    <2>3. snd' = Plan(s) /\ ctl' = ctl BY <1>3 DEF StreamChunk
    <2> HIDE DEF s
    <2>4. /\ snd'.pc \in {"sync", "control", "finish"}
          /\ snd'.pc = "control" => snd'.job.type # "WRITE" /\ snd'.out = 0
          /\ snd'.pc = "finish" => snd'.out < Window
          /\ snd'.job = s.job /\ snd'.out = s.out /\ snd'.ok = s.ok
      BY <2>1, <2>2, <2>3, PlanTyped, PlanSender
    <2> QED BY <2>1, <2>2, <2>3, <2>4 DEF SenderInv, Waiting
  <1>4. CASE Request
    <2>1. /\ snd'.pc = (IF snd.pc = "sync" THEN "syncing" ELSE "asking")
          /\ snd'.job = snd.job /\ snd'.out = snd.out /\ snd'.ok = snd.ok
      BY <1>0, <1>4 DEF Request, Senders
    <2>2. snd.pc \in {"sync", "control"} /\ ctl' = ctl /\ ~ctl.failed BY <1>4 DEF Request, Usable
    <2> QED BY <2>1, <2>2 DEF SenderInv, Waiting
  <1>5. CASE SendFails
    <2>1. /\ snd'.pc = "finish" /\ snd'.job = snd.job
          /\ snd'.out = IF snd.pc = "sync" THEN 0 ELSE snd.out
      BY <1>0, <1>5 DEF SendFails, Senders
    <2>2. snd.pc \in {"stream", "sync", "control"} BY <1>5 DEF SendFails
    <2> QED BY <2>1, <2>2, <1>c, <1>w DEF SenderInv, Waiting
  <1>6. CASE Acknowledged
    <2>0. snd.pc \in {"syncing", "asking"} /\ snd.job # <<>> /\ snd.ok /\ ctl.phase # "idle" /\ ctl' = ctl
      BY <1>6 DEF Acknowledged, SenderInv
    <2>1. CASE snd.pc = "syncing"
      <3> DEFINE s == [snd EXCEPT !.out = 0]
      <3>1. s \in Senders /\ s.job = snd.job /\ s.out = 0 /\ s.ok
        BY <1>0, <2>0 DEF Senders
      <3>2. snd' = Plan(s) BY <1>6, <2>1 DEF Acknowledged
      <3> HIDE DEF s
      <3>3. /\ snd'.pc \in {"sync", "control", "finish"}
            /\ snd'.pc = "control" => snd'.job.type # "WRITE" /\ snd'.out = 0
            /\ snd'.pc = "finish" => snd'.out < Window
            /\ snd'.job = s.job /\ snd'.out = s.out /\ snd'.ok = s.ok
        <4>1. s.out <= Window /\ s.job # <<>> BY <2>0, <3>1, <1>w
        <4> QED BY <4>1, <3>1, <3>2, PlanTyped, PlanSender
      <3> QED BY <2>0, <3>1, <3>3, <1>w DEF SenderInv, Waiting
    <2>2. CASE snd.pc = "asking"
      <3>1. snd'.pc = "finish" /\ snd'.job = snd.job /\ snd'.out = snd.out /\ snd.out = 0
        BY <1>0, <1>6, <2>2 DEF Acknowledged, Senders, SenderInv
      <3> QED BY <2>0, <3>1, <1>w DEF SenderInv, Waiting
    <2> QED BY <2>0, <2>1, <2>2
  <1>7. CASE NotAcknowledged
    <2>1. /\ snd'.pc = "finish" /\ snd'.job = snd.job
          /\ snd'.out = IF snd.pc = "syncing" THEN 0 ELSE snd.out
      BY <1>0, <1>7 DEF NotAcknowledged, Senders
    <2>2. snd.pc \in {"syncing", "asking"} BY <1>7 DEF NotAcknowledged
    <2> QED BY <2>1, <2>2, <1>c, <1>w DEF SenderInv, Waiting
  <1>8. CASE FinishJob
    <2>1. snd'.pc = "idle" /\ snd'.job = <<>> /\ snd'.out = snd.out /\ snd'.ok
      BY <1>0, <1>8 DEF FinishJob, Senders
    <2>2. snd.pc = "finish" BY <1>8 DEF FinishJob
    <2> QED BY <2>1, <2>2, <1>c DEF SenderInv, Waiting
  <1> QED BY <1>1, <1>2, <1>3, <1>4, <1>5, <1>6, <1>7, <1>8 DEF Sender

LEMMA RecordingLink ==
  ASSUME Typed, LinkInv, SenderInv, Recording
  PROVE  LinkInv' /\ SenderInv'
  <1>0. ctl \in Recordings BY DEF Typed
  <1>k. UNCHANGED <<conn, cli>>
    BY DEF Recording, Begin, StartRecording, StartFails, StopRecording, EndRecording, EndAnswered,
           JoinSender, Control, link
  <1>1. CASE Begin
    <2>1. /\ ctl'.phase = "starting" /\ ctl'.record /\ ~ctl'.stop /\ ~ctl'.complete
          /\ ctl'.active = ctl.active /\ ctl'.failed = ctl.failed /\ ctl.active
      BY <1>0, <1>1 DEF Begin, Control, Recordings
    <2>2. snd'.pc = "idle" /\ snd'.job = <<>> /\ snd'.out = 0 /\ snd'.ok
      BY <1>1 DEF Begin, Idle
    <2> QED BY <2>1, <2>2, <1>k, LocalSaveAssumption DEF LinkInv, SenderInv, Waiting
  <1>2. CASE StartRecording \/ StartFails \/ StopRecording
    <2>1. /\ ctl.phase \in {"starting", "recording"}
          /\ ctl'.phase \in {"recording", "givingUp", "stopping"}
          /\ ctl'.record = ctl.record /\ ctl'.stop = ctl.stop /\ ctl'.complete = ctl.complete
          /\ ctl'.active = ctl.active /\ ctl'.failed = ctl.failed
      BY <1>0, <1>2 DEF StartRecording, StartFails, StopRecording, Control, Recordings
    <2>2. snd' = snd BY <1>2 DEF StartRecording, StartFails, StopRecording
    <2> QED BY <2>1, <2>2, <1>k DEF LinkInv, SenderInv, Waiting
  <1>3. CASE EndRecording
    <2>1. /\ ctl.phase \in {"stopping", "givingUp"}
          /\ ctl'.phase \in {"ending", "joining"}
          /\ ctl'.phase = "ending" => ctl'.stop = ctl.stop
          /\ ctl'.record = ctl.record /\ ctl'.complete = ctl.complete
          /\ ctl'.active = ctl.active /\ ctl'.failed = ctl.failed
      BY <1>0, <1>3 DEF EndRecording, Control, Recordings
    <2>2. snd' = snd BY <1>3 DEF EndRecording
    <2> QED BY <2>1, <2>2, <1>k DEF LinkInv, SenderInv, Waiting
  <1>4. CASE EndAnswered
    <2>1. /\ ctl.phase = "ending" /\ ctl'.phase = "joining" /\ ctl'.record = ctl.record
          /\ ctl'.active = ctl.active /\ ctl'.failed = ctl.failed
      BY <1>0, <1>4 DEF EndAnswered, Control, Recordings
    <2>2. snd' = snd BY <1>4 DEF EndAnswered
    <2> QED BY <2>1, <2>2, <1>k DEF LinkInv, SenderInv, Waiting
  <1>5. CASE JoinSender
    <2>1. /\ ctl.phase = "joining" /\ ctl'.phase = "idle" /\ ~ctl'.record
          /\ ctl'.complete = ctl.complete
          /\ ctl'.active = ctl.active /\ ctl'.failed = ctl.failed
      BY <1>0, <1>5 DEF JoinSender, Control, Recordings
    <2>2. snd' = snd /\ snd.pc = "exited" BY <1>5 DEF JoinSender
    <2> QED BY <2>1, <2>2, <1>k DEF LinkInv, SenderInv, Waiting
  <1> QED BY <1>1, <1>2, <1>3, <1>4, <1>5 DEF Recording

(* What a frame applied without an error does to the receiver.             *)
LEMMA ApplyReceiver ==
  ASSUME Typed, LinkInv, cli.up, wire # <<>>, Apply(Head(wire))
  PROVE  /\ cli'.open \cap cli'.closed = {}
         /\ cli'.up \/ Head(wire).type = "ABORT"
  <1>0. cli \in Receivers BY DEF Typed
  <1> DEFINE h == Head(wire)
  <1>1. h \in Jobs BY DEF Typed
  <1>a. Apply(h) BY DEF h
  <1>d. cli.open \cap cli.closed = {} BY DEF LinkInv
  <1> HIDE DEF h
  <1>2. CASE h.type = "OPEN"
    <2>1. /\ h.f \notin cli.open \cup cli.closed /\ cli'.open = cli.open \cup {h.f}
          /\ cli'.closed = cli.closed /\ cli'.up
      BY <1>0, <1>a, <1>2 DEF Apply, Receivers
    <2> QED BY <2>1, <1>d
  <1>3. CASE h.type \in {"WRITE", "SYNC"}
    BY <1>a, <1>3, <1>d DEF Apply
  <1>5. CASE h.type = "CLOSE"
    <2>1. /\ h.f \in cli.open /\ cli'.open = cli.open \ {h.f}
          /\ cli'.closed = cli.closed \cup {h.f} /\ cli'.up
      BY <1>0, <1>a, <1>5 DEF Apply, Receivers
    <2> QED BY <2>1, <1>d
  <1>6. CASE h.type = "ABORT"
    <2>1. cli'.open = {} BY <1>0, <1>a, <1>6 DEF Apply, Hangs, Receivers
    <2> QED BY <2>1, <1>6 DEF h
  <1>7. CASE h.type = "COMMIT"
    <2>1. cli' = FreshReceiver BY <1>a, <1>7 DEF Apply
    <2> QED BY <2>1 DEF FreshReceiver
  <1>8. h.type \in {"OPEN", "WRITE", "SYNC", "CLOSE", "ABORT", "COMMIT"} BY <1>1 DEF Jobs
  <1> QED BY <1>2, <1>3, <1>5, <1>6, <1>7, <1>8 DEF h

LEMMA EnvironmentLink ==
  ASSUME Typed, LinkInv, SenderInv, Environment
  PROVE  LinkInv' /\ SenderInv'
  <1>0. ctl \in Recordings /\ cli \in Receivers BY DEF Typed
  <1>k. snd' = snd
    BY DEF Environment, Attach, NetworkFails, Detach, Receive, ReceiveFails, ReceiverEnds
  <1>1. CASE Attach
    <2>1. /\ ctl'.active /\ ~ctl'.failed /\ ~ctl.record /\ ctl'.record = ctl.record
          /\ ctl'.phase = ctl.phase /\ ctl'.stop = ctl.stop /\ ctl'.complete = ctl.complete
      BY <1>0, <1>1 DEF Attach, Recordings
    <2>2. conn' = "up" /\ cli'.up /\ cli'.open = {} BY <1>1 DEF Attach, FreshReceiver
    <2>3. snd.pc = "exited" BY <2>1 DEF LinkInv, SenderInv
    <2> QED BY <2>1, <2>2, <2>3, <1>k DEF LinkInv, SenderInv, Waiting
  <1>2. CASE NetworkFails
    BY <1>2, <1>k DEF NetworkFails, LinkInv, SenderInv
  <1>3. CASE Detach
    <2>1. /\ ~ctl'.active /\ ctl'.failed /\ ctl'.record = ctl.record
          /\ ctl'.phase = ctl.phase /\ ctl'.stop = ctl.stop /\ ctl'.complete = ctl.complete
      BY <1>0, <1>3 DEF Detach, Recordings
    <2>2. conn' = "none" /\ cli' = cli /\ snd.pc \notin Waiting BY <1>3 DEF Detach, Waiting
    <2> QED BY <2>1, <2>2, <1>k DEF LinkInv, SenderInv
  <1>4. CASE Receive
    <2>1. ctl' = ctl /\ (conn' = conn \/ (conn = "up" /\ conn' = "down")) BY <1>4 DEF Receive
    <2>2. conn' = "up" => conn = "up" /\ Head(wire).type # "ABORT" BY <1>4 DEF Receive
    <2>3. cli'.open \cap cli'.closed = {} /\ (cli'.up \/ Head(wire).type = "ABORT")
      BY <1>4, ApplyReceiver DEF Receive
    <2> QED BY <2>1, <2>2, <2>3, <1>k DEF LinkInv, SenderInv
  <1>5. CASE ReceiveFails \/ ReceiverEnds
    <2>1. ctl' = ctl /\ conn' = (IF conn = "up" THEN "down" ELSE conn)
      BY <1>5 DEF ReceiveFails, ReceiverEnds
    <2>2. cli'.open = {} BY <1>0, <1>5 DEF ReceiveFails, ReceiverEnds, Hangs, Receivers
    <2> QED BY <2>1, <2>2, <1>k DEF LinkInv, SenderInv
  <1> QED BY <1>1, <1>2, <1>3, <1>4, <1>5 DEF Environment
-----------------------------------------------------------------------------
(* The steps of a proxy, field by field.                                   *)

Moved(f, pc) ==
    /\ file'[f].pc = pc /\ file'[f].n = file[f].n /\ file'[f].cache = file[f].cache
    /\ file'[f].bad = file[f].bad

Aside(f) ==
    /\ UNCHANGED <<ctl, snd, conn, wire, acks, cli, disk>>
    /\ \A g \in Files \ {f} : file'[g] = file[g]

Asking(f, type, waiting, refused) ==
    \/ /\ ~Closed /\ Moved(f, waiting) /\ file'[f].res = "wait"
       /\ queue' = Append(queue, Job(type, f, <<>>))
    \/ Moved(f, refused) /\ queue' = queue

LEMMA ProxySets ==
  ASSUME Typed, NEW f \in Files, NEW r, Proxy(f, r)
  PROVE  file'[f] = r /\ Aside(f)
  <1>1. file \in [Files -> Proxies] /\ file' = [file EXCEPT ![f] = r] BY DEF Typed, Proxy
  <1> QED BY <1>1 DEF Proxy, link, Aside

LEMMA AskSets ==
  ASSUME Typed, NEW f \in Files, NEW type \in {"OPEN", "CLOSE", "ABORT"},
         NEW waiting \in ProxyPcs, NEW refused \in ProxyPcs, Ask(f, type, waiting, refused)
  PROVE  Asking(f, type, waiting, refused) /\ Aside(f)
  <1>0. file[f] \in Proxies BY DEF Typed
  <1>1. CASE Enqueue(Job(type, f, <<>>)) /\ Proxy(f, [file[f] EXCEPT !.pc = waiting, !.res = "wait"])
    <2>1. file'[f] = [file[f] EXCEPT !.pc = waiting, !.res = "wait"] /\ Aside(f) BY <1>1, ProxySets
    <2>2. ~Closed /\ queue' = Append(queue, Job(type, f, <<>>)) BY <1>1 DEF Enqueue
    <2> QED BY <2>1, <2>2, <1>0 DEF Asking, Moved, Proxies
  <1>2. CASE Refuse(type) /\ Proxy(f, [file[f] EXCEPT !.pc = refused])
    <2>1. file'[f] = [file[f] EXCEPT !.pc = refused] /\ Aside(f) BY <1>2, ProxySets
    <2>2. queue' = queue BY <1>2 DEF Refuse
    <2> QED BY <2>1, <2>2, <1>0 DEF Asking, Moved, Proxies
  <1> QED BY <1>1, <1>2 DEF Ask

LEMMA OpenFileStep ==
  ASSUME Typed, NEW f \in Files, OpenFile(f)
  PROVE  Asking(f, "OPEN", "opening", "refused") /\ Aside(f)
  BY AskSets DEF OpenFile, ProxyPcs

LEMMA OpenedStep ==
  ASSUME Typed, NEW f \in Files, Opened(f)
  PROVE  /\ Moved(f, IF file[f].res = "ok" THEN "writing" ELSE "refused")
         /\ queue' = queue /\ Aside(f)
  <1>0. file[f] \in Proxies BY DEF Typed
  <1> DEFINE pc == IF file[f].res = "ok" THEN "writing" ELSE "refused"
  <1>1. file'[f] = [file[f] EXCEPT !.pc = pc] /\ Aside(f) BY ProxySets DEF Opened
  <1> QED BY <1>0, <1>1 DEF Opened, Moved, Proxies

LEMMA PutStep ==
  ASSUME Typed, NEW f \in Files, Put(f)
  PROVE  /\ file'[f].pc = "writing" /\ file'[f].n = file[f].n + 1 /\ ~file'[f].bad
         /\ file'[f].cache = <<file[f].n, 1>> /\ queue' = queue /\ Aside(f)
  <1>0. file[f] \in Proxies BY DEF Typed
  <1>1. file'[f] = [file[f] EXCEPT !.cache = <<file[f].n, 1>>, !.n = @ + 1] /\ Aside(f)
    BY ProxySets DEF Put
  <1>2. file'[f].cache = <<file[f].n, 1>> /\ file'[f].n = file[f].n + 1 BY <1>0, <1>1 DEF Proxies
  <1>3. file'[f].pc = file[f].pc /\ file'[f].bad = file[f].bad BY <1>0, <1>1 DEF Proxies
  <1> QED BY <1>1, <1>2, <1>3 DEF Put

LEMMA FlushStep ==
  ASSUME Typed, NEW f \in Files, Flush(f)
  PROVE  /\ file'[f].pc = file[f].pc /\ file'[f].n = file[f].n /\ Aside(f)
         /\ file[f].cache \in Chunk
         /\ \/ /\ ~Closed /\ file'[f].cache = <<>> /\ ~file'[f].bad
               /\ queue' = Append(queue, Job("WRITE", f, file[f].cache))
            \/ file'[f].cache = file[f].cache /\ file'[f].bad /\ queue' = queue
  <1>0. file[f] \in Proxies BY DEF Typed
  <1>1. file[f].cache \in Chunk BY <1>0 DEF Flush, Proxies
  <1>2. CASE Enqueue(Job("WRITE", f, file[f].cache)) /\ Proxy(f, [file[f] EXCEPT !.cache = <<>>])
    <2>1. file'[f] = [file[f] EXCEPT !.cache = <<>>] /\ Aside(f) BY <1>2, ProxySets
    <2> QED BY <1>0, <1>1, <1>2, <2>1 DEF Enqueue, Flush, Proxies
  <1> DEFINE worse == [file[f] EXCEPT !.bad = TRUE, !.error = (ctl.phase = "recording")]
  <1>3. CASE Refuse("WRITE") /\ Proxy(f, worse)
    <2>1. file'[f] = worse /\ Aside(f) BY <1>3, ProxySets
    <2> QED BY <1>0, <1>1, <1>3, <2>1 DEF Refuse, Proxies
  <1> QED BY <1>2, <1>3 DEF Flush

LEMMA RewriteStep ==
  ASSUME Typed, NEW f \in Files, Rewrite(f)
  PROVE  /\ file'[f].pc = "header" /\ file'[f].n = file[f].n /\ file'[f].bad = file[f].bad
         /\ file'[f].cache = (IF file[f].bad \/ file[f].n = 0 THEN file[f].cache ELSE <<0, 2>>)
         /\ queue' = queue /\ Aside(f)
  <1>0. file[f] \in Proxies BY DEF Typed
  <1> DEFINE c == IF file[f].bad \/ file[f].n = 0 THEN file[f].cache ELSE <<0, 2>>
  <1>1. file'[f] = [file[f] EXCEPT !.pc = "header", !.cache = c] /\ Aside(f)
    BY ProxySets DEF Rewrite
  <1> HIDE DEF c
  <1>2. file'[f].pc = "header" /\ file'[f].cache = c /\ file'[f].n = file[f].n
        /\ file'[f].bad = file[f].bad
    BY <1>0, <1>1 DEF Proxies
  <1> QED BY <1>1, <1>2 DEF Rewrite, c

LEMMA CloseFileStep ==
  ASSUME Typed, NEW f \in Files, CloseFile(f)
  PROVE  /\ Aside(f)
         /\ \/ Moved(f, "abort") /\ queue' = queue
            \/ Sound(f) /\ Asking(f, "CLOSE", "closing", "abort")
  <1>0. file[f] \in Proxies BY DEF Typed
  <1>1. CASE Sound(f)
    BY <1>1, AskSets DEF CloseFile, ProxyPcs
  <1>2. CASE ~Sound(f)
    <2>1. file'[f] = [file[f] EXCEPT !.pc = "abort"] /\ Aside(f) BY <1>2, ProxySets DEF CloseFile
    <2> QED BY <1>0, <1>2, <2>1 DEF CloseFile, Moved, Proxies
  <1> QED BY <1>1, <1>2

LEMMA CloseAnsweredStep ==
  ASSUME Typed, NEW f \in Files, CloseAnswered(f)
  PROVE  /\ Moved(f, IF file[f].res = "ok" THEN "done" ELSE "abort")
         /\ queue' = queue /\ Aside(f)
  <1>0. file[f] \in Proxies BY DEF Typed
  <1> DEFINE pc == IF file[f].res = "ok" THEN "done" ELSE "abort"
  <1>1. file'[f] = [file[f] EXCEPT !.pc = pc] /\ Aside(f) BY ProxySets DEF CloseAnswered
  <1> QED BY <1>0, <1>1 DEF CloseAnswered, Moved, Proxies

LEMMA AbortFileStep ==
  ASSUME Typed, NEW f \in Files, AbortFile(f)
  PROVE  Asking(f, "ABORT", "aborting", "done") /\ Aside(f)
  BY AskSets DEF AbortFile, ProxyPcs

LEMMA AbortedStep ==
  ASSUME Typed, NEW f \in Files, Aborted(f)
  PROVE  Moved(f, "done") /\ queue' = queue /\ Aside(f)
  <1>0. file[f] \in Proxies BY DEF Typed
  <1>1. file'[f] = [file[f] EXCEPT !.pc = "done"] /\ Aside(f) BY ProxySets DEF Aborted
  <1> QED BY <1>0, <1>1 DEF Aborted, Moved, Proxies
-----------------------------------------------------------------------------
(* The proxies take turns.                                                 *)

LEMMA InitProxy == Init => ProxyInv
  <1> SUFFICES ASSUME Init, NEW f \in Files PROVE Phase(f) /\ Cached(f) /\ Turn(f)
    BY DEF ProxyInv
  <1>1. file[f] = NoProxy /\ ctl.phase = "idle" BY DEF Init
  <1> QED BY <1>1 DEF NoProxy, Phase, Cached, Empty, Turn, Current

(* A step of one proxy leaves the turns of the others when it goes no      *)
(* further than its own turn lets it.                                      *)
LEMMA TurnsKept ==
  ASSUME ProxyInv, NEW f \in Files, Aside(f), Phase(f)', Cached(f)', Turn(f)',
         \A g \in Files \ {f} :
           /\ file[g].pc = "opening" => file'[f].pc \in {"none", "writing"}
           /\ file[g].pc \in {"closing", "abort", "aborting"} => file'[f].pc \in Finishing
  PROVE  ProxyInv'
  <1> SUFFICES ASSUME NEW g \in Files, g # f PROVE Phase(g)' /\ Cached(g)' /\ Turn(g)'
    BY DEF ProxyInv
  <1>1. file'[g] = file[g] /\ ctl' = ctl BY DEF Aside
  <1>2. Phase(g)' /\ Cached(g)' BY <1>1 DEF ProxyInv, Phase, Cached, Current, Empty
  <1>3. Turn(g)'
    <2>1. \A h \in Files \ {g} : h # f => file'[h] = file[h] BY DEF Aside
    <2>2. Turn(g) BY DEF ProxyInv
    <2> QED BY <1>1, <2>1, <2>2 DEF Turn, Others
  <1> QED BY <1>2, <1>3

LEMMA ProxyProxy ==
  ASSUME Typed, ProxyInv, NEW f \in Files, ProxyStep(f)
  PROVE  ProxyInv'
  <1>0. file[f] \in Proxies /\ \A g \in Files : file[g] \in Proxies BY DEF Typed
  <1>i. \A g \in Files : Phase(g) /\ Cached(g) /\ Turn(g) BY DEF ProxyInv
  <1> DEFINE Kept == \A g \in Files \ {f} :
                       /\ file[g].pc = "opening" => file'[f].pc \in {"none", "writing"}
                       /\ file[g].pc \in {"closing", "abort", "aborting"} => file'[f].pc \in Finishing
  <1>o. Aside(f) => ctl' = ctl /\ \A pcs : Others(f, pcs)' <=> Others(f, pcs)
    BY DEF Aside, Others
  <1>1. CASE OpenFile(f)
    <2>1. Asking(f, "OPEN", "opening", "refused") /\ Aside(f) BY <1>1, OpenFileStep
    <2>2. ctl.phase = "starting" /\ file[f].pc = "none" /\ Others(f, {"none", "writing"})
      BY <1>1 DEF OpenFile
    <2>3. Kept BY <2>2 DEF Others
    <2>4. Phase(f)' /\ Cached(f)' /\ Turn(f)'
      BY <1>i, <1>o, <2>1, <2>2 DEF Asking, Moved, Phase, Cached, Turn, Current, Empty, Others
    <2> QED BY <2>1, <2>3, <2>4, TurnsKept
  <1>2. CASE Opened(f)
    <2>1. Moved(f, IF file[f].res = "ok" THEN "writing" ELSE "refused") /\ Aside(f)
      BY <1>2, OpenedStep
    <2>2. file[f].pc = "opening" /\ ctl.phase = "starting" /\ Others(f, {"none", "writing"})
      BY <1>2, <1>i, <1>0 DEF Opened, Phase, Current, Turn, Recordings, Typed
    <2>3. Kept BY <2>2 DEF Others
    <2>4. Phase(f)' /\ Cached(f)' /\ Turn(f)'
      BY <1>i, <1>o, <2>1, <2>2 DEF Moved, Phase, Cached, Turn, Current, Empty, Others
    <2> QED BY <2>1, <2>3, <2>4, TurnsKept
  <1>3. CASE Put(f)
    <2>1. /\ file'[f].pc = "writing" /\ file'[f].n = file[f].n + 1 /\ ~file'[f].bad
          /\ file'[f].cache = <<file[f].n, 1>> /\ Aside(f)
      BY <1>3, PutStep
    <2>2. ctl.phase = "recording" /\ file[f].pc = "writing" BY <1>3 DEF Put
    <2>3. Kept BY <2>2, <1>i DEF Phase
    <2>4. Phase(f)' /\ Cached(f)' /\ Turn(f)'
      <3>1. file[f].n \in Nat BY <1>0 DEF Proxies
      <3> QED BY <1>i, <1>o, <2>1, <2>2, <3>1 DEF Phase, Cached, Turn, Current
    <2> QED BY <2>1, <2>3, <2>4, TurnsKept
  <1>4. CASE Flush(f)
    <2>1. /\ file'[f].pc = file[f].pc /\ file'[f].n = file[f].n /\ Aside(f)
          /\ file'[f].cache \in {<<>>, file[f].cache}
      BY <1>4, FlushStep
    <2>2. /\ file[f].cache # <<>> /\ file[f].pc \in {"writing", "header"}
          /\ file[f].pc = "header" => Others(f, Finishing)
      BY <1>4 DEF Flush
    <2>3. Kept
      BY <2>1, <2>2, <1>i DEF Turn, Others, Finishing
    <2>4. Phase(f)' /\ Cached(f)' /\ Turn(f)'
      <3>1. Phase(f)' /\ Turn(f)' BY <1>i, <1>o, <2>1, <2>2 DEF Phase, Turn, Current
      <3>2. ~file[f].bad BY <1>4 DEF Flush
      <3>3. ctl.phase \notin {"starting", "givingUp"} BY <1>i, <2>2 DEF Cached, Empty
      <3>4. Cached(f)' BY <1>i, <1>o, <2>1, <2>2, <3>2, <3>3 DEF Cached, Current
      <3> QED BY <3>1, <3>4
    <2> QED BY <2>1, <2>3, <2>4, TurnsKept
  <1>5. CASE Rewrite(f)
    <2>1. /\ file'[f].pc = "header" /\ file'[f].n = file[f].n /\ file'[f].bad = file[f].bad
          /\ file'[f].cache = (IF file[f].bad \/ file[f].n = 0 THEN file[f].cache ELSE <<0, 2>>)
          /\ Aside(f)
      BY <1>5, RewriteStep
    <2>2. /\ ctl.phase \in {"stopping", "givingUp"} /\ file[f].pc = "writing"
          /\ file[f].cache = <<>> \/ file[f].bad
      BY <1>5 DEF Rewrite, Flushed
    <2>3. Kept
      BY <2>1, <2>2, <1>i DEF Turn, Others, Finishing, Phase, Current
    <2>4. Phase(f)' /\ Cached(f)' /\ Turn(f)'
      <3>1. Phase(f)' /\ Turn(f)' BY <1>i, <1>o, <2>1, <2>2 DEF Phase, Turn, Current
      <3>2. file[f].n \in Nat BY <1>0 DEF Proxies
      <3>3. Cached(f)
        BY <1>i
      <3>4. CASE file[f].bad \/ file[f].n = 0
        <4>1. file'[f].cache = file[f].cache BY <2>1, <3>4
        <4> QED BY <3>1, <3>3, <4>1, <3>4, <1>o, <2>1, <2>2, <3>2 DEF Cached, Current, Empty
      <3>5. CASE ~file[f].bad /\ file[f].n # 0
        <4>1. file'[f].cache = <<0, 2>> BY <2>1, <3>5
        <4>2. ctl.phase = "stopping" BY <2>2, <3>3, <3>5 DEF Cached, Empty
        <4> QED BY <3>1, <4>1, <4>2, <3>5, <1>o, <2>1, <3>2 DEF Cached, Current
      <3> QED BY <3>1, <3>4, <3>5
    <2> QED BY <2>1, <2>3, <2>4, TurnsKept
  <1>6. CASE CloseFile(f)
    <2>1. /\ Aside(f)
          /\ \/ Moved(f, "abort")
             \/ Sound(f) /\ Asking(f, "CLOSE", "closing", "abort")
      BY <1>6, CloseFileStep
    <2>2. file[f].pc = "header" /\ Others(f, Finishing) /\ (file[f].cache = <<>> \/ file[f].bad)
      BY <1>6 DEF CloseFile, Flushed
    <2>3. Kept BY <2>2 DEF Others, Finishing
    <2>4. Phase(f)' /\ Cached(f)' /\ Turn(f)'
      BY <1>i, <1>o, <2>1, <2>2 DEF Asking, Moved, Sound, Phase, Cached, Turn, Current, Empty
    <2> QED BY <2>1, <2>3, <2>4, TurnsKept
  <1>7. CASE CloseAnswered(f)
    <2>1. Moved(f, IF file[f].res = "ok" THEN "done" ELSE "abort") /\ Aside(f)
      BY <1>7, CloseAnsweredStep
    <2>2. file[f].pc = "closing" BY <1>7 DEF CloseAnswered
    <2>3. Kept BY <2>2, <1>i DEF Turn, Others, Finishing
    <2>4. Phase(f)' /\ Cached(f)' /\ Turn(f)'
      BY <1>i, <1>o, <2>1, <2>2 DEF Moved, Phase, Cached, Turn, Current, Empty
    <2> QED BY <2>1, <2>3, <2>4, TurnsKept
  <1>8. CASE AbortFile(f) \/ Aborted(f)
    <2>1. /\ Aside(f)
          /\ Asking(f, "ABORT", "aborting", "done") \/ Moved(f, "done")
      BY <1>8, AbortFileStep, AbortedStep
    <2>2. file[f].pc \in {"abort", "aborting"} BY <1>8 DEF AbortFile, Aborted
    <2>3. Kept BY <2>2, <1>i DEF Turn, Others, Finishing
    <2>4. Phase(f)' /\ Cached(f)' /\ Turn(f)'
      BY <1>i, <1>o, <2>1, <2>2 DEF Asking, Moved, Phase, Cached, Turn, Current, Empty
    <2> QED BY <2>1, <2>3, <2>4, TurnsKept
  <1> QED BY <1>1, <1>2, <1>3, <1>4, <1>5, <1>6, <1>7, <1>8 DEF ProxyStep

LEMMA SenderFile ==
  ASSUME Typed, Sender, NEW f \in Files
  PROVE  /\ file'[f].pc = file[f].pc /\ file'[f].n = file[f].n /\ file'[f].cache = file[f].cache
         /\ file'[f].bad = file[f].bad
         /\ file'[f].res = file[f].res \/ (FinishJob /\ snd.job.type # "WRITE" /\ snd.job.f = f)
  <1>0. file \in [Files -> Proxies] /\ file[f] \in Proxies BY DEF Typed
  <1>1. CASE FinishJob
    <2> DEFINE res == IF snd.ok THEN "ok" ELSE "fail"
    <2>1. \/ file' = file
          \/ snd.job.f \in Files /\ snd.job.type # "WRITE" /\ file' = [file EXCEPT ![snd.job.f].res = res]
      BY <1>1 DEF FinishJob
    <2> HIDE DEF res
    <2>2. CASE file' = file
      BY <2>2
    <2>3. CASE /\ snd.job.f = f /\ snd.job.type # "WRITE"
               /\ file' = [file EXCEPT ![snd.job.f].res = res]
      <3>1. file'[f] = [file[f] EXCEPT !.res = res] BY <1>0, <2>3
      <3> QED BY <1>0, <1>1, <2>3, <3>1 DEF Proxies
    <2>4. CASE snd.job.f # f /\ file' = [file EXCEPT ![snd.job.f].res = res]
      <3>1. file'[f] = file[f] BY <1>0, <2>4
      <3> QED BY <3>1
    <2> QED BY <2>1, <2>2, <2>3, <2>4
  <1>2. CASE ~FinishJob
    <2>1. file' = file
      BY <1>2 DEF Sender, TakeJob, SenderExits, StreamChunk, Request, SendFails, Acknowledged,
                  NotAcknowledged
    <2> QED BY <2>1
  <1> QED BY <1>1, <1>2

LEMMA SenderProxy ==
  ASSUME Typed, ProxyInv, Sender
  PROVE  ProxyInv'
  <1>0. ctl \in Recordings BY DEF Typed
  <1>1. ctl'.phase = ctl.phase /\ ctl'.commit = ctl.commit
    BY <1>0, SenderCtl DEF MarkFailed, Reports, Recordings
  <1>2. \A f \in Files : /\ file'[f].pc = file[f].pc /\ file'[f].n = file[f].n
                         /\ file'[f].cache = file[f].cache /\ file'[f].bad = file[f].bad
    BY SenderFile
  <1> SUFFICES ASSUME NEW f \in Files PROVE Phase(f)' /\ Cached(f)' /\ Turn(f)'
    BY DEF ProxyInv
  <1>3. Phase(f) /\ Cached(f) /\ Turn(f) BY DEF ProxyInv
  <1>4. Phase(f)' BY <1>1, <1>2, <1>3 DEF Phase, Current
  <1>5. Cached(f)' BY <1>1, <1>2, <1>3 DEF Cached, Current, Empty
  <1>6. Turn(f)' BY <1>2, <1>3 DEF Turn, Others
  <1> QED BY <1>4, <1>5, <1>6

LEMMA RecordingProxy ==
  ASSUME Typed, ProxyInv, Recording
  PROVE  ProxyInv'
  <1>0. ctl \in Recordings BY DEF Typed
  <1>i. \A f \in Files : Phase(f) /\ Cached(f) /\ Turn(f) BY DEF ProxyInv
  <1> SUFFICES ASSUME NEW f \in Files PROVE Phase(f)' /\ Cached(f)' /\ Turn(f)'
    BY DEF ProxyInv
  <1>t. ~Begin => file' = file /\ Turn(f)'
    <2>1. ~Begin => file' = file
      BY DEF Recording, StartRecording, StartFails, StopRecording, EndRecording, EndAnswered, JoinSender
    <2> QED BY <1>i, <2>1 DEF Turn, Others
  <1>1. CASE Begin
    <2>1. file'[f] = NoProxy /\ ctl'.phase = "starting"
      BY <1>0, <1>1 DEF Begin, Control, Recordings
    <2> QED BY <2>1 DEF NoProxy, Phase, Cached, Turn, Current, Empty
  <1>2. CASE StartRecording
    <2>1. file' = file /\ file[f].pc = "writing" /\ ctl'.phase = "recording" /\ ctl.phase = "starting"
      BY <1>0, <1>2 DEF StartRecording, Control, Recordings
    <2> QED BY <2>1, <1>i, <1>t, <1>2 DEF Phase, Cached, Turn, Current, Empty
  <1>3. CASE StartFails
    <2>1. file' = file /\ file[f].pc # "opening" /\ ctl'.phase = "givingUp" /\ ctl.phase = "starting"
      BY <1>0, <1>3 DEF StartFails, Control, Recordings
    <2>2. Turn(f)' BY <2>1, <1>i DEF Turn, Others
    <2> QED BY <2>1, <2>2, <1>i DEF Phase, Cached, Current, Empty
  <1>4. CASE StopRecording
    <2>1. file' = file /\ ctl'.phase = "stopping" /\ ctl.phase = "recording"
      BY <1>0, <1>4 DEF StopRecording, Control, Recordings
    <2>2. Turn(f)' BY <2>1, <1>i DEF Turn, Others
    <2> QED BY <2>1, <2>2, <1>i DEF Phase, Cached, Current, Empty
  <1>5. CASE EndRecording
    <2>1. /\ file' = file /\ ctl'.phase \in {"ending", "joining"}
          /\ ctl.phase \in {"stopping", "givingUp"}
          /\ file[f].pc \in {"none", "refused", "done"}
          /\ ctl'.phase = "ending" /\ ctl'.commit => ctl.phase = "stopping"
      BY <1>0, <1>5 DEF EndRecording, Control, Recordings
    <2>2. Turn(f)' BY <2>1, <1>i DEF Turn, Others
    <2> QED BY <2>1, <2>2, <1>i DEF Phase, Cached, Current, Empty
  <1>6. CASE EndAnswered \/ JoinSender
    <2>1. /\ file' = file /\ ctl'.phase \in {"joining", "idle"} /\ ctl.phase \in {"ending", "joining"}
      BY <1>0, <1>6 DEF EndAnswered, JoinSender, Control, Recordings
    <2>2. Turn(f)' BY <2>1, <1>i DEF Turn, Others
    <2> QED BY <2>1, <2>2, <1>i DEF Phase, Cached, Current, Empty
  <1> QED BY <1>1, <1>2, <1>3, <1>4, <1>5, <1>6 DEF Recording

LEMMA EnvironmentFile ==
  ASSUME Typed, Environment
  PROVE  /\ UNCHANGED <<file, queue, snd>>
         /\ ctl'.phase = ctl.phase /\ ctl'.commit = ctl.commit /\ ctl'.res = ctl.res
         /\ ctl'.record = ctl.record /\ ctl'.complete = ctl.complete
  <1>0. ctl \in Recordings BY DEF Typed
  <1> QED BY <1>0 DEF Environment, Attach, NetworkFails, Detach, Receive, ReceiveFails, ReceiverEnds,
                      Recordings

LEMMA EnvironmentProxy ==
  ASSUME Typed, ProxyInv, Environment
  PROVE  ProxyInv'
  <1>1. file' = file /\ ctl'.phase = ctl.phase /\ ctl'.commit = ctl.commit BY EnvironmentFile
  <1> QED BY <1>1 DEF ProxyInv, Phase, Cached, Turn, Current, Empty, Others
-----------------------------------------------------------------------------
(* The jobs.                                                               *)

NobodyAsks ==
    /\ ctl.phase # "ending"
    /\ \A g \in Files : file[g].pc \notin {"opening", "closing", "aborting"}

(* While nobody waits for an answer, only writes are queued or being sent. *)
LEMMA OnlyWrites ==
  ASSUME Typed, JobsInv, NobodyAsks
  PROVE  /\ \A i \in DOMAIN queue : queue[i].type = "WRITE"
         /\ Held => snd.job.type = "WRITE"
  <1>1. ASSUME NEW j \in Jobs, JobOK(j) PROVE j.type = "WRITE"
    BY <1>1 DEF JobOK, NobodyAsks, Asks, Jobs
  <1>2. \A i \in DOMAIN queue : queue[i] \in Jobs /\ JobOK(queue[i]) BY DEF Typed, JobsInv
  <1>3. Held => snd.job \in Jobs /\ JobOK(snd.job) BY DEF Typed, Senders, JobsInv, Held
  <1> QED BY <1>1, <1>2, <1>3

(* A step of a proxy that is waiting for no answer: it never goes back,    *)
(* and it asks for something only when nothing else is asked.              *)
Forward(f) ==
    /\ Current(f) => /\ Current(f)' /\ file[f].n <= file'[f].n
                     /\ file'[f].pc = "writing" => file[f].pc = "writing"
    /\ ~(file[f].pc \in {"opening", "closing", "aborting"} /\ file[f].res = "wait")

NewJob(j) == queue' = Append(queue, j) /\ ~Closed /\ NobodyAsks /\ JobOK(j)'

(* A step of a proxy moves it forward and appends at most a job of its     *)
(* own.                                                                    *)
LEMMA ProxyForward ==
  ASSUME Typed, LinkInv, ProxyInv, NEW f \in Files, ProxyStep(f)
  PROVE  /\ Aside(f) /\ Forward(f)
         /\ queue' = queue \/ \E j \in Jobs : j.f = f /\ NewJob(j)
  <1>0. file[f] \in Proxies /\ file[f].n \in Nat BY DEF Typed, Proxies
  <1>r. "recording" \notin Files BY LocalSaveAssumption
  <1>i. \A g \in Files : Phase(g) /\ Cached(g) /\ Turn(g) BY DEF ProxyInv
  <1>j. \A type \in {"OPEN", "CLOSE", "ABORT"} : Job(type, f, <<>>) \in Jobs BY JobTyped
  <1>1. CASE OpenFile(f)
    <2>1. Asking(f, "OPEN", "opening", "refused") /\ Aside(f) BY <1>1, OpenFileStep
    <2>2. ctl.phase = "starting" /\ file[f].pc = "none" /\ Others(f, {"none", "writing"})
      BY <1>1 DEF OpenFile
    <2>3. NobodyAsks BY <2>2 DEF NobodyAsks, Others
    <2>4. Forward(f) BY <2>2 DEF Forward, Current
    <2>5. file'[f].pc = "opening" /\ file'[f].res = "wait" => JobOK(Job("OPEN", f, <<>>))'
      BY <1>r DEF JobOK, Job, Asks
    <2> QED BY <2>1, <2>3, <2>4, <2>5, <1>j DEF Asking, Moved, NewJob, Job
  <1>2. CASE Opened(f)
    <2>1. queue' = queue /\ Aside(f) BY <1>2, OpenedStep
    <2>2. file[f].pc = "opening" /\ file[f].res # "wait" BY <1>2 DEF Opened
    <2> QED BY <2>1, <2>2 DEF Forward, Current
  <1>3. CASE Put(f)
    <2>1. file'[f].pc = "writing" /\ file'[f].n = file[f].n + 1 /\ queue' = queue /\ Aside(f)
      BY <1>3, PutStep
    <2>2. file[f].pc = "writing" BY <1>3 DEF Put
    <2> QED BY <1>0, <2>1, <2>2 DEF Forward, Current
  <1>4. CASE Flush(f)
    <2>0. PICK j \in Jobs : j = Job("WRITE", f, file[f].cache)
      BY <1>4, FlushStep, JobTyped
    <2>1. /\ file'[f].pc = file[f].pc /\ file'[f].n = file[f].n /\ Aside(f)
          /\ file[f].cache \in Chunk
          /\ queue' = queue \/ (~Closed /\ queue' = Append(queue, j))
      BY <2>0, <1>4, FlushStep
    <2>2. /\ file[f].cache # <<>> /\ file[f].pc \in {"writing", "header"} /\ ~file[f].bad
          /\ file[f].pc = "header" => Others(f, Finishing)
      BY <1>4 DEF Flush
    <2>3. Forward(f) BY <1>0, <2>1, <2>2 DEF Forward, Current
    <2>4. NobodyAsks
      <3>1. ctl.phase \notin {"starting", "givingUp", "ending"}
        BY <1>i, <2>2 DEF Cached, Empty, Phase
      <3>2. ASSUME NEW g \in Files, file[g].pc \in {"opening", "closing", "aborting"} PROVE FALSE
        <4>1. g # f BY <2>2, <3>2
        <4>2. CASE file[g].pc = "opening"
          <5>1. file[f].pc \in {"none", "writing"} BY <4>1, <4>2, <1>i DEF Turn, Others
          <5>2. ctl.phase \in {"recording", "stopping", "idle", "joining"}
            BY <3>1 DEF Typed, Recordings
          <5> QED BY <5>2, <4>2, <1>i DEF Phase, Current
        <4>3. CASE file[g].pc \in {"closing", "aborting"}
          <5>1. file[f].pc = "header" BY <2>2, <4>1, <4>3, <1>i DEF Turn, Others, Finishing
          <5> QED BY <5>1, <2>2, <4>1, <4>3 DEF Others, Finishing
        <4> QED BY <3>2, <4>2, <4>3
      <3> QED BY <3>1, <3>2 DEF NobodyAsks
    <2>5. JobOK(j)'
      <3>1. file[f].cache[1] < file[f].n /\ file[f].cache[1] \in Nat /\ file[f].cache[2] \in {1, 2}
        BY <1>i, <2>1, <2>2 DEF Cached, Chunk
      <3>2. file[f].cache[2] = 2 => file[f].cache[1] = 0 /\ file[f].pc # "writing"
        BY <1>i, <2>2 DEF Cached
      <3>3. j.type = "WRITE" /\ j.f = f /\ j.chunk = file[f].cache BY <2>0 DEF Job
      <3>4. Current(f)' BY <2>1, <2>2 DEF Current
      <3> QED BY <1>r, <2>1, <3>1, <3>2, <3>3, <3>4 DEF JobOK, WriteOK
    <2>6. j.f = f BY <2>0 DEF Job
    <2> QED BY <2>0, <2>1, <2>3, <2>4, <2>5, <2>6 DEF NewJob
  <1>5. CASE Rewrite(f)
    <2>1. file'[f].pc = "header" /\ file'[f].n = file[f].n /\ queue' = queue /\ Aside(f)
      BY <1>5, RewriteStep
    <2>2. file[f].pc = "writing" BY <1>5 DEF Rewrite
    <2> QED BY <1>0, <2>1, <2>2 DEF Forward, Current
  <1>6. CASE CloseFile(f)
    <2>1. /\ Aside(f)
          /\ \/ Moved(f, "abort") /\ queue' = queue
             \/ Sound(f) /\ Asking(f, "CLOSE", "closing", "abort")
      BY <1>6, CloseFileStep
    <2>2. file[f].pc = "header" /\ Others(f, Finishing) BY <1>6 DEF CloseFile
    <2>3. NobodyAsks
      BY <2>2, <1>i DEF NobodyAsks, Others, Finishing, Phase
    <2>4. Forward(f) BY <1>0, <2>1, <2>2 DEF Forward, Current, Asking, Moved
    <2>5. file'[f].pc = "closing" /\ file'[f].res = "wait" => JobOK(Job("CLOSE", f, <<>>))'
      BY <1>r DEF JobOK, Job, Asks
    <2> QED BY <2>1, <2>3, <2>4, <2>5, <1>j DEF Asking, Moved, NewJob, Job
  <1>7. CASE CloseAnswered(f)
    <2>1. Moved(f, IF file[f].res = "ok" THEN "done" ELSE "abort") /\ queue' = queue /\ Aside(f)
      BY <1>7, CloseAnsweredStep
    <2>2. file[f].pc = "closing" /\ file[f].res # "wait" BY <1>7 DEF CloseAnswered
    <2> QED BY <1>0, <2>1, <2>2 DEF Forward, Current, Moved
  <1>8. CASE AbortFile(f)
    <2>1. Asking(f, "ABORT", "aborting", "done") /\ Aside(f) BY <1>8, AbortFileStep
    <2>2. file[f].pc = "abort" BY <1>8 DEF AbortFile
    <2>3. NobodyAsks
      BY <2>2, <1>i DEF NobodyAsks, Others, Finishing, Phase, Turn
    <2>4. Forward(f) BY <1>0, <2>1, <2>2 DEF Forward, Current, Asking, Moved
    <2>5. file'[f].pc = "aborting" /\ file'[f].res = "wait" => JobOK(Job("ABORT", f, <<>>))'
      BY <1>r DEF JobOK, Job, Asks
    <2> QED BY <2>1, <2>3, <2>4, <2>5, <1>j DEF Asking, Moved, NewJob, Job
  <1>9. CASE Aborted(f)
    <2>1. Moved(f, "done") /\ queue' = queue /\ Aside(f)
      BY <1>9, AbortedStep
    <2>2. file[f].pc = "aborting" /\ file[f].res # "wait" BY <1>9 DEF Aborted
    <2> QED BY <1>0, <2>1, <2>2 DEF Forward, Current, Moved
  <1> QED BY <1>1, <1>2, <1>3, <1>4, <1>5, <1>6, <1>7, <1>8, <1>9 DEF ProxyStep

(* What is true of a job stays true when its proxy moves forward.          *)
LEMMA JobForward ==
  ASSUME LinkInv, NEW f \in Files, Aside(f), Forward(f), NEW j \in Jobs, JobOK(j),
         file[f].n \in Nat, file'[f].n \in Nat
  PROVE  JobOK(j)'
  <1>r. "recording" \notin Files BY LocalSaveAssumption
  <1>1. ctl' = ctl BY DEF Aside
  <1>2. CASE j.f # f
    <2>1. j.f \in Files => file'[j.f] = file[j.f] BY <1>2 DEF Aside
    <2>2. CASE j.f \in Files
      BY <1>1, <1>2, <2>1, <2>2 DEF JobOK, Asks, Current, WriteOK
    <2>3. CASE j.f \notin Files
      <3>1. j.type \in {"ABORT", "SYNC", "COMMIT"} BY <2>3 DEF Jobs
      <3> QED BY <1>1, <2>3, <3>1 DEF JobOK
    <2> QED BY <2>2, <2>3
  <1>3. CASE j.f = f
    <2>1. j.type \notin {"OPEN", "CLOSE", "ABORT"}
      BY <1>3 DEF JobOK, Asks, Forward
    <2>2. j.type = "WRITE" BY <1>3, <1>r, <2>1 DEF Jobs, JobOK
    <2>3. j.chunk[1] \in Nat BY <2>2 DEF Jobs, Chunk
    <2> QED BY <1>3, <1>r, <2>2, <2>3 DEF JobOK, WriteOK, Forward
  <1> QED BY <1>2, <1>3

(* A job appended to a queue in which nothing is asked.                    *)
LEMMA QueueGrows ==
  ASSUME Typed, LinkInv, SenderInv, JobsInv, NEW j \in Jobs, NewJob(j), snd' = snd,
         \A k \in Jobs : JobOK(k) => JobOK(k)'
  PROVE  JobsInv'
  <1>1. /\ queue \in Seq(Jobs) /\ snd.job \in Jobs \cup {<<>>} BY DEF Typed, Senders
  <1>2. /\ \A i \in DOMAIN queue : queue[i].type = "WRITE"
        /\ Held => snd.job.type = "WRITE"
    BY OnlyWrites DEF NewJob
  <1>3. queue' = Append(queue, j) /\ JobOK(j)' BY DEF NewJob
  <1>4. /\ Len(queue') = Len(queue) + 1 /\ DOMAIN queue' = 1 .. Len(queue) + 1
        /\ \A i \in 1 .. Len(queue) : queue'[i] = queue[i]
        /\ queue'[Len(queue) + 1] = j
    BY <1>1, <1>3
  <1>5. ASSUME NEW i \in DOMAIN queue' PROVE JobOK(queue[i])' /\ (queue'[i].type # "WRITE" => i = Len(queue'))
    <2>0. Len(queue) \in Nat BY <1>1
    <2>1. CASE i = Len(queue) + 1
      BY <2>1, <1>3, <1>4
    <2>2. CASE i \in 1 .. Len(queue)
      <3>1. queue'[i] = queue[i] /\ i \in DOMAIN queue BY <1>1, <1>4, <2>2
      <3>2. queue[i] \in Jobs /\ JobOK(queue[i]) /\ queue[i].type = "WRITE"
        BY <1>1, <1>2, <3>1 DEF JobsInv
      <3>3. PICK k \in Jobs : k = queue[i] BY <3>2
      <3>4. JobOK(k)' BY <3>2, <3>3
      <3>5. queue'[i] = k BY <3>1, <3>3
      <3> QED BY <3>2, <3>3, <3>4, <3>5
    <2> QED BY <1>4, <2>0, <2>1, <2>2
  <1>6. Held' => JobOK(snd.job)' /\ snd'.job.type = "WRITE"
    <2>1. SUFFICES ASSUME Held' PROVE JobOK(snd.job)' /\ snd'.job.type = "WRITE" OBVIOUS
    <2>2. Held BY <2>1 DEF Held
    <2>3. snd.job \in Jobs /\ JobOK(snd.job) /\ snd.job.type = "WRITE"
      BY <1>1, <1>2, <2>2 DEF JobsInv, Held
    <2>4. PICK k \in Jobs : k = snd.job BY <2>3
    <2>5. JobOK(k)' BY <2>3, <2>4
    <2>6. snd'.job = k BY <2>4
    <2> QED BY <2>3, <2>4, <2>5, <2>6
  <1> QED BY <1>5, <1>6 DEF JobsInv

(* Steps that leave queue and sender alone.                                *)
LEMMA JobsKept ==
  ASSUME Typed, JobsInv, queue' = queue, snd' = snd, \A k \in Jobs : JobOK(k) => JobOK(k)'
  PROVE  JobsInv'
  <1>1. ASSUME NEW i \in DOMAIN queue' PROVE JobOK(queue[i])'
    <2>1. queue[i] \in Jobs /\ JobOK(queue[i]) BY <1>1 DEF Typed, JobsInv
    <2>2. PICK k \in Jobs : k = queue[i] BY <2>1
    <2>3. JobOK(k)' /\ queue'[i] = k BY <2>1, <2>2
    <2> QED BY <2>3
  <1>2. Held' => JobOK(snd.job)'
    <2>1. SUFFICES ASSUME Held' PROVE JobOK(snd.job)' OBVIOUS
    <2>2. snd.job \in Jobs /\ JobOK(snd.job)
      BY <2>1 DEF Typed, Senders, JobsInv, Held
    <2>3. PICK k \in Jobs : k = snd.job BY <2>2
    <2>4. JobOK(k)' /\ snd'.job = k BY <2>2, <2>3
    <2> QED BY <2>4
  <1> QED BY <1>1, <1>2 DEF JobsInv, Held

LEMMA ProxyJobs ==
  ASSUME Typed, LinkInv, SenderInv, ProxyInv, JobsInv, NEW f \in Files, ProxyStep(f)
  PROVE  JobsInv'
  <1>1. Aside(f) /\ Forward(f) /\ (queue' = queue \/ \E j \in Jobs : j.f = f /\ NewJob(j))
    BY ProxyForward
  <1>2. file[f].n \in Nat /\ file'[f].n \in Nat
    <2>1. Typed' BY ProxyTyped
    <2> QED BY <2>1 DEF Typed, Proxies
  <1>3. \A k \in Jobs : JobOK(k) => JobOK(k)' BY <1>1, <1>2, JobForward
  <1>4. snd' = snd BY <1>1 DEF Aside
  <1> QED BY <1>1, <1>3, <1>4, QueueGrows, JobsKept
(* The job a sender holds, and what it does to the queue and the flags.    *)
Busy == StreamChunk \/ Request \/ SendFails \/ Acknowledged \/ NotAcknowledged

(* Until the job is finished, the sender works on the same job and takes   *)
(* no other.                                                               *)
LEMMA BusyKeepsJob ==
  ASSUME Typed, Busy
  PROVE  /\ snd'.job = snd.job /\ queue' = queue /\ file' = file
         /\ ctl'.phase = ctl.phase /\ ctl'.commit = ctl.commit /\ ctl'.res = ctl.res
         /\ snd'.pc \notin {"exited", "idle", "stream"}
  <1>0. snd \in Senders /\ ctl \in Recordings BY DEF Typed
  <1>p. \A s \in Senders : Plan(s).pc \in {"finish", "sync", "control"} /\ Plan(s).job = s.job
    BY PlanTyped DEF Plan, Senders
  <1>1. CASE StreamChunk
    <2>1. snd.out + 1 \in Nat BY <1>0 DEF Senders
    <2> DEFINE s == [snd EXCEPT !.out = @ + 1]
    <2>2. s \in Senders /\ s.job = snd.job BY <1>0, <2>1 DEF Senders
    <2>3. snd' = Plan(s) BY <1>1 DEF StreamChunk
    <2> HIDE DEF s
    <2> QED BY <1>1, <1>p, <2>2, <2>3 DEF StreamChunk
  <1>2. CASE Request
    <2>1. snd'.job = snd.job /\ snd'.pc \in {"syncing", "asking"}
      BY <1>0, <1>2 DEF Request, Senders
    <2> QED BY <2>1, <1>2 DEF Request
  <1>3. CASE SendFails \/ NotAcknowledged
    <2>1. snd'.job = snd.job /\ snd'.pc = "finish"
      BY <1>0, <1>3 DEF SendFails, NotAcknowledged, Senders
    <2>2. ctl' = ctl \/ MarkFailed BY <1>3 DEF SendFails, NotAcknowledged
    <2>3. ctl'.phase = ctl.phase /\ ctl'.commit = ctl.commit /\ ctl'.res = ctl.res
      BY <1>0, <2>2 DEF MarkFailed, Recordings
    <2> QED BY <1>3, <2>1, <2>3 DEF SendFails, NotAcknowledged
  <1>4. CASE Acknowledged
    <2> DEFINE s == [snd EXCEPT !.out = 0]
    <2>2. s \in Senders /\ s.job = snd.job BY <1>0 DEF Senders
    <2>3. snd' = Plan(s) \/ snd' = [snd EXCEPT !.pc = "finish"] BY <1>4 DEF Acknowledged
    <2> HIDE DEF s
    <2>4. snd'.job = snd.job /\ snd'.pc \in {"finish", "sync", "control"}
      BY <1>0, <1>p, <2>2, <2>3 DEF Senders
    <2> QED BY <1>4, <2>4 DEF Acknowledged
  <1> QED BY <1>1, <1>2, <1>3, <1>4 DEF Busy

LEMMA SenderJobs ==
  ASSUME Typed, SenderInv, JobsInv, Sender
  PROVE  JobsInv'
  <1>0. snd \in Senders /\ queue \in Seq(Jobs) /\ ctl \in Recordings BY DEF Typed
  <1>q. \A i \in DOMAIN queue : queue[i] \in Jobs /\ JobOK(queue[i])
                               /\ (queue[i].type # "WRITE" => i = Len(queue))
    BY <1>0 DEF JobsInv
  <1>s. /\ ctl'.phase = ctl.phase /\ ctl'.commit = ctl.commit
        /\ ~FinishJob => ctl'.res = ctl.res /\ file' = file
    BY <1>0, SenderCtl DEF MarkFailed, Reports, Recordings, Sender, TakeJob, SenderExits,
       StreamChunk, Request, SendFails, Acknowledged, NotAcknowledged
  <1>k. ~FinishJob => \A k \in Jobs : JobOK(k) => JobOK(k)'
    BY <1>s DEF JobOK, Asks, Current, WriteOK
  <1>1. CASE TakeJob
    <2>1. queue # <<>> /\ queue' = Tail(queue) /\ ~FinishJob BY <1>1 DEF TakeJob, FinishJob
    <2>2. snd'.job = Head(queue)
      <3> DEFINE s == [snd EXCEPT !.job = Head(queue), !.ok = TRUE]
      <3>1. Head(queue) \in Jobs BY <1>0, <2>1
      <3>2. s \in Senders /\ s.job = Head(queue) BY <1>0, <3>1 DEF Senders
      <3>3. snd' = [s EXCEPT !.pc = "stream"] \/ snd' = Plan(s) BY <1>1 DEF TakeJob
      <3> HIDE DEF s
      <3> QED BY <3>2, <3>3, PlanTyped DEF Senders
    <2>3. /\ DOMAIN queue' = 1 .. Len(queue) - 1 /\ Len(queue') = Len(queue) - 1
          /\ \A i \in DOMAIN queue' : queue'[i] = queue[i + 1] /\ i + 1 \in DOMAIN queue
          /\ Head(queue) = queue[1] /\ 1 \in DOMAIN queue
      BY <1>0, <2>1
    <2>4. ASSUME NEW i \in DOMAIN queue'
          PROVE  JobOK(queue[i])' /\ (queue'[i].type # "WRITE" => i = Len(queue'))
      <3>1. PICK k \in Jobs : k = queue[i + 1] BY <1>q, <2>3
      <3>2. JobOK(k)' /\ queue'[i] = k BY <1>k, <1>q, <2>1, <2>3, <3>1
      <3>3. queue'[i].type # "WRITE" => i + 1 = Len(queue) BY <1>q, <2>3
      <3>4. i \in Nat /\ Len(queue) \in Nat BY <1>0, <2>3
      <3> QED BY <3>2, <3>3, <3>4, <2>3
    <2>5. JobOK(snd.job)'
      <3>1. PICK k \in Jobs : k = queue[1] BY <1>q, <2>3
      <3>2. JobOK(k)' /\ snd'.job = k BY <1>k, <1>q, <2>1, <2>2, <2>3, <3>1
      <3> QED BY <3>2
    <2>6. snd'.job.type # "WRITE" => queue' = <<>>
      <3>1. snd'.job.type # "WRITE" => Len(queue) = 1 BY <1>q, <2>2, <2>3
      <3> QED BY <3>1, <1>0, <2>1, <2>3
    <2> QED BY <2>4, <2>5, <2>6 DEF JobsInv
  <1>2. CASE SenderExits
    <2>1. queue' = queue /\ queue = <<>> /\ snd'.job = <<>> BY <1>2 DEF SenderExits, Idle
    <2> QED BY <2>1 DEF JobsInv, Held
  <1>3. CASE Busy
    <2>1. snd'.job = snd.job /\ queue' = queue BY <1>3, BusyKeepsJob
    <2>2. ~FinishJob
      BY <1>3 DEF Busy, FinishJob, StreamChunk, Request, SendFails, Acknowledged, NotAcknowledged
    <2>3. ASSUME NEW i \in DOMAIN queue' PROVE JobOK(queue[i])'
      <3>1. PICK k \in Jobs : k = queue[i] BY <1>q, <2>1
      <3>2. JobOK(k)' /\ queue'[i] = k BY <1>k, <1>q, <2>1, <2>2, <3>1
      <3> QED BY <3>2
    <2>4. Held' => JobOK(snd.job)'
      <3>1. SUFFICES ASSUME Held' PROVE JobOK(snd.job)' OBVIOUS
      <3>2. Held /\ snd.job \in Jobs BY <1>0, <2>1, <3>1 DEF Held, Senders
      <3>3. PICK k \in Jobs : k = snd.job BY <3>2
      <3>4. JobOK(k)' /\ snd'.job = k BY <1>k, <2>1, <2>2, <3>2, <3>3 DEF JobsInv
      <3> QED BY <3>4
    <2> QED BY <1>q, <2>1, <2>3, <2>4 DEF JobsInv, Held
  <1>4. CASE FinishJob
    <2>1. queue' = queue /\ snd'.job = <<>> BY <1>0, <1>4 DEF FinishJob, Senders
    <2>2. CASE snd.job.type = "WRITE"
      <3>1. file' = file /\ ctl' = ctl BY <1>4, <2>2 DEF FinishJob
      <3>2. ASSUME NEW i \in DOMAIN queue' PROVE JobOK(queue[i])'
        <4>1. PICK k \in Jobs : k = queue[i] BY <1>q, <2>1, <3>2
        <4>2. JobOK(k)' BY <1>q, <2>1, <3>1, <3>2, <4>1 DEF JobOK, Asks, Current, WriteOK
        <4>3. queue'[i] = k BY <2>1, <4>1
        <4> QED BY <4>2, <4>3
      <3> QED BY <1>q, <2>1, <3>2 DEF JobsInv, Held
    <2>3. CASE snd.job.type # "WRITE"
      <3>1. Held BY <1>4 DEF FinishJob, SenderInv, Held
      <3>2. queue' = <<>> BY <2>1, <2>3, <3>1 DEF JobsInv
      <3> QED BY <2>1, <3>2 DEF JobsInv, Held
    <2> QED BY <2>2, <2>3
  <1> QED BY <1>1, <1>2, <1>3, <1>4 DEF Sender, Busy

LEMMA RecordingJobs ==
  ASSUME Typed, LinkInv, SenderInv, ProxyInv, JobsInv, Recording
  PROVE  JobsInv'
  <1>0. ctl \in Recordings /\ queue \in Seq(Jobs) BY DEF Typed
  <1>r. "recording" \notin Files BY LocalSaveAssumption
  <1>j. \A k \in Jobs : k.f \in Files \cup {"recording"} BY DEF Jobs
  <1>1. CASE Begin
    <2>1. queue' = <<>> /\ snd'.job = <<>> BY <1>1 DEF Begin, Idle
    <2> QED BY <2>1 DEF JobsInv, Held
  <1>2. CASE StartRecording \/ StartFails \/ StopRecording \/ JoinSender
    <2>1. /\ UNCHANGED <<file, queue, snd>>
          /\ ctl.phase # "ending" /\ ctl'.phase # "ending"
      BY <1>0, <1>2 DEF StartRecording, StartFails, StopRecording, JoinSender, Control, Recordings
    <2>2. \A k \in Jobs : JobOK(k) => JobOK(k)'
      BY <2>1 DEF JobOK, Asks, Current, WriteOK
    <2> QED BY <2>1, <2>2, JobsKept
  <1>3. CASE EndRecording
    <2>1. /\ UNCHANGED <<file, snd>> /\ ctl.phase \in {"stopping", "givingUp"}
          /\ \A f \in Files : file[f].pc \in {"none", "refused", "done"}
      BY <1>3 DEF EndRecording
    <2>2. \A k \in Jobs : JobOK(k) => JobOK(k)'
      BY <2>1 DEF JobOK, Asks, Current, WriteOK
    <2>3. NobodyAsks BY <2>1 DEF NobodyAsks
    <2>4. \/ queue' = queue
          \/ \E commit \in BOOLEAN :
               /\ Enqueue(Job(IF commit THEN "COMMIT" ELSE "ABORT", "recording", <<>>))
               /\ ctl' = [ctl EXCEPT !.phase = "ending", !.commit = commit, !.res = "wait"]
      <3>1. PICK drops \in BOOLEAN :
              LET commit == ctl.phase = "stopping" /\ Good(drops)
              IN  \/ /\ commit \/ (ctl.active /\ ~ctl.failed)
                     /\ Enqueue(Job(IF commit THEN "COMMIT" ELSE "ABORT", "recording", <<>>))
                     /\ Control([ctl EXCEPT !.phase = "ending", !.commit = commit, !.res = "wait"])
                  \/ /\ Refuse("COMMIT")
                     /\ Control([ctl EXCEPT !.phase = "joining", !.stop = TRUE])
        BY <1>3 DEF EndRecording
      <3> DEFINE commit == ctl.phase = "stopping" /\ Good(drops)
      <3>2. commit \in BOOLEAN OBVIOUS
      <3>3. \/ queue' = queue
            \/ /\ Enqueue(Job(IF commit THEN "COMMIT" ELSE "ABORT", "recording", <<>>))
               /\ ctl' = [ctl EXCEPT !.phase = "ending", !.commit = commit, !.res = "wait"]
        BY <3>1 DEF Refuse, Control
      <3> HIDE DEF commit
      <3> QED BY <3>2, <3>3
    <2>5. CASE queue' = queue
      BY <2>1, <2>2, <2>5, JobsKept
    <2>6. CASE queue' # queue
      <3>1. PICK commit \in BOOLEAN :
              /\ Enqueue(Job(IF commit THEN "COMMIT" ELSE "ABORT", "recording", <<>>))
              /\ ctl' = [ctl EXCEPT !.phase = "ending", !.commit = commit, !.res = "wait"]
        BY <2>4, <2>6
      <3>2. PICK j \in Jobs : j = Job(IF commit THEN "COMMIT" ELSE "ABORT", "recording", <<>>)
        BY JobTyped
      <3>3. j.type = (IF commit THEN "COMMIT" ELSE "ABORT") /\ j.f = "recording" BY <3>2 DEF Job
      <3>4. ctl'.phase = "ending" /\ ctl'.commit = commit /\ ctl'.res = "wait"
        BY <1>0, <3>1 DEF Recordings
      <3>5. JobOK(j)' BY <1>r, <3>3, <3>4 DEF JobOK
      <3>6. queue' = Append(queue, j) /\ ~Closed BY <3>1, <3>2 DEF Enqueue
      <3>7. NewJob(j) BY <2>3, <3>5, <3>6 DEF NewJob
      <3> QED BY <2>1, <2>2, <3>7, QueueGrows
    <2> QED BY <2>5, <2>6
  <1>4. CASE EndAnswered
    <2>1. /\ UNCHANGED <<file, queue, snd>>
          /\ ctl.phase = "ending" /\ ctl.res # "wait"
      BY <1>4 DEF EndAnswered
    <2>2. \A k \in Jobs : JobOK(k) => JobOK(k)'
      BY <2>1 DEF JobOK, Asks, Current, WriteOK
    <2> QED BY <2>1, <2>2, JobsKept
  <1> QED BY <1>1, <1>2, <1>3, <1>4 DEF Recording

LEMMA EnvironmentJobs ==
  ASSUME Typed, JobsInv, Environment
  PROVE  JobsInv'
  <1>1. /\ UNCHANGED <<file, queue, snd>>
        /\ ctl'.phase = ctl.phase /\ ctl'.commit = ctl.commit /\ ctl'.res = ctl.res
    BY EnvironmentFile
  <1>2. \A k \in Jobs : JobOK(k) => JobOK(k)'
    BY <1>1 DEF JobOK, Asks, Current, WriteOK
  <1> QED BY <1>1, <1>2, JobsKept
-----------------------------------------------------------------------------
(* The frames and the answers.                                             *)

LEMMA InitWire == Init => AcksInv /\ WireInv
  BY DEF Init, AcksInv, WireInv, FreshReceiver

(* A proxy becomes current by the answer to its OPEN.                      *)
LEMMA NewlyCurrent ==
  ASSUME Typed, NEW f \in Files, ProxyStep(f), ~Current(f), Current(f)'
  PROVE  OpenAnswered(f) /\ file'[f].pc = "writing"
  <1>1. CASE OpenFile(f)
    BY <1>1, OpenFileStep DEF Asking, Moved, Current
  <1>2. CASE Opened(f)
    <2>1. file'[f].pc = IF file[f].res = "ok" THEN "writing" ELSE "refused"
      BY <1>2, OpenedStep DEF Moved
    <2> QED BY <1>2, <2>1 DEF Opened, OpenAnswered, Current
  <1> QED BY <1>1, <1>2 DEF ProxyStep, Put, Flush, Rewrite, CloseFile, CloseAnswered, AbortFile,
                            Aborted, Current

LEMMA ProxyWire ==
  ASSUME Typed, LinkInv, ProxyInv, AcksInv, WireInv, DiskInv, NEW f \in Files, ProxyStep(f)
  PROVE  AcksInv' /\ WireInv'
  <1>1. Aside(f) /\ Forward(f) BY ProxyForward
  <1>2. UNCHANGED <<ctl, snd, conn, wire, acks, cli>> BY <1>1 DEF Aside
  <1>3. AcksInv' BY <1>2 DEF AcksInv
  <1>4. ASSUME cli.up, NEW i \in DOMAIN wire PROVE FrameOK(i)'
    <2>0. FrameOK(i) /\ wire[i] \in Jobs BY <1>4 DEF WireInv, Typed
    <2>1. Asked' = Asked BY <1>2 DEF Asked
    <2>2. ASSUME wire[i].type = "WRITE", ctl.record, Current(wire[i].f)'
          PROVE  Current(wire[i].f) /\ WriteOK(wire[i])'
      <3>1. wire[i].f \in Files /\ wire[i].chunk \in Chunk BY <2>0, <2>2 DEF Jobs
      <3>2. CASE wire[i].f # f
        <4>1. file'[wire[i].f] = file[wire[i].f] BY <1>1, <3>1, <3>2 DEF Aside
        <4>2. Current(wire[i].f) BY <2>2, <4>1, <1>2 DEF Current
        <4>3. WriteOK(wire[i]) BY <2>0, <2>2, <4>2 DEF FrameOK
        <4> QED BY <4>1, <4>2, <4>3, <1>2 DEF WriteOK
      <3>3. CASE wire[i].f = f
        <4>1. Current(f)
          <5>1. SUFFICES ASSUME ~Current(f) PROVE FALSE OBVIOUS
          <5>2. wire' = wire /\ Current(f)' BY <1>2, <2>2, <3>3 DEF Current
          <5>3. OpenAnswered(f) BY <5>1, <5>2, NewlyCurrent
          <5>4. NoWrites(wire, f) BY <1>4, <5>3 DEF DiskInv, Opens
          <5> QED BY <2>2, <3>3, <5>4 DEF NoWrites, IsWrite
        <4>2. WriteOK(wire[i]) BY <2>0, <2>2, <3>3, <4>1 DEF FrameOK
        <4>3. file[f].n \in Nat /\ wire[i].chunk[1] \in Nat BY <3>1 DEF Typed, Proxies, Chunk
        <4>4. file'[f].n \in Nat
          <5>1. Typed' BY ProxyTyped
          <5> QED BY <5>1 DEF Typed, Proxies
        <4> QED BY <1>1, <1>2, <3>3, <4>1, <4>2, <4>3, <4>4 DEF Forward, WriteOK
      <3> QED BY <3>2, <3>3
    <2> QED BY <1>2, <2>0, <2>1, <2>2 DEF FrameOK
  <1> QED BY <1>2, <1>3, <1>4 DEF WireInv

(* While no answer is awaited and the link holds, only writes are in       *)
(* flight and no answer is.                                                *)
LEMMA Quiet ==
  ASSUME AcksInv, WireInv, ~ctl.failed, snd.pc \notin Waiting
  PROVE  /\ cli.up => \A i \in DOMAIN wire : wire[i].type = "WRITE"
         /\ acks \in {<<>>, <<FALSE>>}
         /\ acks = <<FALSE>> => conn # "up"
  BY DEF AcksInv, WireInv, FrameOK

LEMMA HeadTailOne ==
  ASSUME NEW x
  PROVE  Head(<<x>>) = x /\ Tail(<<x>>) = <<>>
  OBVIOUS

LEMMA SenderWire ==
  ASSUME Typed, LinkInv, SenderInv, ProxyInv, JobsInv, AcksInv, WireInv, DiskInv, CommitInv, Sender
  PROVE  AcksInv' /\ WireInv'
  <1>0. /\ ctl \in Recordings /\ snd \in Senders /\ wire \in Seq(Jobs) /\ acks \in Seq(BOOLEAN)
        /\ snd.out \in Nat
    BY DEF Typed, Senders
  <1>f. \A f \in Files : (Current(f)' <=> Current(f)) /\ file'[f].pc = file[f].pc /\ file'[f].n = file[f].n
    BY SenderFile DEF Current
  <1>w. \A j \in Jobs : j.type = "WRITE" =>
          /\ j.f \in Files
          /\ Current(j.f)' <=> Current(j.f)
          /\ WriteOK(j)' <=> WriteOK(j)
    BY <1>f DEF Jobs, WriteOK
  <1>u. UNCHANGED <<conn, cli>> /\ ctl'.record = ctl.record
    BY <1>0, SenderCtl DEF MarkFailed, Reports, Recordings, Sender, TakeJob, SenderExits,
       StreamChunk, Request, SendFails, Acknowledged, NotAcknowledged, FinishJob, link
  <1>k. ASSUME NEW i \in DOMAIN wire, cli.up
        PROVE  wire[i] \in Jobs /\ FrameOK(i)
    BY <1>0, <1>k DEF WireInv
  <1>1. CASE TakeJob \/ SenderExits \/ FinishJob
    <2>1. UNCHANGED <<wire, acks>> /\ snd.pc \notin Waiting
      BY <1>1 DEF TakeJob, SenderExits, FinishJob, link, Waiting
    <2>2. ctl'.failed = ctl.failed
      BY <1>0, <1>1 DEF TakeJob, SenderExits, FinishJob, Recordings
    <2>3. snd'.out = snd.out \/ snd'.pc = "exited"
      <3>1. CASE TakeJob
        <4> DEFINE s == [snd EXCEPT !.job = Head(queue), !.ok = TRUE]
        <4>1. Head(queue) \in Jobs BY <3>1 DEF TakeJob, Typed
        <4>2. s \in Senders /\ s.out = snd.out BY <1>0, <4>1 DEF Senders
        <4>3. snd' = [s EXCEPT !.pc = "stream"] \/ snd' = Plan(s) BY <3>1 DEF TakeJob
        <4> HIDE DEF s
        <4> QED BY <4>2, <4>3, PlanTyped DEF Senders
      <3>2. CASE SenderExits
        BY <3>2 DEF SenderExits, Idle
      <3>3. CASE FinishJob
        BY <3>3, <1>0 DEF FinishJob, Senders
      <3> QED BY <1>1, <3>1, <3>2, <3>3
    <2>4. snd.pc # "exited" BY <1>1 DEF TakeJob, SenderExits, FinishJob
    <2>5. AcksInv'
      BY <1>u, <2>1, <2>2, Quiet DEF AcksInv
    <2>6. ASSUME NEW i \in DOMAIN wire, cli.up PROVE FrameOK(i)'
      <3>1. wire[i].type # "WRITE" => ctl.failed BY <2>1, <2>6, Quiet
      <3> QED BY <1>k, <1>u, <1>w, <2>1, <2>2, <2>3, <2>4, <2>6, <3>1 DEF FrameOK
    <2> QED BY <1>u, <2>1, <2>5, <2>6 DEF WireInv
  <1>2. CASE SendFails \/ NotAcknowledged
    <2>1. UNCHANGED <<wire, acks>> BY <1>2 DEF SendFails, NotAcknowledged, link
    <2>2. ctl'.failed
      <3>1. CASE ctl' # ctl
        BY <1>0, <1>2, <3>1 DEF SendFails, NotAcknowledged, MarkFailed, Recordings
      <3>2. CASE ctl' = ctl
        <4>1. CASE SendFails /\ ~Usable
          <5>1. ctl.phase # "idle" BY <4>1 DEF SendFails, SenderInv
          <5> QED BY <3>2, <4>1, <5>1 DEF Usable, LinkInv
        <4>2. CASE MarkFailed
          BY <4>2, <1>0 DEF MarkFailed, Recordings
        <4> QED BY <1>2, <4>1, <4>2 DEF SendFails, NotAcknowledged
      <3> QED BY <3>1, <3>2
    <2>3. ASSUME NEW i \in DOMAIN wire, cli.up PROVE FrameOK(i)'
      BY <1>k, <1>u, <1>w, <2>1, <2>2, <2>3 DEF FrameOK
    <2> QED BY <1>u, <2>1, <2>2, <2>3 DEF AcksInv, WireInv
  <1>3. CASE StreamChunk
    <2>1. /\ snd.pc = "stream" /\ ctl' = ctl /\ acks' = acks /\ Transmit(snd.job)
          /\ ctl.record /\ ~ctl.failed
      BY <1>3 DEF StreamChunk, Usable
    <2>2. snd.job \in Jobs /\ snd.job.type = "WRITE" /\ JobOK(snd.job) /\ snd.job.f \in Files
      BY <2>1 DEF SenderInv, JobsInv, Held, Typed, Senders, Jobs
    <2>3. snd'.out = snd.out + 1 /\ snd'.job = snd.job
      <3> DEFINE s == [snd EXCEPT !.out = @ + 1]
      <3>1. s \in Senders /\ s.out = snd.out + 1 /\ s.job = snd.job
        <4>1. snd.out + 1 \in Nat BY <1>0
        <4> QED BY <1>0, <4>1 DEF Senders
      <3>2. snd' = Plan(s) BY <1>3 DEF StreamChunk
      <3> HIDE DEF s
      <3> QED BY <3>1, <3>2, PlanTyped
    <2>4. snd.pc \notin Waiting BY <2>1 DEF Waiting
    <2>5. AcksInv' BY <1>u, <2>1, <2>4, Quiet DEF AcksInv
    <2>6. ASSUME NEW i \in DOMAIN wire, cli.up
          PROVE  wire[i].type = "WRITE" /\ FrameOK(i) /\ wire[i] \in Jobs
      BY <1>k, <2>1, <2>4, <2>6, Quiet
    <2>7. ASSUME cli.up PROVE snd.job.f \in cli.open
      <3>1. Current(snd.job.f) BY <2>2 DEF JobOK
      <3>2. Opens(snd.job.f) /\ Closes(snd.job.f) BY <2>2, <2>7 DEF DiskInv
      <3>3. disk[snd.job.f].name # "final" BY <2>1, <2>2 DEF CommitInv, Over
      <3>4. snd.job.f \notin cli.closed
        BY <2>1, <2>2, <3>2 DEF Closes, Closing, IsWrite
      <3> QED BY <2>1, <3>1, <3>2, <3>3, <3>4 DEF Opens
    <2>8. CASE conn # "up"
      <3>1. wire' = wire BY <2>1, <2>8 DEF Transmit
      <3>2. ASSUME NEW i \in DOMAIN wire, cli.up PROVE FrameOK(i)'
        BY <1>0, <1>u, <1>w, <2>1, <2>3, <2>6, <3>1, <3>2 DEF FrameOK
      <3> QED BY <1>u, <2>5, <3>1, <3>2 DEF WireInv
    <2>9. CASE conn = "up"
      <3>1. wire' = Append(wire, snd.job) /\ cli.up BY <2>1, <2>9 DEF Transmit, LinkInv
      <3>2. ASSUME NEW i \in DOMAIN wire' PROVE FrameOK(i)'
        <4>1. CASE i \in DOMAIN wire
          <5>1. wire'[i] = wire[i] BY <1>0, <3>1, <4>1
          <5> QED BY <1>0, <1>u, <1>w, <2>1, <2>3, <2>6, <3>1, <4>1, <5>1 DEF FrameOK
        <4>2. CASE i = Len(wire) + 1
          <5>1. wire'[i] = snd.job BY <1>0, <2>2, <3>1, <4>2
          <5>2. PICK j \in Jobs : j = snd.job BY <2>2
          <5>3. j.type = "WRITE" /\ j.f \in cli.open /\ WriteOK(j)' /\ snd'.out > 0
            BY <1>0, <1>w, <2>2, <2>3, <2>7, <3>1, <5>2 DEF JobOK
          <5>4. wire'[i] = j BY <5>1, <5>2
          <5> QED BY <1>u, <5>3, <5>4 DEF FrameOK
        <4> QED BY <1>0, <2>2, <3>1, <3>2, <4>1, <4>2
      <3> QED BY <2>5, <3>2 DEF WireInv
    <2> QED BY <2>8, <2>9
  <1>4. CASE Request
    <2>1. /\ snd.pc \in {"sync", "control"} /\ ctl' = ctl /\ acks' = acks
          /\ Transmit(IF snd.pc = "sync" THEN Job("SYNC", snd.job.f, <<>>) ELSE snd.job)
          /\ ~ctl.failed
      BY <1>4 DEF Request, Usable
    <2>2. /\ snd'.pc = (IF snd.pc = "sync" THEN "syncing" ELSE "asking")
          /\ snd'.job = snd.job /\ snd'.out = snd.out
      BY <1>0, <1>4 DEF Request, Senders
    <2>3. snd.job \in Jobs /\ (snd.pc = "control" => snd.job.type # "WRITE")
      BY <2>1 DEF SenderInv, Typed, Senders
    <2>4. snd.pc \notin Waiting /\ snd'.pc \in Waiting BY <2>1, <2>2 DEF Waiting
    <2>5. AcksInv' BY <1>u, <2>1, <2>4, Quiet DEF AcksInv
    <2>6. ASSUME NEW i \in DOMAIN wire, cli.up
          PROVE  wire[i].type = "WRITE" /\ FrameOK(i) /\ wire[i] \in Jobs
      BY <1>k, <2>1, <2>4, <2>6, Quiet
    <2>8. CASE conn # "up"
      <3>1. wire' = wire BY <2>1, <2>8 DEF Transmit
      <3>2. ASSUME NEW i \in DOMAIN wire, cli.up PROVE FrameOK(i)'
        BY <1>u, <1>w, <2>1, <2>2, <2>6, <3>1, <3>2 DEF FrameOK
      <3> QED BY <1>u, <2>5, <3>1, <3>2 DEF WireInv
    <2>9. CASE conn = "up"
      <3>0. PICK j \in Jobs : j = IF snd.pc = "sync" THEN Job("SYNC", snd.job.f, <<>>) ELSE snd.job
        <4>1. snd.job.f \in Files \cup {"recording"} BY <2>3 DEF Jobs
        <4>2. Job("SYNC", snd.job.f, <<>>) \in Jobs BY <4>1, JobTyped
        <4> QED BY <2>3, <4>2
      <3>1. wire' = Append(wire, j) BY <2>1, <2>9, <3>0 DEF Transmit
      <3>2. j.type # "WRITE" BY <2>1, <2>3, <3>0 DEF Job
      <3>3. Asked' = j BY <2>1, <2>2, <3>0 DEF Asked
      <3>4. ASSUME NEW i \in DOMAIN wire' PROVE FrameOK(i)'
        <4>1. CASE i \in DOMAIN wire
          <5>1. wire'[i] = wire[i] /\ cli.up BY <1>0, <2>9, <3>1, <4>1 DEF LinkInv
          <5> QED BY <1>u, <1>w, <2>1, <2>2, <2>6, <4>1, <5>1 DEF FrameOK
        <4>2. CASE i = Len(wire) + 1
          <5>1. wire'[i] = j /\ i = Len(wire') BY <1>0, <3>1, <4>2
          <5> QED BY <2>4, <3>2, <3>3, <5>1 DEF FrameOK
        <4> QED BY <1>0, <3>1, <3>4, <4>1, <4>2
      <3> QED BY <2>5, <3>4 DEF WireInv
    <2> QED BY <2>8, <2>9
  <1>5. CASE Acknowledged
    <2>1. /\ snd.pc \in Waiting /\ acks # <<>> /\ Head(acks) /\ acks' = Tail(acks)
          /\ wire' = wire /\ ctl' = ctl
      BY <1>5 DEF Acknowledged, Accepts, Waiting
    <2>2. ~ctl.failed BY <2>1 DEF SenderInv
    <2>3. acks = <<TRUE>>
      <3>1. acks = <<TRUE>> \/ acks = <<FALSE>> BY <2>1, <2>2 DEF AcksInv
      <3>2. Head(<<FALSE>>) = FALSE BY HeadTailOne
      <3> QED BY <2>1, <3>1, <3>2, Zenon
    <2>4. acks' = <<>>
      <3>1. Tail(<<TRUE>>) = <<>> BY HeadTailOne
      <3> QED BY <2>1, <2>3, <3>1, Zenon
    <2>5. cli.up => wire' = <<>> BY <2>1, <2>2, <2>3 DEF AcksInv
    <2> QED BY <1>u, <2>4, <2>5 DEF AcksInv, WireInv
  <1> QED BY <1>1, <1>2, <1>3, <1>4, <1>5 DEF Sender

LEMMA RecordingWire ==
  ASSUME Typed, LinkInv, SenderInv, AcksInv, WireInv, Recording
  PROVE  AcksInv' /\ WireInv'
  <1>0. ctl \in Recordings BY DEF Typed
  <1>1. UNCHANGED <<conn, wire, acks, cli>>
    BY DEF Recording, Begin, StartRecording, StartFails, StopRecording, EndRecording, EndAnswered,
           JoinSender, Control, link
  <1>2. ctl'.failed = ctl.failed
    BY <1>0 DEF Recording, Begin, StartRecording, StartFails, StopRecording, EndRecording,
                EndAnswered, JoinSender, Control, Recordings
  <1>3. CASE Begin
    <2>1. ~ctl.failed /\ snd.pc \notin Waiting BY <1>3 DEF Begin, LinkInv, SenderInv, Waiting
    <2>2. \A f \in Files : ~Current(f)' BY <1>3 DEF Begin, NoProxy, Current
    <2>3. ASSUME cli.up, NEW i \in DOMAIN wire PROVE FrameOK(i)'
      <3>1. wire[i].type = "WRITE" /\ FrameOK(i) /\ wire[i] \in Jobs
        <4>1. wire[i].type = "WRITE" BY <2>1, <2>3, Quiet
        <4>2. FrameOK(i) BY <2>3 DEF WireInv
        <4>3. wire[i] \in Jobs BY <2>3 DEF Typed
        <4> QED BY <4>1, <4>2, <4>3
      <3>2. wire[i].f \in Files BY <3>1 DEF Jobs
      <3> QED BY <1>1, <2>2, <3>1, <3>2 DEF FrameOK
    <2>4. AcksInv' BY <1>1, <2>1, Quiet DEF AcksInv
    <2> QED BY <1>1, <2>3, <2>4 DEF WireInv
  <1>4. CASE ~Begin
    <2>1. UNCHANGED <<file, snd>>
      BY <1>4 DEF Recording, StartRecording, StartFails, StopRecording, EndRecording, EndAnswered,
                  JoinSender
    <2>2. ctl'.record => ctl.record
      BY <1>0, <1>4 DEF Recording, StartRecording, StartFails, StopRecording, EndRecording,
         EndAnswered, JoinSender, Control, Recordings
    <2>3. ASSUME cli.up, NEW i \in DOMAIN wire PROVE FrameOK(i)'
      BY <1>1, <1>2, <2>1, <2>2, <2>3 DEF WireInv, FrameOK, Asked, Current, WriteOK
    <2>4. AcksInv' BY <1>1, <1>2, <2>1 DEF AcksInv
    <2> QED BY <1>1, <2>3, <2>4 DEF WireInv
  <1> QED BY <1>3, <1>4

(* The frame at the head of the wire.                                      *)
LEMMA WireTail ==
  ASSUME Typed, wire # <<>>, wire' = Tail(wire)
  PROVE  /\ Head(wire) \in Jobs /\ Head(wire) = wire[1] /\ 1 \in DOMAIN wire
         /\ Len(wire') = Len(wire) - 1 /\ Len(wire) \in Nat
         /\ \A i \in DOMAIN wire' : /\ i \in Nat /\ i + 1 \in DOMAIN wire /\ wire'[i] = wire[i + 1]
                                    /\ wire[i + 1] \in Jobs
         /\ \A i \in DOMAIN wire : i = 1 \/ (i - 1 \in DOMAIN wire' /\ wire'[i - 1] = wire[i])
         /\ Len(wire) = 1 => wire' = <<>>
  BY DEF Typed

(* What a frame applied without an error does, by its type.                *)
LEMMA ApplyEffect ==
  ASSUME Typed, cli.up, NEW h \in Jobs, Apply(h)
  PROVE  /\ h.type = "OPEN" =>
              /\ h.f \in Files /\ h.f \notin cli.open \cup cli.closed
              /\ cli'.up /\ cli'.open = cli.open \cup {h.f} /\ cli'.closed = cli.closed
              /\ \A g \in Files : disk'[g].data = disk[g].data
              /\ disk'[h.f].name = "partial"
              /\ \A g \in Files \ {h.f} : disk'[g].name = disk[g].name
         /\ h.type = "WRITE" =>
              /\ h.f \in cli.open /\ h.f \in Files /\ cli' = cli
              /\ \A g \in Files : disk'[g].name = disk[g].name
              /\ \A g \in Files \ {h.f} : disk'[g].data = disk[g].data
              /\ disk'[h.f].data = Stored(h.f, h.chunk)
         /\ h.type = "SYNC" => cli' = cli /\ disk' = disk
         /\ h.type = "CLOSE" =>
              /\ h.f \in cli.open /\ h.f \in Files
              /\ cli'.up /\ cli'.open = cli.open \ {h.f} /\ cli'.closed = cli.closed \cup {h.f}
              /\ disk' = disk
         /\ h.type = "ABORT" => ~cli'.up /\ disk' = disk
         /\ h.type = "COMMIT" =>
              /\ cli.open = {} /\ cli'.up /\ cli'.open = {} /\ cli'.closed = {}
              /\ \A g \in Files : disk'[g].data = disk[g].data
              /\ \A g \in cli.closed : disk'[g].name = "final"
              /\ \A g \in Files \ cli.closed : disk'[g].name = disk[g].name
  <1>0. cli \in Receivers /\ disk \in [Files -> DiskFiles] BY DEF Typed
  <1>2. CASE h.type = "OPEN"
    <2>1. h.f \in Files BY <1>2 DEF Jobs
    <2>2. /\ h.f \notin cli.open \cup cli.closed /\ cli'.up
          /\ cli'.open = cli.open \cup {h.f} /\ cli'.closed = cli.closed
      BY <1>0, <1>2 DEF Apply, Receivers
    <2>3. disk' = [disk EXCEPT ![h.f] = [disk[h.f] EXCEPT !.name = "partial"]]
      BY <1>2 DEF Apply
    <2>4. disk'[h.f].name = "partial" /\ disk'[h.f].data = disk[h.f].data
      BY <1>0, <2>1, <2>3 DEF DiskFiles
    <2>5. \A g \in Files \ {h.f} : disk'[g] = disk[g] BY <1>0, <2>1, <2>3
    <2> QED BY <1>2, <2>1, <2>2, <2>4, <2>5
  <1>3. CASE h.type = "WRITE"
    <2>1. h.f \in Files /\ h.f \in cli.open /\ cli' = cli BY <1>3 DEF Jobs, Apply
    <2> DEFINE s == Stored(h.f, h.chunk)
    <2>3. disk' = [disk EXCEPT ![h.f] = [disk[h.f] EXCEPT !.data = s]]
      BY <1>3 DEF Apply
    <2> HIDE DEF s
    <2>4. disk'[h.f].name = disk[h.f].name /\ disk'[h.f].data = s
      BY <1>0, <2>1, <2>3 DEF DiskFiles
    <2>5. \A g \in Files \ {h.f} : disk'[g] = disk[g] BY <1>0, <2>1, <2>3
    <2> QED BY <1>3, <2>1, <2>4, <2>5 DEF s
  <1>4. CASE h.type = "SYNC"
    BY <1>4 DEF Apply
  <1>5. CASE h.type = "CLOSE"
    BY <1>0, <1>5 DEF Apply, Receivers, Jobs
  <1>6. CASE h.type = "ABORT"
    BY <1>0, <1>6 DEF Apply, Hangs, Receivers
  <1>7. CASE h.type = "COMMIT"
    <2>1. cli.open = {} /\ cli'.up /\ cli'.open = {} /\ cli'.closed = {}
      BY <1>7 DEF Apply, Committable, FreshReceiver
    <2>2. disk' = [f \in Files |-> IF f \in cli.closed THEN [disk[f] EXCEPT !.name = "final"]
                                   ELSE disk[f]]
      BY <1>7 DEF Apply
    <2>3. \A g \in Files : g \in cli.closed => disk'[g].name = "final" /\ disk'[g].data = disk[g].data
      BY <1>0, <2>2 DEF DiskFiles
    <2>4. \A g \in Files : g \notin cli.closed => disk'[g] = disk[g]
      BY <1>0, <2>2
    <2>5. cli.closed \subseteq Files BY <1>0 DEF Receivers
    <2> QED BY <1>7, <2>1, <2>3, <2>4, <2>5
  <1>8. h.type \in {"OPEN", "WRITE", "SYNC", "CLOSE", "ABORT", "COMMIT"} BY DEF Jobs
  <1> QED BY <1>2, <1>3, <1>4, <1>5, <1>6, <1>7, <1>8

LEMMA EnvironmentWire ==
  ASSUME Typed, LinkInv, SenderInv, AcksInv, WireInv, Environment
  PROVE  AcksInv' /\ WireInv'
  <1>0. ctl \in Recordings /\ cli \in Receivers /\ acks \in Seq(BOOLEAN) BY DEF Typed
  <1>u. UNCHANGED <<file, snd>> /\ ctl'.record = ctl.record BY EnvironmentFile
  <1>1. CASE Attach
    <2>1. wire' = <<>> /\ acks' = <<>> BY <1>1 DEF Attach
    <2> QED BY <2>1 DEF AcksInv, WireInv
  <1>2. CASE NetworkFails
    <2>1. UNCHANGED <<ctl, wire, acks, cli>> /\ conn' = "down" BY <1>2 DEF NetworkFails
    <2>2. \A i \in DOMAIN wire : FrameOK(i) => FrameOK(i)'
      BY <1>u, <2>1 DEF FrameOK, Asked, Current, WriteOK
    <2> QED BY <1>u, <2>1, <2>2 DEF AcksInv, WireInv
  <1>3. CASE Detach
    <2>1. UNCHANGED <<wire, acks, cli>> /\ ctl'.failed BY <1>0, <1>3 DEF Detach, Recordings
    <2>2. \A i \in DOMAIN wire : FrameOK(i) => FrameOK(i)'
      BY <1>u, <2>1 DEF FrameOK, Current, WriteOK
    <2> QED BY <1>u, <2>1, <2>2 DEF AcksInv, WireInv
  <1>4. CASE Receive
    <2> DEFINE h == Head(wire)
    <2>1. /\ ctl' = ctl /\ cli.up /\ wire # <<>> /\ wire' = Tail(wire) /\ Apply(h)
          /\ acks' = (IF h.type = "WRITE" \/ conn # "up" THEN acks ELSE Append(acks, TRUE))
          /\ conn' = (IF conn = "up" /\ h.type = "ABORT" THEN "down" ELSE conn)
      BY <1>4 DEF Receive
    <2> HIDE DEF h
    <2>2. h \in Jobs /\ h = wire[1] /\ 1 \in DOMAIN wire BY <2>1, WireTail DEF h
    <2>3. \A i \in DOMAIN wire : FrameOK(i) BY <2>1 DEF WireInv
    <2>4. CASE h.type = "WRITE"
      <3>1. cli' = cli /\ acks' = acks /\ conn' = conn BY <2>1, <2>2, <2>4, ApplyEffect
      <3>2. ASSUME NEW i \in DOMAIN wire' PROVE FrameOK(i)'
        <4>1. i + 1 \in DOMAIN wire /\ wire'[i] = wire[i + 1] /\ i \in Nat
              /\ Len(wire') = Len(wire) - 1 /\ Len(wire) \in Nat
          BY <2>1, <3>2, WireTail
        <4>2. FrameOK(i + 1) BY <2>3, <4>1
        <4>3. Asked' = Asked BY <1>u DEF Asked
        <4>4. Current(wire[i].f)' => Current(wire[i + 1].f) BY <1>u, <4>1 DEF Current
        <4>5. WriteOK(wire[i + 1]) => WriteOK(wire[i])' BY <1>u, <4>1 DEF WriteOK
        <4> QED BY <1>u, <2>1, <3>1, <4>1, <4>2, <4>3, <4>4, <4>5 DEF FrameOK
      <3>3. AcksInv'
        <4>1. ~ctl.failed => acks # <<TRUE>> BY <2>1 DEF AcksInv
        <4> QED BY <1>u, <2>1, <3>1, <4>1 DEF AcksInv
      <3> QED BY <3>2, <3>3 DEF WireInv
    <2>5. CASE h.type # "WRITE"
      <3>1. FrameOK(1) BY <2>2, <2>3
      <3>2. wire' = <<>> BY <2>1, <2>2, <2>5, <3>1, WireTail DEF FrameOK
      <3>3. AcksInv'
        <4>1. SUFFICES ASSUME ~ctl.failed
              PROVE  /\ acks' \in {<<>>, <<TRUE>>, <<FALSE>>}
                     /\ acks' = <<FALSE>> => conn' # "up"
                     /\ acks' = <<TRUE>> => snd'.pc \in Waiting
          BY <2>1, <3>2 DEF AcksInv
        <4>2. snd.pc \in Waiting BY <2>2, <2>5, <3>1, <4>1 DEF FrameOK
        <4>3. acks # <<TRUE>> BY <2>1, <4>1 DEF AcksInv
        <4>4. CASE conn # "up"
          BY <1>u, <2>1, <4>1, <4>2, <4>4 DEF AcksInv
        <4>5. CASE conn = "up"
          <5>1. acks = <<>> BY <4>1, <4>3, <4>5 DEF AcksInv
          <5>2. Append(<<>>, TRUE) = <<TRUE>> OBVIOUS
          <5>3. acks' = <<TRUE>> BY <2>1, <2>5, <4>5, <5>1, <5>2, Zenon
          <5>4. <<TRUE>> # <<FALSE>>
            <6>1. <<TRUE>>[1] = TRUE /\ <<FALSE>>[1] = FALSE OBVIOUS
            <6> QED BY <6>1, Zenon
          <5> QED BY <1>u, <4>2, <5>3, <5>4
        <4> QED BY <4>4, <4>5
      <3> QED BY <3>2, <3>3 DEF WireInv
    <2> QED BY <2>4, <2>5
  <1>5. CASE ReceiveFails
    <2>1. /\ ctl' = ctl /\ cli.up /\ wire # <<>> /\ ~cli'.up
          /\ acks' = (IF conn = "up" THEN Append(acks, FALSE) ELSE acks)
          /\ conn' = (IF conn = "up" THEN "down" ELSE conn)
      BY <1>0, <1>5 DEF ReceiveFails, Hangs, Receivers
    <2>2. AcksInv'
      <3>1. SUFFICES ASSUME ~ctl.failed
            PROVE  /\ acks' \in {<<>>, <<FALSE>>} /\ conn' # "up"
                   /\ acks' # <<TRUE>>
        BY <2>1 DEF AcksInv
      <3>2. acks # <<TRUE>> BY <2>1, <3>1 DEF AcksInv
      <3>3. <<TRUE>> # <<FALSE>> /\ <<>> # <<TRUE>>
        <4>1. <<TRUE>>[1] = TRUE /\ <<FALSE>>[1] = FALSE OBVIOUS
        <4>2. <<TRUE>> # <<FALSE>> BY <4>1, Zenon
        <4>3. <<>> # <<TRUE>> OBVIOUS
        <4> QED BY <4>2, <4>3
      <3>4. CASE conn # "up"
        BY <2>1, <3>1, <3>2, <3>4 DEF AcksInv
      <3>5. CASE conn = "up"
        <4>1. acks = <<>> BY <3>1, <3>2, <3>5 DEF AcksInv
        <4>2. Append(<<>>, FALSE) = <<FALSE>> OBVIOUS
        <4>3. acks' = <<FALSE>> BY <2>1, <3>5, <4>1, <4>2, Zenon
        <4> QED BY <2>1, <3>3, <3>5, <4>3
      <3> QED BY <3>4, <3>5
    <2> QED BY <2>1, <2>2 DEF WireInv
  <1>6. CASE ReceiverEnds
    <2>1. /\ ctl' = ctl /\ ~cli'.up /\ acks' = acks /\ wire' = <<>>
          /\ conn' = (IF conn = "up" THEN "down" ELSE conn)
      BY <1>0, <1>6 DEF ReceiverEnds, Hangs, Receivers
    <2> QED BY <1>u, <2>1 DEF AcksInv, WireInv
  <1> QED BY <1>1, <1>2, <1>3, <1>4, <1>5, <1>6 DEF Environment
-----------------------------------------------------------------------------
(* What is on the disk.                                                    *)

(* A file that is not being written to keeps its length, and asks for      *)
(* nothing but an OPEN, a CLOSE or an ABORT.                               *)
LEMMA NotWritten ==
  ASSUME Typed, NEW f \in Files, ProxyStep(f), file[f].pc \notin {"writing", "header"}
  PROVE  /\ file'[f].n = file[f].n /\ file'[f].pc # "header"
         /\ file'[f].pc = "opening" => file'[f].res = "wait"
         /\ file'[f].pc = "writing" => ~Current(f)
         /\ queue' = queue \/ \E j \in Jobs : queue' = Append(queue, j) /\ j.type # "WRITE"
  <1>j. \A type \in {"OPEN", "CLOSE", "ABORT"} :
          Job(type, f, <<>>) \in Jobs /\ Job(type, f, <<>>).type # "WRITE"
    BY JobTyped DEF Job
  <1>1. CASE OpenFile(f)
    <2>1. Asking(f, "OPEN", "opening", "refused") BY <1>1, OpenFileStep
    <2> QED BY <1>j, <2>1 DEF Asking, Moved
  <1>2. CASE Opened(f)
    <2>1. Moved(f, IF file[f].res = "ok" THEN "writing" ELSE "refused") /\ queue' = queue
      BY <1>2, OpenedStep
    <2> QED BY <1>2, <2>1 DEF Opened, Moved, Current
  <1>7. CASE CloseAnswered(f)
    <2>1. Moved(f, IF file[f].res = "ok" THEN "done" ELSE "abort") /\ queue' = queue
      BY <1>7, CloseAnsweredStep
    <2> QED BY <2>1 DEF Moved
  <1>8. CASE AbortFile(f)
    <2>1. Asking(f, "ABORT", "aborting", "done") BY <1>8, AbortFileStep
    <2> QED BY <1>j, <2>1 DEF Asking, Moved
  <1>9. CASE Aborted(f)
    <2>1. Moved(f, "done") /\ queue' = queue BY <1>9, AbortedStep
    <2> QED BY <2>1 DEF Moved
  <1> QED BY <1>1, <1>2, <1>7, <1>8, <1>9 DEF ProxyStep, Put, Flush, Rewrite, CloseFile

LEMMA NoWritesAppend ==
  ASSUME NEW s \in Seq(Jobs), NEW j \in Jobs, NEW f, NoWrites(s, f), ~IsWrite(j, f)
  PROVE  NoWrites(Append(s, j), f)
  BY DEF NoWrites

LEMMA NoWritesTail ==
  ASSUME NEW s \in Seq(Jobs), s # <<>>, NEW f, NoWrites(s, f)
  PROVE  NoWrites(Tail(s), f) /\ ~IsWrite(Head(s), f)
  BY DEF NoWrites

LEMMA InitDisk == Init => DiskInv
  BY DEF Init, DiskInv, FreshReceiver

LEMMA ProxyDisk ==
  ASSUME Typed, LinkInv, ProxyInv, JobsInv, WireInv, DiskInv, NEW g \in Files, ProxyStep(g)
  PROVE  DiskInv'
  <1>1. /\ Aside(g) /\ Forward(g)
        /\ queue' = queue \/ \E j \in Jobs : j.f = g /\ NewJob(j)
    BY ProxyForward
  <1>2. UNCHANGED <<ctl, snd, wire, acks, cli, disk>> BY <1>1 DEF Aside
  <1>t. queue \in Seq(Jobs) /\ disk \in [Files -> DiskFiles] BY DEF Typed
  <1>n. file'[g].n \in Nat /\ file[g].n \in Nat
    <2>1. Typed' BY ProxyTyped
    <2> QED BY <2>1 DEF Typed, Proxies
  <1> SUFFICES ASSUME cli.up, NEW f \in Files PROVE Opens(f)' /\ Closes(f)'
    BY <1>2 DEF DiskInv
  <1>i. Opens(f) /\ Closes(f) BY DEF DiskInv
  <1>3. CASE f # g
    <2>1. file'[f] = file[f] BY <1>1, <1>3 DEF Aside
    <2>2. NoWrites(queue, f) => NoWrites(queue, f)'
      <3>1. SUFFICES ASSUME NoWrites(queue, f) PROVE NoWrites(queue', f) BY DEF NoWrites
      <3>2. CASE queue' = queue
        BY <3>1, <3>2
      <3>3. ASSUME NEW j \in Jobs, j.f = g, queue' = Append(queue, j) PROVE NoWrites(queue', f)
        BY <1>3, <1>t, <3>1, <3>3, NoWritesAppend DEF IsWrite
      <3> QED BY <1>1, <3>2, <3>3 DEF NewJob
    <2>3. Opens(f)' BY <1>2, <1>i, <2>1 DEF Opens, OpenAnswered, Current, NoWrites, IsWrite
    <2>4. Closes(f)' BY <1>2, <1>i, <2>1, <2>2 DEF Closes, Closing, Whole, Current, NoWrites, IsWrite
    <2> QED BY <2>3, <2>4
  <1>4. CASE f = g
    <2>1. ~Current(f) /\ Current(f)' => OpenAnswered(f) BY <1>4, NewlyCurrent
    <2>2. Current(f) => Current(f)' /\ file[f].n <= file'[f].n BY <1>1, <1>4 DEF Forward
    <2>3. OpenAnswered(f)' => OpenAnswered(f)
      <3>1. file'[f].pc = "opening" => file'[f].res = "wait" \/ Current(f)
        BY <1>4, NotWritten DEF Current
      <3> QED BY <1>2, <2>2, <3>1 DEF OpenAnswered, Current
    <2>4. Opens(f)'
      <3>1. OpenAnswered(f) => f \in cli.open /\ disk[f].data = <<>> /\ NoWrites(wire, f)
        BY <1>i DEF Opens
      <3>2. disk[f].data \in Seq({0, 1, 2}) BY <1>t DEF DiskFiles
      <3>3. ctl.record /\ f \notin cli.open \cup cli.closed /\ ~Current(f)' => disk[f].data = <<>>
        BY <1>i, <2>2 DEF Opens
      <3>4. ctl.record /\ Current(f)' => f \in cli.open \cup cli.closed \/ disk[f].name = "final"
        BY <1>i, <2>1, <3>1 DEF Opens
      <3>5. ctl.record /\ Current(f)' => Len(disk[f].data) <= file'[f].n
        <4>1. CASE Current(f)
          <5>1. ctl.record => Len(disk[f].data) <= file[f].n BY <1>i, <4>1 DEF Opens
          <5>2. Len(disk[f].data) \in Nat BY <3>2
          <5> QED BY <1>4, <1>n, <2>2, <4>1, <5>1, <5>2
        <4>2. CASE ~Current(f)
          BY <1>4, <1>n, <2>1, <3>1, <4>2
        <4> QED BY <4>1, <4>2
      <3> QED BY <1>2, <2>3, <3>1, <3>3, <3>4, <3>5 DEF Opens, NoWrites, IsWrite
    <2>5. Closes(f)'
      <3>1. ASSUME Closing(f)
            PROVE  /\ Whole(f)' = Whole(f) /\ file'[f].pc \notin {"writing", "header"}
                   /\ NoWrites(queue', f)
        <4>1. file[f].pc \notin {"writing", "header"} /\ NoWrites(queue, f)
          BY <1>i, <3>1 DEF Closes
        <4>2. /\ file'[f].n = file[f].n /\ file'[f].pc # "header"
              /\ file'[f].pc = "writing" => ~Current(f)
              /\ queue' = queue \/ \E j \in Jobs : queue' = Append(queue, j) /\ j.type # "WRITE"
          BY <1>4, <4>1, NotWritten
        <4>3. file'[f].pc # "writing"
          <5>1. SUFFICES ASSUME file'[f].pc = "writing" PROVE FALSE OBVIOUS
          <5>2. ~Current(f) /\ Current(f)' BY <4>2, <5>1 DEF Current
          <5>3. f \in cli.open BY <1>i, <2>1, <5>2 DEF Opens
          <5>4. f \notin cli.closed BY <5>3 DEF LinkInv
          <5> QED BY <1>i, <3>1, <5>2, <5>4 DEF Closes, Closing
        <4>4. NoWrites(queue', f)
          <5>1. CASE queue' = queue
            BY <4>1, <5>1
          <5>2. ASSUME NEW j \in Jobs, queue' = Append(queue, j), j.type # "WRITE"
                PROVE  NoWrites(queue', f)
            BY <1>t, <4>1, <5>2, NoWritesAppend DEF IsWrite
          <5> QED BY <4>2, <5>1, <5>2
        <4> QED BY <4>2, <4>3, <4>4 DEF Whole
      <3>2. Closing(f)' => Closing(f) BY <1>2 DEF Closing
      <3>3. Closing(f)' => NoWrites(queue, f)' BY <3>1, <3>2 DEF NoWrites
      <3> QED BY <1>2, <1>i, <2>2, <3>1, <3>2, <3>3 DEF Closes, NoWrites, IsWrite
    <2> QED BY <2>4, <2>5
  <1> QED BY <1>3, <1>4

-----------------------------------------------------------------------------
(* The steps of the sender, field by field.                                *)

LEMMA TakeJobStep ==
  ASSUME Typed, SenderInv, TakeJob
  PROVE  /\ snd.pc = "idle" /\ queue # <<>> /\ queue' = Tail(queue) /\ Head(queue) \in Jobs
         /\ snd'.job = Head(queue) /\ snd'.ok /\ snd'.out = snd.out
         /\ Head(queue).type = "WRITE" => snd'.pc = "stream"
         /\ Head(queue).type # "WRITE" => snd'.pc \in {"sync", "control"}
         /\ UNCHANGED <<ctl, file, conn, wire, acks, cli, disk>>
  <1> DEFINE s == [snd EXCEPT !.job = Head(queue), !.ok = TRUE]
  <1>1. Head(queue) \in Jobs BY DEF TakeJob, Typed
  <1>2. s \in Senders /\ s.job = Head(queue) /\ s.ok /\ s.out = snd.out BY <1>1 DEF Senders, Typed
  <1>3. snd' = IF s.job.type = "WRITE" THEN [s EXCEPT !.pc = "stream"] ELSE Plan(s)
    BY DEF TakeJob
  <1> HIDE DEF s
  <1>4. CASE s.job.type = "WRITE"
    BY <1>1, <1>2, <1>3, <1>4 DEF Senders, TakeJob, link
  <1>5. CASE s.job.type # "WRITE"
    <2>1. snd' = Plan(s) BY <1>3, <1>5
    <2>2. snd'.pc \in {"sync", "control"} /\ snd'.job = s.job /\ snd'.ok = s.ok /\ snd'.out = s.out
      BY <1>2, <1>5, <2>1 DEF Plan, Senders
    <2> QED BY <1>1, <1>2, <1>5, <2>2 DEF TakeJob, link
  <1> QED BY <1>4, <1>5

LEMMA StreamStep ==
  ASSUME Typed, SenderInv, JobsInv, StreamChunk
  PROVE  /\ snd.pc = "stream" /\ Usable
         /\ snd.job \in Jobs /\ snd.job.type = "WRITE" /\ snd.job.f \in Files /\ JobOK(snd.job)
         /\ snd'.pc \in {"sync", "finish"} /\ snd'.job = snd.job /\ snd'.out = snd.out + 1
         /\ wire' = IF conn = "up" THEN Append(wire, snd.job) ELSE wire
         /\ UNCHANGED <<ctl, file, queue, conn, acks, cli, disk>>
  <1>1. snd.pc = "stream" /\ Usable BY DEF StreamChunk
  <1>2. snd.job \in Jobs /\ snd.job.type = "WRITE" /\ JobOK(snd.job) /\ snd.job.f \in Files /\ snd.ok
    BY <1>1 DEF SenderInv, JobsInv, Held, Typed, Senders, Jobs
  <1> DEFINE s == [snd EXCEPT !.out = @ + 1]
  <1>3. s \in Senders /\ s.out = snd.out + 1 /\ s.job = snd.job /\ s.ok
    <2>1. snd \in Senders /\ snd.out + 1 \in Nat BY DEF Typed, Senders
    <2> QED BY <1>2, <2>1 DEF Senders
  <1>4. snd' = Plan(s) BY DEF StreamChunk
  <1> HIDE DEF s
  <1>5. snd'.pc \in {"sync", "finish"} /\ snd'.job = s.job /\ snd'.out = s.out
    BY <1>2, <1>3, <1>4 DEF Plan, Senders
  <1> QED BY <1>1, <1>2, <1>3, <1>5 DEF StreamChunk, Transmit

LEMMA RequestStep ==
  ASSUME Typed, SenderInv, Request
  PROVE  /\ Usable /\ snd'.job = snd.job /\ snd'.out = snd.out /\ snd'.ok = snd.ok
         /\ \/ snd.pc = "sync" /\ snd'.pc = "syncing"
            \/ snd.pc = "control" /\ snd'.pc = "asking"
         /\ \E j \in Jobs : /\ j.type # "WRITE"
                            /\ snd.pc = "sync" => j.type = "SYNC"
                            /\ snd.pc = "control" => j = snd.job
                            /\ wire' = IF conn = "up" THEN Append(wire, j) ELSE wire
         /\ UNCHANGED <<ctl, file, queue, conn, acks, cli, disk>>
  <1>1. snd.pc \in {"sync", "control"} BY DEF Request
  <1>2. snd.job \in Jobs /\ (snd.pc = "control" => snd.job.type # "WRITE")
    BY <1>1 DEF SenderInv, Typed, Senders
  <1>3. snd.job.f \in Files \cup {"recording"} BY <1>2 DEF Jobs
  <1>4. PICK j \in Jobs : j = IF snd.pc = "sync" THEN Job("SYNC", snd.job.f, <<>>) ELSE snd.job
    BY <1>2, <1>3, JobTyped
  <1>5. wire' = IF conn = "up" THEN Append(wire, j) ELSE wire BY <1>4 DEF Request, Transmit
  <1>6. j.type # "WRITE" /\ (snd.pc = "sync" => j.type = "SYNC") BY <1>1, <1>2, <1>4 DEF Job
  <1>7. /\ snd'.job = snd.job /\ snd'.out = snd.out /\ snd'.ok = snd.ok
        /\ snd'.pc = (IF snd.pc = "sync" THEN "syncing" ELSE "asking")
    BY DEF Request, Typed, Senders
  <1> QED BY <1>1, <1>4, <1>5, <1>6, <1>7 DEF Request

(* A sending that fails finds the link failed, or marks it so.             *)
LEMMA FailStep ==
  ASSUME Typed, LinkInv, SenderInv, SendFails \/ NotAcknowledged
  PROVE  /\ snd'.pc = "finish" /\ ~snd'.ok /\ snd'.job = snd.job
         /\ ctl'.failed /\ ctl'.record = ctl.record /\ ctl'.phase = ctl.phase
         /\ ctl'.commit = ctl.commit /\ ctl'.complete = ctl.complete /\ ctl'.res = ctl.res
         /\ UNCHANGED <<file, queue, conn, wire, acks, cli, disk>>
  <1>0. ctl \in Recordings BY DEF Typed
  <1>1. snd'.pc = "finish" /\ ~snd'.ok /\ snd'.job = snd.job
    BY DEF SendFails, NotAcknowledged, Typed, Senders
  <1>2. MarkFailed \/ (SendFails /\ ~Usable /\ ctl' = ctl) BY DEF SendFails, NotAcknowledged
  <1>3. CASE MarkFailed
    BY <1>0, <1>1, <1>3 DEF MarkFailed, Recordings, SendFails, NotAcknowledged, link
  <1>4. CASE SendFails /\ ~Usable /\ ctl' = ctl
    <2>1. ctl.phase # "idle" BY <1>4 DEF SendFails, SenderInv
    <2>2. ctl.failed BY <1>4, <2>1 DEF Usable, LinkInv
    <2> QED BY <1>1, <1>4, <2>2 DEF SendFails, link
  <1> QED BY <1>2, <1>3, <1>4

LEMMA AckStep ==
  ASSUME Typed, SenderInv, AcksInv, Acknowledged
  PROVE  /\ snd.pc \in Waiting /\ acks = <<TRUE>> /\ acks' = <<>>
         /\ snd'.job = snd.job /\ snd'.ok /\ snd.ok
         /\ snd.pc = "asking" => snd'.pc = "finish" /\ snd'.out = snd.out
         /\ snd.pc = "syncing" => snd'.out = 0
         /\ snd.pc = "syncing" /\ snd.job.type = "WRITE" => snd'.pc = "finish"
         /\ snd.pc = "syncing" /\ snd.job.type # "WRITE" => snd'.pc = "control"
         /\ UNCHANGED <<ctl, file, queue, conn, wire, cli, disk>>
  <1>1. snd.pc \in Waiting /\ acks # <<>> /\ Head(acks) /\ acks' = Tail(acks)
    BY DEF Acknowledged, Accepts, Waiting
  <1>2. ~ctl.failed /\ snd.ok BY <1>1 DEF SenderInv, Waiting
  <1>3. acks = <<TRUE>>
    <2>1. acks = <<TRUE>> \/ acks = <<FALSE>> BY <1>1, <1>2 DEF AcksInv
    <2>2. Head(<<FALSE>>) = FALSE BY HeadTailOne
    <2> QED BY <1>1, <2>1, <2>2, Zenon
  <1>4. acks' = <<>>
    <2>1. Tail(<<TRUE>>) = <<>> BY HeadTailOne
    <2> QED BY <1>1, <1>3, <2>1, Zenon
  <1>5. CASE snd.pc = "asking"
    <2>1. snd' = [snd EXCEPT !.pc = "finish"] BY <1>5 DEF Acknowledged
    <2>2. snd'.pc = "finish" /\ snd'.job = snd.job /\ snd'.ok = snd.ok /\ snd'.out = snd.out
      BY <2>1 DEF Typed, Senders
    <2> QED BY <1>1, <1>2, <1>3, <1>4, <1>5, <2>2 DEF Acknowledged
  <1>6. CASE snd.pc = "syncing"
    <2> DEFINE s == [snd EXCEPT !.out = 0]
    <2>1. s \in Senders /\ s.job = snd.job /\ s.out = 0 /\ s.ok = snd.ok BY DEF Typed, Senders
    <2>2. snd' = Plan(s) BY <1>6 DEF Acknowledged
    <2> HIDE DEF s
    <2>3. ~Barrier(s.out, s.job) BY <2>1, LocalSaveAssumption DEF Barrier
    <2>4. /\ snd'.pc = (IF s.job.type # "WRITE" THEN "control" ELSE "finish")
          /\ snd'.job = s.job /\ snd'.ok = s.ok /\ snd'.out = s.out
      BY <1>2, <2>1, <2>2, <2>3 DEF Plan, Senders
    <2> QED BY <1>1, <1>2, <1>3, <1>4, <1>6, <2>1, <2>4 DEF Acknowledged
  <1> QED BY <1>1, <1>5, <1>6 DEF Waiting

LEMMA FinishStep ==
  ASSUME Typed, FinishJob
  PROVE  /\ snd.pc = "finish" /\ snd'.pc = "idle" /\ snd'.job = <<>> /\ snd'.out = snd.out
         /\ UNCHANGED <<queue, conn, wire, acks, cli, disk>>
         /\ ctl'.failed = ctl.failed /\ ctl'.record = ctl.record /\ ctl'.phase = ctl.phase
         /\ ctl'.commit = ctl.commit /\ ctl'.complete = ctl.complete
         /\ \/ ctl' = ctl
            \/ /\ snd.job.type # "WRITE" /\ snd.job.f \notin Files
               /\ ctl'.res = IF snd.ok THEN "ok" ELSE "fail"
         /\ \A f \in Files : \/ file'[f].res = file[f].res
                             \/ /\ snd.job.type # "WRITE" /\ snd.job.f = f
                                /\ file'[f].res = IF snd.ok THEN "ok" ELSE "fail"
  <1>0. ctl \in Recordings /\ file \in [Files -> Proxies] BY DEF Typed
  <1>1. snd.pc = "finish" /\ snd'.pc = "idle" /\ snd'.job = <<>> /\ snd'.out = snd.out
    BY DEF FinishJob, Typed, Senders
  <1>2. UNCHANGED <<queue, conn, wire, acks, cli, disk>> BY DEF FinishJob, link
  <1>r. PICK res : res = IF snd.ok THEN "ok" ELSE "fail" OBVIOUS
  <1>3. \/ UNCHANGED <<file, ctl>>
        \/ /\ snd.job.type # "WRITE" /\ snd.job.f \in Files
           /\ file' = [file EXCEPT ![snd.job.f].res = res] /\ UNCHANGED ctl
        \/ /\ snd.job.type # "WRITE" /\ snd.job.f \notin Files
           /\ ctl' = [ctl EXCEPT !.res = res] /\ UNCHANGED file
    BY <1>r DEF FinishJob
  <1>4. CASE UNCHANGED <<file, ctl>>
    BY <1>1, <1>2, <1>4
  <1>5. CASE /\ snd.job.type # "WRITE" /\ snd.job.f \in Files
             /\ file' = [file EXCEPT ![snd.job.f].res = res] /\ UNCHANGED ctl
    <2>1. ASSUME NEW f \in Files
          PROVE  file'[f].res = file[f].res \/ (snd.job.f = f /\ file'[f].res = res)
      <3>1. CASE f = snd.job.f
        <4>1. file'[f] = [file[f] EXCEPT !.res = res] /\ file[f] \in Proxies BY <1>0, <1>5, <3>1
        <4> QED BY <4>1, <3>1 DEF Proxies
      <3>2. CASE f # snd.job.f
        BY <1>0, <1>5, <3>2
      <3> QED BY <3>1, <3>2
    <2> QED BY <1>1, <1>2, <1>5, <1>r, <2>1
  <1>6. CASE /\ snd.job.type # "WRITE" /\ snd.job.f \notin Files
             /\ ctl' = [ctl EXCEPT !.res = res] /\ UNCHANGED file
    <2>1. /\ ctl'.failed = ctl.failed /\ ctl'.record = ctl.record /\ ctl'.phase = ctl.phase
          /\ ctl'.commit = ctl.commit /\ ctl'.complete = ctl.complete /\ ctl'.res = res
      BY <1>0, <1>6 DEF Recordings
    <2> QED BY <1>1, <1>2, <1>6, <1>r, <2>1
  <1> QED BY <1>3, <1>4, <1>5, <1>6

(* An OPEN is reported done by its answer alone.                           *)
LEMMA SenderAnswers ==
  ASSUME Typed, LinkInv, SenderInv, JobsInv, AcksInv, Sender, NEW f \in Files, OpenAnswered(f)'
  PROVE  OpenAnswered(f)
  <1>f. file'[f].pc = file[f].pc BY SenderFile
  <1>r. "recording" \notin Files BY LocalSaveAssumption
  <1>1. CASE TakeJob
    BY <1>1, TakeJobStep DEF OpenAnswered
  <1>2. CASE SenderExits
    BY <1>2 DEF SenderExits, Idle, OpenAnswered
  <1>3. CASE StreamChunk
    BY <1>3, StreamStep DEF OpenAnswered
  <1>4. CASE Request
    <2>1. ~ctl.failed /\ snd.pc \notin Waiting BY <1>4, RequestStep DEF Usable, Waiting
    <2>2. acks' # <<TRUE>> BY <1>4, <2>1, RequestStep DEF AcksInv
    <2> QED BY <1>4, <2>2, RequestStep DEF OpenAnswered
  <1>5. CASE SendFails \/ NotAcknowledged
    BY <1>5, FailStep DEF OpenAnswered
  <1>6. CASE Acknowledged
    <2>1. snd'.pc # "asking" BY <1>6, AckStep DEF Waiting
    <2>2. snd'.pc = "finish" /\ snd'.job.type = "OPEN" => snd.pc = "asking"
      BY <1>6, AckStep DEF Waiting
    <2> QED BY <1>6, <2>1, <2>2, AckStep DEF OpenAnswered
  <1>7. CASE FinishJob
    <2>1. snd.pc = "finish" /\ snd'.pc = "idle" BY <1>7, FinishStep
    <2>2. file[f].pc = "opening" /\ file'[f].res = "ok" BY <1>f, <2>1 DEF OpenAnswered
    <2>3. CASE file'[f].res = file[f].res
      BY <2>2, <2>3 DEF OpenAnswered
    <2>4. CASE /\ snd.job.type # "WRITE" /\ snd.job.f = f
               /\ file'[f].res = IF snd.ok THEN "ok" ELSE "fail"
      <3>1. snd.job \in Jobs /\ JobOK(snd.job) BY <2>1 DEF Typed, Senders, SenderInv, JobsInv, Held
      <3>2. snd.job.type = "OPEN" BY <1>r, <2>2, <2>4, <3>1 DEF Jobs, JobOK, Asks
      <3> QED BY <2>1, <2>2, <2>4, <3>2 DEF OpenAnswered
    <2> QED BY <1>7, <2>3, <2>4, FinishStep
  <1> QED BY <1>1, <1>2, <1>3, <1>4, <1>5, <1>6, <1>7 DEF Sender

(* When a CLOSE goes out, a SYNC has emptied the wire and nothing was lost. *)
LEMMA CloseIsWhole ==
  ASSUME Typed, LinkInv, SenderInv, ProxyInv, JobsInv, AcksInv, WireInv, DiskInv, NothingLost,
         Usable, conn = "up", snd.pc = "control",
         NEW f \in Files, snd.job.type = "CLOSE", snd.job.f = f
  PROVE  /\ disk[f].data = Whole(f) /\ file[f].pc = "closing"
         /\ NoWrites(wire, f) /\ queue = <<>>
  <1>0. /\ wire \in Seq(Jobs) /\ disk[f].data \in Seq({0, 1, 2}) /\ file[f].n \in Nat
        /\ queue \in Seq(Jobs)
    BY DEF Typed, DiskFiles, Proxies
  <1>1. cli.up /\ ctl.record /\ ~ctl.failed /\ snd.out = 0 /\ snd.pc \notin Waiting /\ Live
    BY DEF LinkInv, Usable, SenderInv, Waiting, Live
  <1>2. Held /\ JobOK(snd.job) /\ queue = <<>> BY DEF SenderInv, JobsInv, Held
  <1>3. file[f].pc = "closing" /\ ~file[f].bad /\ file[f].cache = <<>>
    BY <1>2 DEF JobOK, Asks, ProxyInv, Cached
  <1>4. NoWrites(wire, f)
    <2>1. ASSUME NEW i \in DOMAIN wire, IsWrite(wire[i], f) PROVE FALSE
      <3>1. FrameOK(i) BY <1>1, <2>1 DEF WireInv
      <3>2. Current(wire[i].f) BY <1>3, <2>1 DEF IsWrite, Current
      <3> QED BY <1>1, <2>1, <3>1, <3>2 DEF FrameOK, IsWrite
    <2> QED BY <2>1 DEF NoWrites
  <1>5. ASSUME NEW p \in 1 .. file[f].n
        PROVE  p \in DOMAIN disk[f].data /\ disk[f].data[p] = IF p = 1 THEN 2 ELSE 1
    <2>1. Arrives(f, p, Version(f, p)) BY <1>1, <1>3 DEF NothingLost
    <2>2. PICK v : v = Version(f, p) OBVIOUS
    <2>3. Arrives(f, p, v) BY <2>1, <2>2
    <2>4. file[f].cache # <<p - 1, v>> BY <1>3
    <2>5. ~LastIn(queue, f, p, v) BY <1>2 DEF LastIn
    <2>6. ~LastIn(wire, f, p, v) BY <1>4 DEF LastIn, Streams, NoWrites
    <2>7. p \in DOMAIN disk[f].data /\ disk[f].data[p] = v
      BY <2>3, <2>4, <2>5, <2>6 DEF Arrives, Left, Landed
    <2> QED BY <1>3, <2>2, <2>7 DEF Version
  <1>6. Len(disk[f].data) <= file[f].n
    BY <1>1, <1>3 DEF DiskInv, Opens, Current
  <1>7. Len(disk[f].data) = file[f].n
    <2>1. Len(disk[f].data) \in Nat /\ DOMAIN disk[f].data = 1 .. Len(disk[f].data) BY <1>0
    <2>2. file[f].n > 0 => file[f].n \in 1 .. Len(disk[f].data) BY <1>0, <1>5, <2>1
    <2> QED BY <1>0, <1>6, <2>1, <2>2
  <1>8. disk[f].data = Whole(f)
    <2> DEFINE d == disk[f].data
               n == file[f].n
    <2>1. d = [p \in 1 .. Len(d) |-> d[p]] BY <1>0
    <2>2. [p \in 1 .. n |-> d[p]] = [p \in 1 .. n |-> IF p = 1 THEN 2 ELSE 1] BY <1>5
    <2> QED BY <1>7, <2>1, <2>2 DEF Whole
  <1> QED BY <1>2, <1>3, <1>4, <1>8

(* The frame the sender puts on the wire, if any.                          *)
LEMMA SenderFrame ==
  ASSUME Typed, LinkInv, SenderInv, JobsInv, AcksInv, Sender
  PROVE  \/ wire' = wire
         \/ \E j \in Jobs :
              /\ wire' = Append(wire, j) /\ conn = "up" /\ Usable
              /\ UNCHANGED <<ctl, file, queue, conn, acks, cli, disk>>
              /\ snd'.job = snd.job
              /\ \/ StreamChunk /\ snd.pc = "stream" /\ j = snd.job /\ j.type = "WRITE"
                 \/ Request /\ snd.pc = "sync" /\ j.type = "SYNC"
                 \/ Request /\ snd.pc = "control" /\ j = snd.job /\ j.type # "WRITE"
  <1>1. CASE StreamChunk
    BY <1>1, StreamStep
  <1>2. CASE Request
    BY <1>2, RequestStep
  <1>3. CASE SendFails \/ NotAcknowledged
    BY <1>3, FailStep
  <1> QED BY <1>1, <1>2, <1>3 DEF Sender, TakeJob, SenderExits, Acknowledged, FinishJob, link

LEMMA SenderDisk ==
  ASSUME Typed, LinkInv, SenderInv, ProxyInv, JobsInv, AcksInv, WireInv, DiskInv, NothingLost, Sender
  PROVE  DiskInv'
  <1>u. UNCHANGED <<conn, cli, disk>> /\ ctl'.record = ctl.record
    <2>1. ctl \in Recordings BY DEF Typed
    <2> QED BY <2>1, SenderCtl DEF MarkFailed, Reports, Recordings, Sender, TakeJob, SenderExits,
            StreamChunk, Request, SendFails, Acknowledged, NotAcknowledged, FinishJob, link
  <1>t. wire \in Seq(Jobs) /\ queue \in Seq(Jobs) BY DEF Typed
  <1> SUFFICES ASSUME cli.up, NEW f \in Files PROVE Opens(f)' /\ Closes(f)'
    BY <1>u DEF DiskInv
  <1>i. Opens(f) /\ Closes(f) BY DEF DiskInv
  <1>f. file'[f].pc = file[f].pc /\ file'[f].n = file[f].n /\ (Current(f)' <=> Current(f))
        /\ Whole(f)' = Whole(f)
    BY SenderFile DEF Current, Whole
  <1>j. ASSUME snd.pc = "stream" PROVE Current(snd.job.f) /\ JobOK(snd.job) /\ snd.job.type = "WRITE"
    BY <1>j DEF SenderInv, JobsInv, Held, JobOK
  <1>1. OpenAnswered(f)' => NoWrites(wire', f)
    <2>1. SUFFICES ASSUME OpenAnswered(f)' PROVE NoWrites(wire', f) OBVIOUS
    <2>2. OpenAnswered(f) BY <2>1, SenderAnswers
    <2>3. NoWrites(wire, f) BY <1>i, <2>2 DEF Opens
    <2>4. CASE wire' = wire
      BY <2>3, <2>4
    <2>5. ASSUME NEW j \in Jobs, wire' = Append(wire, j), ~IsWrite(j, f) PROVE NoWrites(wire', f)
      BY <1>t, <2>3, <2>5, NoWritesAppend
    <2>6. ASSUME snd.pc = "stream" PROVE snd.job.f # f
      <3>1. snd.pc # "asking" /\ snd.pc # "finish" BY <2>6
      <3>2. file[f].pc = "opening" BY <2>2, <3>1 DEF OpenAnswered
      <3> QED BY <1>j, <2>6, <3>2 DEF Current
    <2> QED BY <2>4, <2>5, <2>6, SenderFrame DEF IsWrite
  <1>2. Opens(f)'
    <2>1. OpenAnswered(f)' => NoWrites(wire, f)' BY <1>1 DEF NoWrites
    <2> QED BY <1>i, <1>u, <1>f, <2>1, SenderAnswers DEF Opens
  <1>3. ASSUME Closing(f), wire' = wire
        PROVE  /\ NoWrites(queue', f)
               /\ ~(snd'.pc = "stream" /\ IsWrite(snd'.job, f))
    <2>1. NoWrites(queue, f) /\ ~(snd.pc = "stream" /\ IsWrite(snd.job, f))
      BY <1>i, <1>3 DEF Closes
    <2>2. CASE TakeJob
      BY <1>t, <2>1, <2>2, TakeJobStep, NoWritesTail
    <2>3. CASE SenderExits
      BY <2>1, <2>3 DEF SenderExits, Idle
    <2>4. CASE Busy
      BY <2>1, <2>4, BusyKeepsJob
    <2>5. CASE FinishJob
      BY <2>1, <2>5, FinishStep
    <2> QED BY <2>2, <2>3, <2>4, <2>5 DEF Sender, Busy
  <1>4. CASE wire' = wire
    <2>1. Closing(f)' <=> Closing(f) BY <1>u, <1>4 DEF Closing
    <2>2. Closing(f)' => NoWrites(queue, f)' BY <1>3, <1>4, <2>1 DEF NoWrites
    <2> QED BY <1>2, <1>3, <1>4, <1>i, <1>u, <1>f, <2>1, <2>2 DEF Closes, NoWrites
  <1>5. ASSUME NEW j \in Jobs, wire' = Append(wire, j), conn = "up", Usable,
               UNCHANGED <<ctl, file, queue, conn, acks, cli, disk>>, snd'.job = snd.job,
               \/ StreamChunk /\ snd.pc = "stream" /\ j = snd.job /\ j.type = "WRITE"
               \/ Request /\ snd.pc = "sync" /\ j.type = "SYNC"
               \/ Request /\ snd.pc = "control" /\ j = snd.job /\ j.type # "WRITE"
        PROVE  Closes(f)'
    <2>1. /\ DOMAIN wire' = 1 .. Len(wire) + 1 /\ wire'[Len(wire) + 1] = j
          /\ \A i \in DOMAIN wire : wire'[i] = wire[i] /\ i \in DOMAIN wire'
          /\ \A i \in DOMAIN wire' : i = Len(wire) + 1 \/ i \in DOMAIN wire
      BY <1>t, <1>5
    <2>2. snd'.pc # "stream"
      BY <1>5, BusyKeepsJob DEF Busy
    <2>3. CASE j.type = "CLOSE" /\ j.f = f
      <3>1. /\ disk[f].data = Whole(f) /\ file[f].pc = "closing"
            /\ NoWrites(wire, f) /\ queue = <<>>
        BY <1>5, <2>3, CloseIsWhole
      <3>2. NoWrites(wire', f) BY <1>t, <1>5, <2>3, <3>1, NoWritesAppend DEF IsWrite
      <3>3. NoWrites(wire, f)' /\ NoWrites(queue, f)' BY <1>5, <3>1, <3>2 DEF NoWrites
      <3>4. Current(f)' BY <1>f, <3>1 DEF Current
      <3> QED BY <1>f, <1>u, <2>2, <3>1, <3>3, <3>4 DEF Closes
    <2>4. CASE ~(j.type = "CLOSE" /\ j.f = f)
      <3>1. Closing(f)' => Closing(f) BY <1>5, <2>1, <2>4 DEF Closing
      <3>2. \A i \in DOMAIN wire' : wire'[i].type = "CLOSE" /\ wire'[i].f = f => Current(f)'
        BY <1>f, <1>i, <2>1, <2>4 DEF Closes
      <3>3. ASSUME Closing(f) PROVE NoWrites(wire, f)' /\ NoWrites(queue, f)'
        <4>1. NoWrites(wire, f) /\ NoWrites(queue, f) /\ ~IsWrite(j, f)
          BY <1>5, <1>i, <3>3 DEF Closes, IsWrite
        <4>2. NoWrites(wire', f) BY <1>t, <1>5, <4>1, NoWritesAppend
        <4> QED BY <1>5, <4>1, <4>2 DEF NoWrites
      <3> QED BY <1>f, <1>i, <1>u, <2>2, <3>1, <3>2, <3>3 DEF Closes
    <2> QED BY <2>3, <2>4
  <1>6. Closes(f)' BY <1>4, <1>5, SenderFrame
  <1> QED BY <1>2, <1>6

LEMMA EmptyWhole ==
  ASSUME NEW f \in Files, file[f].n = 0
  PROVE  Whole(f) = <<>>
  <1> DEFINE w == Whole(f)
  <1>1. w = [p \in {} |-> IF p = 1 THEN 2 ELSE 1]
    <2>1. 1 .. file[f].n = {} OBVIOUS
    <2> QED BY <2>1 DEF Whole
  <1>2. w \in Seq(Nat) /\ Len(w) = 0
    <2>1. w = [p \in 1 .. 0 |-> IF p = 1 THEN 2 ELSE 1] BY DEF Whole
    <2> QED BY <2>1
  <1> QED BY <1>2

(* The jobs a recording appends are no writes.                             *)
LEMMA RecordingQueue ==
  ASSUME Recording, ~Begin
  PROVE  queue' = queue \/ \E j \in Jobs : queue' = Append(queue, j) /\ j.type # "WRITE"
  <1>1. CASE EndRecording
    <2>1. \A commit \in BOOLEAN :
            LET j == Job(IF commit THEN "COMMIT" ELSE "ABORT", "recording", <<>>)
            IN  j \in Jobs /\ j.type # "WRITE"
      BY JobTyped DEF Job
    <2>2. PICK drops \in BOOLEAN :
            \/ Refuse("COMMIT")
            \/ Enqueue(Job(IF ctl.phase = "stopping" /\ Good(drops) THEN "COMMIT" ELSE "ABORT",
                           "recording", <<>>))
      BY <1>1 DEF EndRecording
    <2> DEFINE commit == ctl.phase = "stopping" /\ Good(drops)
    <2>3. commit \in BOOLEAN OBVIOUS
    <2>4. \/ queue' = queue
          \/ queue' = Append(queue, Job(IF commit THEN "COMMIT" ELSE "ABORT", "recording", <<>>))
      BY <2>2 DEF Refuse, Enqueue
    <2> HIDE DEF commit
    <2> QED BY <2>1, <2>3, <2>4
  <1>2. CASE ~EndRecording
    BY <1>2 DEF Recording, StartRecording, StartFails, StopRecording, EndAnswered, JoinSender
  <1> QED BY <1>1, <1>2

LEMMA RecordingDisk ==
  ASSUME Typed, LinkInv, SenderInv, AcksInv, WireInv, DiskInv, Recording
  PROVE  DiskInv'
  <1>0. ctl \in Recordings /\ queue \in Seq(Jobs) BY DEF Typed
  <1>k. UNCHANGED <<conn, wire, acks, cli>>
    BY DEF Recording, Begin, StartRecording, StartFails, StopRecording, EndRecording, EndAnswered,
           JoinSender, Control, link
  <1> SUFFICES ASSUME cli.up, NEW f \in Files PROVE Opens(f)' /\ Closes(f)'
    BY <1>k DEF DiskInv
  <1>i. Opens(f) /\ Closes(f) BY DEF DiskInv
  <1>1. CASE Begin
    <2>1. ~ctl.failed /\ snd.pc \notin Waiting BY <1>1 DEF Begin, LinkInv, SenderInv, Waiting
    <2>2. \A i \in DOMAIN wire : wire[i].type = "WRITE" BY <2>1, Quiet
    <2>3. /\ file'[f] = NoProxy /\ disk'[f] = NoFile /\ queue' = <<>> /\ snd' = Idle("idle")
      BY <1>1 DEF Begin
    <2>4. /\ file'[f].pc = "none" /\ file'[f].n = 0 /\ disk'[f].data = <<>>
          /\ snd'.pc = "idle" /\ ~Current(f)'
      BY <2>3 DEF NoProxy, NoFile, Idle, Current
    <2>5. Whole(f)' = <<>>
      <3>1. 1 .. file'[f].n = 1 .. 0 BY <2>4
      <3>2. Whole(f)' = [p \in 1 .. 0 |-> IF p = 1 THEN 2 ELSE 1] BY <3>1 DEF Whole
      <3>3. Whole(f)' \in Seq(Nat) /\ Len(Whole(f)') = 0 BY <3>2
      <3> QED BY <3>3
    <2>6. Opens(f)' BY <2>4 DEF Opens, OpenAnswered
    <2>7. Closing(f)' <=> Closing(f) BY <1>k DEF Closing
    <2>8. NoWrites(queue, f)' BY <2>3 DEF NoWrites
    <2>9. NoWrites(wire, f)' <=> NoWrites(wire, f) BY <1>k DEF NoWrites
    <2>10. Closes(f)'
      BY <1>i, <1>k, <2>2, <2>4, <2>5, <2>7, <2>8, <2>9 DEF Closes
    <2> QED BY <2>6, <2>10
  <1>2. CASE ~Begin
    <2>1. UNCHANGED <<file, snd, disk>>
      BY <1>2 DEF Recording, StartRecording, StartFails, StopRecording, EndRecording, EndAnswered,
                  JoinSender
    <2>2. ctl'.record => ctl.record
      BY <1>0, <1>2 DEF Recording, StartRecording, StartFails, StopRecording, EndRecording,
         EndAnswered, JoinSender, Control, Recordings
    <2>3. queue' = queue \/ \E j \in Jobs : queue' = Append(queue, j) /\ j.type # "WRITE"
      BY <1>2, RecordingQueue
    <2>4. NoWrites(queue, f) => NoWrites(queue, f)'
      <3>1. SUFFICES ASSUME NoWrites(queue, f) PROVE NoWrites(queue', f) BY DEF NoWrites
      <3>2. CASE queue' = queue
        BY <3>1, <3>2
      <3>3. ASSUME NEW j \in Jobs, queue' = Append(queue, j), j.type # "WRITE"
            PROVE  NoWrites(queue', f)
        BY <1>0, <3>1, <3>3, NoWritesAppend DEF IsWrite
      <3> QED BY <2>3, <3>2, <3>3
    <2>5. Opens(f)' BY <1>i, <1>k, <2>1, <2>2 DEF Opens, OpenAnswered, Current, NoWrites, IsWrite
    <2>6. Closes(f)' BY <1>i, <1>k, <2>1, <2>4 DEF Closes, Closing, Whole, Current, NoWrites, IsWrite
    <2> QED BY <2>5, <2>6
  <1> QED BY <1>1, <1>2

(* An answered OPEN is the one its proxy waits for.                        *)
LEMMA AnsweredOpening ==
  ASSUME Typed, SenderInv, JobsInv, NEW f \in Files, OpenAnswered(f)
  PROVE  file[f].pc = "opening" /\ ~Current(f)
  <1>1. snd.pc \in {"asking", "finish"} => Held /\ JobOK(snd.job)
    BY DEF SenderInv, JobsInv, Held
  <1> QED BY <1>1 DEF OpenAnswered, JobOK, Asks, Current

(* An answer comes to the request that waits for it.                       *)
LEMMA ReceiveAnswers ==
  ASSUME Typed, SenderInv, AcksInv, WireInv, Receive,
         snd.pc \in Waiting, acks' = <<TRUE>>
  PROVE  Head(wire) = Asked /\ Head(wire).type # "WRITE" /\ acks = <<>> /\ ~ctl.failed /\ conn = "up"
  <1>1. /\ cli.up /\ wire # <<>> /\ ~ctl.failed
        /\ acks' = IF Head(wire).type = "WRITE" \/ conn # "up" THEN acks ELSE Append(acks, TRUE)
    BY DEF Receive, SenderInv
  <1>2. acks # <<TRUE>> BY <1>1 DEF AcksInv
  <1>3. Head(wire).type # "WRITE" /\ conn = "up" BY <1>1, <1>2
  <1>4. acks = <<>> BY <1>1, <1>2, <1>3 DEF AcksInv
  <1>5. Head(wire) = wire[1] /\ 1 \in DOMAIN wire BY <1>1 DEF Typed
  <1>6. FrameOK(1) BY <1>1, <1>5 DEF WireInv
  <1> QED BY <1>1, <1>3, <1>4, <1>5, <1>6 DEF FrameOK

LEMMA StoredAt ==
  ASSUME Typed, NEW f \in Files, NEW chunk \in Chunk
  PROVE  /\ Len(Stored(f, chunk)) \in Nat /\ Len(disk[f].data) \in Nat
         /\ Len(Stored(f, chunk)) = IF chunk[1] < Len(disk[f].data) THEN Len(disk[f].data)
                                                                     ELSE chunk[1] + 1
         /\ chunk[1] + 1 \in DOMAIN Stored(f, chunk) /\ Stored(f, chunk)[chunk[1] + 1] = chunk[2]
         /\ \A p \in DOMAIN disk[f].data :
              p # chunk[1] + 1 => p \in DOMAIN Stored(f, chunk) /\ Stored(f, chunk)[p] = disk[f].data[p]
  <1>1. disk[f].data \in Seq({0, 1, 2}) /\ chunk[1] \in Nat BY DEF Typed, DiskFiles, Chunk
  <1>2. Stored(f, chunk) \in Seq({0, 1, 2}) BY StoredTyped
  <1> DEFINE n == IF chunk[1] < Len(disk[f].data) THEN Len(disk[f].data) ELSE chunk[1] + 1
             s == [p \in 1 .. n |-> IF p = chunk[1] + 1 THEN chunk[2]
                                    ELSE IF p \in DOMAIN disk[f].data THEN disk[f].data[p] ELSE 0]
  <1>3. n \in Nat /\ chunk[1] + 1 \in 1 .. n /\ DOMAIN disk[f].data \subseteq 1 .. n BY <1>1
  <1>4. Stored(f, chunk) = s BY DEF Stored
  <1>5. DOMAIN s = 1 .. n OBVIOUS
  <1>6. Len(Stored(f, chunk)) = n BY <1>2, <1>3, <1>4, <1>5
  <1> QED BY <1>1, <1>3, <1>4, <1>6

LEMMA ReceiveDisk ==
  ASSUME Typed, LinkInv, SenderInv, ProxyInv, JobsInv, AcksInv, WireInv, DiskInv, Receive
  PROVE  DiskInv'
  <1>u. UNCHANGED <<ctl, file, queue, snd>> /\ cli.up /\ wire # <<>> /\ wire' = Tail(wire)
        /\ Apply(Head(wire))
    BY DEF Receive
  <1>h. PICK h \in Jobs : h = Head(wire) BY <1>u, WireTail
  <1>1. h = wire[1] /\ 1 \in DOMAIN wire /\ FrameOK(1) /\ Apply(h)
    BY <1>u, <1>h, WireTail DEF WireInv
  <1>2. h.type # "WRITE" => wire' = <<>> BY <1>u, <1>1, WireTail DEF FrameOK
  <1>c. cli \in Receivers BY DEF Typed
  <1> SUFFICES ASSUME cli'.up, NEW f \in Files PROVE Opens(f)' /\ Closes(f)'
    BY DEF DiskInv
  <1>i. Opens(f) /\ Closes(f) BY <1>u DEF DiskInv
  <1>f. (Current(f)' <=> Current(f)) /\ Whole(f)' = Whole(f) BY <1>u DEF Current, Whole
  <1>a. OpenAnswered(f)' =>
          \/ OpenAnswered(f)
          \/ h.type = "OPEN" /\ h.f = f /\ h = snd.job /\ snd.pc = "asking"
    <2>1. ASSUME snd.pc = "asking", acks' = <<TRUE>> PROVE h = snd.job
      BY <1>h, <2>1, ReceiveAnswers DEF Waiting, Asked
    <2> QED BY <1>u, <2>1 DEF OpenAnswered
  <1>n. NoWrites(wire, f) => NoWrites(wire, f)' /\ ~IsWrite(h, f)
    <2>1. wire \in Seq(Jobs) BY DEF Typed
    <2>2. NoWrites(wire, f)' <=> NoWrites(wire', f) BY DEF NoWrites
    <2> QED BY <1>u, <1>h, <2>1, <2>2, NoWritesTail
  <1>w. (\E i \in DOMAIN wire' : wire'[i].type = "CLOSE" /\ wire'[i].f = f)
          => \E i \in DOMAIN wire : wire[i].type = "CLOSE" /\ wire[i].f = f
    BY <1>u, WireTail
  <1>q. NoWrites(queue, f)' <=> NoWrites(queue, f) BY <1>u DEF NoWrites
  <1>3. CASE h.type = "WRITE"
    <2>1. /\ h.f \in cli.open /\ h.f \in Files /\ cli' = cli
          /\ disk'[f].name = disk[f].name
          /\ f # h.f => disk'[f].data = disk[f].data
          /\ disk'[h.f].data = Stored(h.f, h.chunk)
      BY <1>u, <1>1, <1>3, ApplyEffect
    <2>2. OpenAnswered(f)' => OpenAnswered(f) BY <1>3, <1>a
    <2>3. CASE f # h.f
      <3>1. Opens(f)' BY <1>f, <1>i, <1>n, <1>u, <2>1, <2>2, <2>3 DEF Opens
      <3>2. Closing(f)' => Closing(f) BY <1>w, <2>1 DEF Closing
      <3>3. Closes(f)' BY <1>f, <1>i, <1>n, <1>q, <1>u, <1>w, <2>1, <2>3, <3>2 DEF Closes
      <3> QED BY <3>1, <3>3
    <2>4. CASE f = h.f
      <3>0. IsWrite(h, f) BY <1>3, <2>4 DEF IsWrite
      <3>1. ~OpenAnswered(f)' BY <1>i, <1>n, <2>2, <3>0 DEF Opens
      <3>2. ctl.record /\ Current(f) => Len(disk'[f].data) <= file[f].n
        <4>1. SUFFICES ASSUME ctl.record, Current(f) PROVE Len(disk'[f].data) <= file[f].n OBVIOUS
        <4>2. h.chunk \in Chunk BY <1>3 DEF Jobs
        <4>3. h.chunk[1] < file[f].n BY <1>1, <1>3, <2>4, <4>1 DEF FrameOK, WriteOK
        <4>4. Len(disk[f].data) <= file[f].n BY <1>i, <4>1 DEF Opens
        <4>5. /\ file[f].n \in Nat /\ h.chunk[1] \in Nat /\ Len(disk[f].data) \in Nat
              /\ Len(Stored(f, h.chunk)) = IF h.chunk[1] < Len(disk[f].data)
                                           THEN Len(disk[f].data) ELSE h.chunk[1] + 1
          BY SMTT(30), <4>2, StoredAt DEF Typed, Proxies, Chunk
        <4>6. Len(Stored(f, h.chunk)) <= file[f].n BY <4>3, <4>4, <4>5
        <4> QED BY <2>1, <2>4, <4>6
      <3>3. Opens(f)' BY <1>f, <1>i, <1>u, <2>1, <2>4, <3>1, <3>2 DEF Opens
      <3>4. ~Closing(f)
        BY <1>i, <1>n, <3>0 DEF Closes
      <3>5. ~Closing(f)' BY <1>w, <2>1, <3>4 DEF Closing
      <3>6. Closes(f)' BY <3>5 DEF Closes, Closing
      <3> QED BY <3>3, <3>6
    <2> QED BY <2>3, <2>4
  <1>4. ASSUME h.type # "WRITE" PROVE wire' = <<>> /\ NoWrites(wire, f)' /\ (Closing(f)' => f \in cli'.closed)
    BY <1>2, <1>4 DEF NoWrites, Closing
  <1>5. CASE h.type = "OPEN"
    <2>1. /\ h.f \notin cli.open \cup cli.closed /\ cli'.open = cli.open \cup {h.f}
          /\ cli'.closed = cli.closed /\ disk'[f].data = disk[f].data
          /\ f # h.f => disk'[f].name = disk[f].name
      BY <1>u, <1>1, <1>5, ApplyEffect
    <2>2. OpenAnswered(f)' => f \in cli'.open /\ disk'[f].data = <<>>
      <3>1. CASE OpenAnswered(f)
        BY <1>i, <2>1, <3>1 DEF Opens
      <3>2. CASE h.f = f /\ h = snd.job /\ snd.pc = "asking"
        <4>1. JobOK(snd.job) /\ ctl.phase # "idle" BY <3>2 DEF SenderInv, JobsInv, Held
        <4>2. ctl.record /\ ~Current(f) BY <1>5, <3>2, <4>1 DEF LinkInv, JobOK, Asks, Current
        <4> QED BY <1>i, <2>1, <3>2, <4>2 DEF Opens
      <3> QED BY <1>a, <3>1, <3>2
    <2>3. Opens(f)' BY <1>4, <1>5, <1>f, <1>i, <1>u, <2>1, <2>2 DEF Opens
    <2>4. Closing(f)' => Closing(f) BY <1>4, <1>5, <2>1 DEF Closing
    <2>5. Closes(f)' BY <1>4, <1>5, <1>f, <1>i, <1>q, <1>u, <2>1, <2>4 DEF Closes
    <2> QED BY <2>3, <2>5
  <1>6. CASE h.type = "SYNC"
    <2>1. cli' = cli /\ disk' = disk BY <1>u, <1>1, <1>6, ApplyEffect
    <2>2. Opens(f)' BY <1>4, <1>6, <1>a, <1>f, <1>i, <1>u, <2>1 DEF Opens
    <2>3. Closing(f)' => Closing(f) BY <1>4, <1>6, <2>1 DEF Closing
    <2>4. Closes(f)' BY <1>4, <1>6, <1>f, <1>i, <1>q, <1>u, <2>1, <2>3 DEF Closes
    <2> QED BY <2>2, <2>4
  <1>7. CASE h.type = "CLOSE"
    <2>1. /\ h.f \in cli.open /\ cli'.open = cli.open \ {h.f}
          /\ cli'.closed = cli.closed \cup {h.f} /\ disk' = disk
      BY <1>u, <1>1, <1>7, ApplyEffect
    <2>2. OpenAnswered(f)' => OpenAnswered(f) /\ f # h.f
      <3>1. OpenAnswered(f)' => OpenAnswered(f) BY <1>7, <1>a
      <3>2. OpenAnswered(f) => ~Current(f) BY AnsweredOpening
      <3>3. f = h.f => Current(f) BY <1>1, <1>7, <1>i DEF Closes
      <3> QED BY <3>1, <3>2, <3>3
    <2>3. Opens(f)' BY <1>4, <1>7, <1>f, <1>i, <1>u, <2>1, <2>2 DEF Opens
    <2>4. Closing(f)' => Closing(f) BY <1>1, <1>4, <1>7, <2>1 DEF Closing
    <2>5. Closes(f)' BY <1>4, <1>7, <1>f, <1>i, <1>q, <1>u, <2>1, <2>4 DEF Closes
    <2> QED BY <2>3, <2>5
  <1>8. CASE h.type = "COMMIT"
    <2>1. /\ cli.open = {} /\ cli'.open = {} /\ cli'.closed = {}
          /\ disk'[f].data = disk[f].data
          /\ f \in cli.closed => disk'[f].name = "final"
          /\ f \notin cli.closed => disk'[f].name = disk[f].name
      BY <1>u, <1>1, <1>8, ApplyEffect
    <2>2. ~OpenAnswered(f)' BY <1>8, <1>a, <1>i, <2>1 DEF Opens
    <2>3. ctl.record /\ ~Current(f) => disk[f].data = <<>>
      <3>1. CASE f \in cli.closed
        <4>1. disk[f].data = Whole(f) BY <1>i, <3>1 DEF Closes, Closing
        <4>2. ~Current(f) => file[f].n = 0 BY DEF ProxyInv, Cached, Empty
        <4> QED BY <4>1, <4>2, EmptyWhole
      <3>2. CASE f \notin cli.closed
        BY <1>i, <2>1, <3>2 DEF Opens
      <3> QED BY <3>1, <3>2
    <2>4. ctl.record /\ Current(f) => disk'[f].name = "final"
      BY <1>i, <2>1 DEF Opens
    <2>5. Opens(f)' BY <1>f, <1>i, <1>u, <2>1, <2>2, <2>3, <2>4 DEF Opens
    <2>6. Closes(f)' BY <1>4, <1>8, <2>1 DEF Closes, Closing
    <2> QED BY <2>5, <2>6
  <1>9. CASE h.type = "ABORT"
    BY <1>u, <1>1, <1>9, ApplyEffect
  <1> QED BY <1>3, <1>5, <1>6, <1>7, <1>8, <1>9 DEF Jobs

LEMMA EnvironmentDisk ==
  ASSUME Typed, LinkInv, SenderInv, ProxyInv, JobsInv, AcksInv, WireInv, DiskInv, Environment
  PROVE  DiskInv'
  <1>0. cli \in Receivers BY DEF Typed
  <1>u. UNCHANGED <<file, queue, snd>> /\ ctl'.record = ctl.record BY EnvironmentFile
  <1>1. CASE Attach
    <2>1. wire' = <<>> /\ cli'.open = {} /\ cli'.closed = {} /\ ~ctl.record
      BY <1>1 DEF Attach, FreshReceiver
    <2>2. ctl.phase = "idle" /\ snd.pc = "exited" BY <2>1 DEF LinkInv, SenderInv
    <2>3. \A f \in Files : ~OpenAnswered(f)'
      BY <1>u, <2>2 DEF OpenAnswered, ProxyInv, Phase
    <2> QED BY <1>u, <2>1, <2>3 DEF DiskInv, Opens, Closes, Closing
  <1>2. CASE NetworkFails \/ Detach
    <2>1. UNCHANGED <<wire, acks, cli, disk>> BY <1>2 DEF NetworkFails, Detach
    <2>2. ASSUME NEW f \in Files, Opens(f) PROVE Opens(f)'
      <3>1. OpenAnswered(f)' <=> OpenAnswered(f) BY <1>u, <2>1 DEF OpenAnswered
      <3>2. NoWrites(wire, f)' <=> NoWrites(wire, f) BY <2>1 DEF NoWrites
      <3>3. Current(f)' <=> Current(f) BY <1>u DEF Current
      <3> QED BY <1>u, <2>1, <2>2, <3>1, <3>2, <3>3 DEF Opens
    <2>3. \A f \in Files : Closes(f) => Closes(f)'
      BY <1>u, <2>1 DEF Closes, Closing, Current, Whole, NoWrites, IsWrite
    <2> QED BY <2>1, <2>2, <2>3 DEF DiskInv
  <1>3. CASE ReceiveFails \/ ReceiverEnds
    <2>1. ~cli'.up BY <1>0, <1>3 DEF ReceiveFails, ReceiverEnds, Hangs, Receivers
    <2> QED BY <2>1 DEF DiskInv
  <1> QED BY <1>1, <1>2, <1>3, ReceiveDisk DEF Environment

-----------------------------------------------------------------------------
(* Nothing is lost between a cache and the disk.                           *)

(* What a frame or a job put behind the others does to the last version in *)
(* line.                                                                   *)
LEMMA LastInAppend ==
  ASSUME NEW s \in Seq(Jobs), NEW j \in Jobs, NEW f, NEW p, NEW v, ~Other(j, f, p, v)
  PROVE  /\ LastIn(s, f, p, v) => LastIn(Append(s, j), f, p, v)
         /\ NoOther(s, f, p, v) => NoOther(Append(s, j), f, p, v)
  <1> DEFINE t == Append(s, j)
  <1>1. /\ \A i \in DOMAIN s : t[i] = s[i] /\ i \in DOMAIN t
        /\ \A i \in DOMAIN t : i \in DOMAIN s \/ (i = Len(s) + 1 /\ t[i] = j)
    OBVIOUS
  <1> HIDE DEF t
  <1>2. ASSUME NoOther(s, f, p, v) PROVE NoOther(t, f, p, v)
    BY <1>1, <1>2 DEF NoOther
  <1>3. ASSUME LastIn(s, f, p, v) PROVE LastIn(t, f, p, v)
    <2>1. PICK i \in DOMAIN s : Streams(s[i], f, p, v)
                                /\ \A k \in DOMAIN s : k > i => ~Other(s[k], f, p, v)
      BY <1>3 DEF LastIn
    <2>2. i \in DOMAIN t /\ Streams(t[i], f, p, v) BY <1>1, <2>1
    <2>3. ASSUME NEW k \in DOMAIN t, k > i PROVE ~Other(t[k], f, p, v)
      BY <1>1, <2>1, <2>3
    <2> QED BY <2>2, <2>3 DEF LastIn
  <1> QED BY <1>2, <1>3 DEF t

LEMMA LastInNew ==
  ASSUME NEW s \in Seq(Jobs), NEW j \in Jobs, NEW f, NEW p, NEW v, Streams(j, f, p, v)
  PROVE  LastIn(Append(s, j), f, p, v)
  <1> DEFINE t == Append(s, j)
  <1>1. /\ Len(s) + 1 \in DOMAIN t /\ t[Len(s) + 1] = j /\ Len(s) \in Nat
        /\ \A k \in DOMAIN t : ~(k > Len(s) + 1)
    OBVIOUS
  <1> HIDE DEF t
  <1>2. LastIn(t, f, p, v) BY <1>1 DEF LastIn
  <1> QED BY <1>2 DEF t

(* And what taking the first one away does: the version was further        *)
(* behind, or it is what was taken.                                        *)
LEMMA LastInTail ==
  ASSUME NEW s \in Seq(Jobs), s # <<>>, NEW f, NEW p, NEW v
  PROVE  /\ LastIn(s, f, p, v) =>
              \/ LastIn(Tail(s), f, p, v)
              \/ Streams(Head(s), f, p, v) /\ NoOther(Tail(s), f, p, v)
         /\ NoOther(s, f, p, v) => NoOther(Tail(s), f, p, v) /\ ~Other(Head(s), f, p, v)
  <1> DEFINE t == Tail(s)
  <1>1. /\ Head(s) = s[1] /\ 1 \in DOMAIN s
        /\ \A i \in DOMAIN t : i \in Nat /\ i >= 1 /\ i + 1 \in DOMAIN s /\ t[i] = s[i + 1]
        /\ \A i \in DOMAIN s : i \in Nat /\ (i = 1 \/ (i - 1 \in DOMAIN t /\ t[i - 1] = s[i]))
    OBVIOUS
  <1> HIDE DEF t
  <1>2. ASSUME NoOther(s, f, p, v) PROVE NoOther(t, f, p, v) /\ ~Other(Head(s), f, p, v)
    BY <1>1, <1>2 DEF NoOther
  <1>3. ASSUME LastIn(s, f, p, v)
        PROVE  LastIn(t, f, p, v) \/ (Streams(Head(s), f, p, v) /\ NoOther(t, f, p, v))
    <2>1. PICK i \in DOMAIN s : Streams(s[i], f, p, v)
                                /\ \A k \in DOMAIN s : k > i => ~Other(s[k], f, p, v)
      BY <1>3 DEF LastIn
    <2>2. CASE i = 1
      <3>1. ASSUME NEW k \in DOMAIN t PROVE ~Other(t[k], f, p, v)
        <4>1. k + 1 \in DOMAIN s /\ k + 1 > i /\ t[k] = s[k + 1] BY <1>1, <2>2, <3>1
        <4> QED BY <2>1, <4>1
      <3> QED BY <1>1, <2>1, <2>2, <3>1 DEF NoOther
    <2>3. CASE i # 1
      <3>1. i - 1 \in DOMAIN t /\ t[i - 1] = s[i] BY <1>1, <2>3
      <3>2. ASSUME NEW k \in DOMAIN t, k > i - 1 PROVE ~Other(t[k], f, p, v)
        <4>1. i \in Nat /\ k \in Nat BY <1>1, <3>2
        <4>2. k + 1 \in DOMAIN s /\ k + 1 > i /\ t[k] = s[k + 1] BY <1>1, <3>2, <4>1
        <4> QED BY <2>1, <4>2
      <3> QED BY <2>1, <3>1, <3>2 DEF LastIn
    <2> QED BY <2>2, <2>3
  <1> QED BY <1>2, <1>3 DEF t

(* A job appended to the queue that is no other version.                   *)
LEMMA LeftAppend ==
  ASSUME Typed, NEW f \in Files, NEW p, NEW v, Left(f, p, v),
         UNCHANGED <<snd, wire, disk>>,
         queue' = queue \/ \E j \in Jobs : queue' = Append(queue, j) /\ ~Other(j, f, p, v)
  PROVE  Left(f, p, v)'
  <1>1. queue \in Seq(Jobs) BY DEF Typed
  <1>2. /\ LastIn(queue, f, p, v) => LastIn(queue', f, p, v)
        /\ NoOther(queue, f, p, v) => NoOther(queue', f, p, v)
    BY <1>1, LastInAppend
  <1>3. /\ LastIn(queue, f, p, v)' <=> LastIn(queue', f, p, v)
        /\ NoOther(queue, f, p, v)' <=> NoOther(queue', f, p, v)
    BY DEF LastIn, NoOther, Streams, Other, IsWrite
  <1>4. Landed(f, p, v)' <=> Landed(f, p, v)
    BY DEF Landed, LastIn, NoOther, Streams, Other, IsWrite
  <1>5. HeldOther(f, p, v)' <=> HeldOther(f, p, v) BY DEF HeldOther, Other, IsWrite
  <1>6. Streams(snd.job, f, p, v)' <=> Streams(snd.job, f, p, v) BY DEF Streams, IsWrite
  <1> QED BY <1>2, <1>3, <1>4, <1>5, <1>6 DEF Left

(* What NothingLost says of one file.                                      *)
Lossless(f) ==
    file[f].pc \in {"writing", "header", "closing"} /\ ~file[f].bad =>
      \A p \in 1 .. file[f].n : Arrives(f, p, Version(f, p))

LEMMA InitLost == Init => NothingLost
  BY DEF Init, NothingLost, Live

LEMMA ProxyLost ==
  ASSUME Typed, LinkInv, ProxyInv, NothingLost, NEW g \in Files, ProxyStep(g)
  PROVE  NothingLost'
  <1>1. Aside(g) /\ (queue' = queue \/ \E j \in Jobs : j.f = g /\ NewJob(j)) BY ProxyForward
  <1>2. UNCHANGED <<snd, wire, disk>> /\ (Live' <=> Live) BY <1>1 DEF Aside, Live
  <1>0. file[g] \in Proxies /\ file[g].n \in Nat /\ \A f \in Files : file[f].n \in Nat
    BY DEF Typed, Proxies
  <1>i. Cached(g) BY DEF ProxyInv
  <1> SUFFICES ASSUME Live, NEW f \in Files PROVE Lossless(f)'
    BY <1>2 DEF NothingLost, Lossless
  <1>l. Lossless(f) BY DEF NothingLost, Lossless
  <1>3. CASE f # g
    <2>1. file'[f] = file[f] BY <1>1, <1>3 DEF Aside
    <2>2. ASSUME NEW p \in 1 .. file[f].n, Arrives(f, p, Version(f, p))
          PROVE  Arrives(f, p, Version(f, p))'
      <3>1. PICK v : v = Version(f, p) OBVIOUS
      <3>2. Version(f, p)' = v BY <2>1, <3>1 DEF Version
      <3>3. \A j : j.f = g => ~Other(j, f, p, v) BY <1>3 DEF Other, IsWrite
      <3>4. Left(f, p, v) => Left(f, p, v)' BY <1>1, <1>2, <3>3, LeftAppend DEF NewJob
      <3>5. Arrives(f, p, v) BY <2>2, <3>1
      <3>6. Arrives(f, p, v)' BY <2>1, <3>4, <3>5 DEF Arrives
      <3> QED BY <3>2, <3>6
    <2> QED BY <1>l, <2>1, <2>2 DEF Lossless
  <1>4. ASSUME f = g, file'[g].n = file[g].n, file[g].cache = <<>>, ~file'[g].bad,
               file[g].pc \in {"writing", "header", "closing"}, ~file[g].bad,
               NEW p \in 1 .. file[g].n, Version(g, p)' = Version(g, p),
               queue' = queue \/ \E j \in Jobs : queue' = Append(queue, j) /\ j.type # "WRITE"
        PROVE  Arrives(g, p, Version(g, p))'
    <2>1. PICK v : v = Version(g, p) OBVIOUS
    <2>2. Arrives(g, p, v) BY <1>4, <1>l, <2>1 DEF Lossless
    <2>3. Left(g, p, v) BY <1>4, <2>2 DEF Arrives
    <2>4. \A j : j.type # "WRITE" => ~Other(j, g, p, v) BY DEF Other, IsWrite
    <2>5. Left(g, p, v)' BY <1>2, <1>4, <2>3, <2>4, LeftAppend
    <2>6. Arrives(g, p, v)' BY <2>5 DEF Arrives
    <2> QED BY <1>4, <2>1, <2>6
  <1>5. CASE f = g
    <2>1. CASE OpenFile(g)
      BY <1>5, <2>1, OpenFileStep DEF Asking, Moved, Lossless
    <2>2. CASE Opened(g)
      <3>1. file[g].n = 0 /\ file'[g].n = file[g].n
        BY <1>i, <2>2, OpenedStep DEF Opened, Moved, Cached, Current, Empty
      <3> QED BY <1>5, <3>1 DEF Lossless
    <2>3. CASE Put(g)
      <3>1. /\ file'[g].pc = "writing" /\ file'[g].n = file[g].n + 1 /\ ~file'[g].bad
            /\ file'[g].cache = <<file[g].n, 1>> /\ queue' = queue
        BY <2>3, PutStep
      <3>2. file[g].pc = "writing" /\ ~file[g].bad /\ file[g].cache = <<>> BY <2>3 DEF Put
      <3>3. ASSUME NEW p \in 1 .. file[g].n + 1 PROVE Arrives(g, p, 1)'
        <4>1. CASE p = file[g].n + 1
          <5>1. p - 1 = file[g].n BY <1>0, <4>1
          <5> QED BY <3>1, <5>1 DEF Arrives
        <4>2. CASE p \in 1 .. file[g].n
          <5>1. Arrives(g, p, 1) BY <1>5, <1>l, <3>2, <4>2 DEF Lossless, Version
          <5>2. Left(g, p, 1) BY <3>2, <5>1 DEF Arrives
          <5>3. Left(g, p, 1)' BY <1>2, <3>1, <5>2, LeftAppend
          <5> QED BY <5>3 DEF Arrives
        <4> QED BY <1>0, <4>1, <4>2
      <3> QED BY <1>5, <3>1, <3>3 DEF Lossless, Version
    <2>4. CASE Flush(g)
      <3>1. /\ file'[g].pc = file[g].pc /\ file'[g].n = file[g].n /\ file[g].cache \in Chunk
            /\ \/ /\ file'[g].cache = <<>> /\ ~file'[g].bad
                  /\ queue' = Append(queue, Job("WRITE", g, file[g].cache))
               \/ file'[g].bad
        BY <2>4, FlushStep
      <3>2. file[g].pc \in {"writing", "header"} /\ file[g].cache # <<>> /\ ~file[g].bad
        BY <2>4 DEF Flush
      <3>3. CASE file'[g].bad
        BY <1>5, <3>3 DEF Lossless
      <3>4. CASE queue' = Append(queue, Job("WRITE", g, file[g].cache))
        <4>0. PICK j \in Jobs : j = Job("WRITE", g, file[g].cache) BY <3>1, JobTyped
        <4>1. j.type = "WRITE" /\ j.f = g /\ j.chunk = file[g].cache BY <4>0 DEF Job
        <4>2. /\ file[g].cache = <<file[g].cache[1], file[g].cache[2]>>
              /\ file[g].cache[1] \in Nat
          BY <3>1 DEF Chunk
        <4>3. ASSUME NEW p \in 1 .. file[g].n PROVE Arrives(g, p, Version(g, p))'
          <5>1. PICK v : v = Version(g, p) OBVIOUS
          <5>2. Version(g, p)' = v BY <3>1, <5>1 DEF Version
          <5>3. Arrives(g, p, v) BY <1>5, <1>l, <3>2, <5>1 DEF Lossless
          <5>4. CASE file[g].cache = <<p - 1, v>>
            <6>1. Streams(j, g, p, v) BY <4>1, <5>4 DEF Streams, IsWrite
            <6>2. queue \in Seq(Jobs) BY DEF Typed
            <6>3. LastIn(queue', g, p, v) BY <3>4, <4>0, <6>1, <6>2, LastInNew
            <6>4. LastIn(queue, g, p, v)' BY <6>3 DEF LastIn, Streams, Other, IsWrite
            <6>5. Arrives(g, p, v)' BY <6>4 DEF Arrives, Left
            <6> QED BY <5>2, <6>5
          <5>5. CASE file[g].cache # <<p - 1, v>>
            <6>1. file[g].cache[1] = p - 1 => file[g].cache[2] = v
              <7>1. CASE file[g].pc = "writing"
                BY <1>i, <3>2, <5>1, <7>1 DEF Cached, Version
              <7>2. CASE file[g].pc = "header"
                <8>1. file[g].cache = <<0, 2>> BY <1>i, <3>2, <7>2 DEF Cached
                <8>2. file[g].cache[1] = 0 /\ file[g].cache[2] = 2 BY <8>1
                <8>3. p \in Nat /\ (p - 1 = 0 => p = 1) BY <1>0
                <8> QED BY <5>1, <7>2, <8>2, <8>3 DEF Version
              <7> QED BY <3>2, <7>1, <7>2
            <6>2. ~Other(j, g, p, v) BY <4>1, <6>1 DEF Other
            <6>3. Left(g, p, v) BY <5>3, <5>5 DEF Arrives
            <6>4. Left(g, p, v)' BY <1>2, <3>4, <4>0, <6>2, <6>3, LeftAppend
            <6>5. Arrives(g, p, v)' BY <6>4 DEF Arrives
            <6> QED BY <5>2, <6>5
          <5> QED BY <5>4, <5>5
        <4> QED BY <1>5, <3>1, <4>3 DEF Lossless
      <3> QED BY <3>1, <3>3, <3>4
    <2>5. CASE Rewrite(g)
      <3>1. /\ file'[g].pc = "header" /\ file'[g].n = file[g].n /\ file'[g].bad = file[g].bad
            /\ file'[g].cache = (IF file[g].bad \/ file[g].n = 0 THEN file[g].cache ELSE <<0, 2>>)
            /\ queue' = queue
        BY <2>5, RewriteStep
      <3>2. file[g].pc = "writing" /\ (file[g].cache = <<>> \/ file[g].bad)
        BY <2>5 DEF Rewrite, Flushed
      <3>3. ASSUME ~file[g].bad, NEW p \in 1 .. file[g].n PROVE Arrives(g, p, Version(g, p))'
        <4>1. CASE p = 1
          <5>1. file'[g].cache = <<0, 2>> /\ Version(g, p)' = 2 BY <1>0, <3>1, <3>3, <4>1 DEF Version
          <5>2. Arrives(g, p, 2)' BY <4>1, <5>1 DEF Arrives
          <5> QED BY <5>1, <5>2
        <4>2. CASE p # 1
          <5>1. Version(g, p)' = Version(g, p) BY <4>2 DEF Version
          <5>2. f = g /\ ~file'[g].bad BY <1>5, <3>1, <3>3
          <5> QED BY <1>4, <3>1, <3>2, <3>3, <5>1, <5>2
        <4> QED BY <4>1, <4>2
      <3> QED BY <1>5, <3>1, <3>3 DEF Lossless
    <2>6. CASE CloseFile(g)
      <3>1. /\ \/ file'[g].pc = "abort"
               \/ /\ Sound(g) /\ file'[g].pc = "closing"
                  /\ queue' = Append(queue, Job("CLOSE", g, <<>>))
            /\ file'[g].n = file[g].n /\ file'[g].bad = file[g].bad
        BY <2>6, CloseFileStep DEF Asking, Moved
      <3>2. file[g].pc = "header" /\ (file[g].cache = <<>> \/ file[g].bad)
        BY <2>6 DEF CloseFile, Flushed
      <3>3. Job("CLOSE", g, <<>>) \in Jobs /\ Job("CLOSE", g, <<>>).type # "WRITE"
        BY JobTyped DEF Job
      <3>4. CASE file'[g].pc = "abort"
        BY <1>5, <3>4 DEF Lossless
      <3>5. CASE Sound(g) /\ file'[g].pc = "closing" /\ queue' = Append(queue, Job("CLOSE", g, <<>>))
        <4>1. ASSUME NEW p \in 1 .. file[g].n PROVE Arrives(g, p, Version(g, p))'
          <5>1. Version(g, p)' = Version(g, p) BY <3>2, <3>5 DEF Version
          <5>2. ~file[g].bad /\ ~file'[g].bad /\ file[g].cache = <<>> BY <3>1, <3>2, <3>5 DEF Sound
          <5> QED BY <1>4, <1>5, <3>1, <3>2, <3>3, <3>5, <5>1, <5>2
        <4> QED BY <1>5, <3>1, <4>1 DEF Lossless
      <3> QED BY <3>1, <3>4, <3>5
    <2>7. CASE CloseAnswered(g)
      BY <1>5, <2>7, CloseAnsweredStep DEF Moved, Lossless
    <2>8. CASE AbortFile(g)
      BY <1>5, <2>8, AbortFileStep DEF Asking, Moved, Lossless
    <2>9. CASE Aborted(g)
      BY <1>5, <2>9, AbortedStep DEF Moved, Lossless
    <2> QED BY <2>1, <2>2, <2>3, <2>4, <2>5, <2>6, <2>7, <2>8, <2>9 DEF ProxyStep
  <1> QED BY <1>3, <1>5

LEMMA SenderLost ==
  ASSUME Typed, LinkInv, SenderInv, JobsInv, AcksInv, NothingLost, Sender
  PROVE  NothingLost'
  <1>t. queue \in Seq(Jobs) /\ wire \in Seq(Jobs) BY DEF Typed
  <1>1. CASE SendFails \/ NotAcknowledged
    BY <1>1, FailStep DEF NothingLost, Live
  <1>2. CASE ~(SendFails \/ NotAcknowledged)
    <2>1. Live' => Live
      <3>1. CASE FinishJob
        BY <3>1, FinishStep DEF Live
      <3>2. CASE ~FinishJob
        BY <1>2, <3>2 DEF Sender, TakeJob, SenderExits, StreamChunk, Request, Acknowledged, Live, link
      <3> QED BY <3>1, <3>2
    <2> SUFFICES ASSUME Live, NEW f \in Files PROVE Lossless(f)'
      BY <2>1 DEF NothingLost, Lossless
    <2>l. Lossless(f) BY DEF NothingLost, Lossless
    <2>f. /\ file'[f].pc = file[f].pc /\ file'[f].n = file[f].n /\ file'[f].cache = file[f].cache
          /\ file'[f].bad = file[f].bad
      BY SenderFile
    <2>2. ASSUME NEW p \in 1 .. file[f].n, NEW v, Left(f, p, v) PROVE Left(f, p, v)'
      <3> DEFINE Kept(s, t) == /\ LastIn(s, f, p, v) => LastIn(t, f, p, v)
                               /\ NoOther(s, f, p, v) => NoOther(t, f, p, v)
      <3>q. /\ LastIn(queue, f, p, v)' <=> LastIn(queue', f, p, v)
            /\ NoOther(queue, f, p, v)' <=> NoOther(queue', f, p, v)
            /\ LastIn(wire, f, p, v)' <=> LastIn(wire', f, p, v)
            /\ NoOther(wire, f, p, v)' <=> NoOther(wire', f, p, v)
        BY DEF LastIn, NoOther, Streams, Other, IsWrite
      <3>s. /\ Streams(snd.job, f, p, v)' <=> Streams(snd'.job, f, p, v)
            /\ HeldOther(f, p, v)' <=> (snd'.pc = "stream" /\ Other(snd'.job, f, p, v))
        BY DEF HeldOther, Streams, Other, IsWrite
      <3>1. CASE wire' = wire
        <4>0. disk' = disk BY DEF Sender, TakeJob, SenderExits, StreamChunk, Request, SendFails,
                                  Acknowledged, NotAcknowledged, FinishJob
        <4>1. Landed(f, p, v) => Landed(f, p, v)' BY <3>q, <3>1, <4>0 DEF Landed
        <4>2. CASE TakeJob
          <5>1. /\ snd.pc = "idle" /\ queue # <<>> /\ queue' = Tail(queue)
                /\ snd'.job = Head(queue) /\ (Head(queue).type = "WRITE" => snd'.pc = "stream")
            BY <4>2, TakeJobStep
          <5>2. Streams(Head(queue), f, p, v) => snd'.pc = "stream" BY <5>1 DEF Streams, IsWrite
          <5>3. /\ LastIn(queue, f, p, v) =>
                     \/ LastIn(queue', f, p, v)
                     \/ Streams(Head(queue), f, p, v) /\ NoOther(queue', f, p, v)
                /\ NoOther(queue, f, p, v) => NoOther(queue', f, p, v) /\ ~Other(Head(queue), f, p, v)
            BY <1>t, <5>1, LastInTail
          <5>4. CASE LastIn(queue, f, p, v)
            BY <3>q, <3>s, <5>1, <5>2, <5>3, <5>4 DEF Left
          <5>5. CASE NoOther(queue, f, p, v) /\ Landed(f, p, v)
            BY <3>q, <3>s, <4>1, <5>1, <5>3, <5>5 DEF Left
          <5> QED BY <2>2, <5>1, <5>4, <5>5 DEF Left
        <4>3. CASE ~TakeJob
          <5>1. queue' = queue
            BY <4>3 DEF Sender, TakeJob, SenderExits, StreamChunk, Request, SendFails,
                        Acknowledged, NotAcknowledged, FinishJob
          <5>2. snd.pc # "stream"
            <6>1. CASE StreamChunk
              <7>1. wire' = Append(wire, snd.job) /\ snd.job \in Jobs BY <6>1, StreamStep DEF Live
              <7>2. Len(wire') = Len(wire) + 1 /\ Len(wire) \in Nat BY <1>t, <7>1
              <7> QED BY <3>1, <7>2
            <6> QED BY <1>2, <4>3, <6>1 DEF Sender, SenderExits, Request, Acknowledged, FinishJob
          <5>3. snd'.pc # "stream"
            <6>1. CASE FinishJob
              BY <6>1, FinishStep
            <6>2. CASE SenderExits
              BY <6>2 DEF SenderExits, Idle
            <6> QED BY <4>3, <6>1, <6>2, BusyKeepsJob DEF Sender, Busy
          <5> QED BY <2>2, <3>q, <3>s, <4>1, <5>1, <5>2, <5>3 DEF Left
        <4> QED BY <4>2, <4>3
      <3>2. ASSUME NEW j \in Jobs, wire' = Append(wire, j),
                   UNCHANGED <<ctl, file, queue, conn, acks, cli, disk>>,
                   \/ StreamChunk /\ snd.pc = "stream" /\ j = snd.job /\ j.type = "WRITE"
                   \/ Request /\ snd.pc \in {"sync", "control"} /\ j.type # "WRITE"
            PROVE  Left(f, p, v)'
        <4>1. snd'.pc # "stream" BY <3>2, BusyKeepsJob DEF Busy
        <4>2. LastIn(queue, f, p, v) => Left(f, p, v)' BY <3>q, <3>2 DEF Left
        <4>3. CASE NoOther(queue, f, p, v) /\ snd.pc = "stream" /\ Streams(snd.job, f, p, v)
          <5>1. LastIn(wire', f, p, v) BY <1>t, <3>2, <4>3, LastInNew
          <5>2. Landed(f, p, v)' BY <3>q, <5>1 DEF Landed
          <5> QED BY <3>q, <3>s, <3>2, <4>1, <4>3, <5>2 DEF Left
        <4>4. CASE NoOther(queue, f, p, v) /\ ~HeldOther(f, p, v) /\ Landed(f, p, v)
          <5>1. ~Other(j, f, p, v) BY <3>2, <4>4 DEF HeldOther, Other, IsWrite
          <5>2. /\ LastIn(wire, f, p, v) => LastIn(wire', f, p, v)
                /\ NoOther(wire, f, p, v) => NoOther(wire', f, p, v)
            BY <1>t, <3>2, <5>1, LastInAppend
          <5>3. Landed(f, p, v)' BY <3>q, <3>2, <4>4, <5>2 DEF Landed
          <5> QED BY <3>q, <3>s, <3>2, <4>1, <4>4, <5>3 DEF Left
        <4> QED BY <2>2, <4>2, <4>3, <4>4 DEF Left
      <3> QED BY <3>1, <3>2, SenderFrame
    <2>3. ASSUME NEW p \in 1 .. file[f].n, Arrives(f, p, Version(f, p))
          PROVE  Arrives(f, p, Version(f, p))'
      <3>1. PICK v : v = Version(f, p) OBVIOUS
      <3>2. Version(f, p)' = v BY <2>f, <3>1 DEF Version
      <3>3. Arrives(f, p, v) BY <2>3, <3>1
      <3>4. Arrives(f, p, v)' BY <2>f, <2>2, <3>3 DEF Arrives
      <3> QED BY <3>2, <3>4
    <2> QED BY <2>f, <2>l, <2>3 DEF Lossless
  <1> QED BY <1>1, <1>2

LEMMA RecordingLost ==
  ASSUME Typed, NothingLost, Recording
  PROVE  NothingLost'
  <1>0. ctl \in Recordings BY DEF Typed
  <1>1. CASE Begin
    <2>1. \A f \in Files : file'[f].pc = "none" BY <1>1 DEF Begin, NoProxy
    <2> QED BY <2>1 DEF NothingLost
  <1>2. CASE ~Begin
    <2>1. UNCHANGED <<file, snd, disk, wire, conn>>
      BY <1>2 DEF Recording, StartRecording, StartFails, StopRecording, EndRecording, EndAnswered,
                  JoinSender, Control, link
    <2>2. Live' => Live
      BY <1>0, <1>2 DEF Recording, StartRecording, StartFails, StopRecording, EndRecording,
         EndAnswered, JoinSender, Control, link, Recordings, Live
    <2>3. ASSUME NEW f \in Files, NEW p \in 1 .. file[f].n, Arrives(f, p, Version(f, p))
          PROVE  Arrives(f, p, Version(f, p))'
      <3>1. PICK v : v = Version(f, p) OBVIOUS
      <3>2. Version(f, p)' = v BY <2>1, <3>1 DEF Version
      <3>3. \A j : j.type # "WRITE" => ~Other(j, f, p, v) BY DEF Other, IsWrite
      <3>4. Left(f, p, v) => Left(f, p, v)' BY <1>2, <2>1, <3>3, RecordingQueue, LeftAppend
      <3>5. Arrives(f, p, v) BY <2>3, <3>1
      <3>6. Arrives(f, p, v)' BY <2>1, <3>4, <3>5 DEF Arrives
      <3> QED BY <3>2, <3>6
    <2> QED BY <2>1, <2>2, <2>3 DEF NothingLost
  <1> QED BY <1>1, <1>2

LEMMA EnvironmentLost ==
  ASSUME Typed, LinkInv, WireInv, NothingLost, Environment
  PROVE  NothingLost'
  <1>u. UNCHANGED <<file, queue, snd>> /\ ctl'.record = ctl.record BY EnvironmentFile
  <1>0. ctl \in Recordings /\ wire \in Seq(Jobs) BY DEF Typed
  <1>1. CASE Attach
    <2>1. ~ctl.record BY <1>1 DEF Attach
    <2> QED BY <1>u, <2>1 DEF NothingLost, Live
  <1>2. CASE NetworkFails \/ Detach \/ ReceiveFails \/ ReceiverEnds
    <2>1. conn' # "up" BY <1>2 DEF NetworkFails, Detach, ReceiveFails, ReceiverEnds
    <2> QED BY <2>1 DEF NothingLost, Live
  <1>3. CASE Receive
    <2>u. /\ ctl' = ctl /\ cli.up /\ wire # <<>> /\ wire' = Tail(wire) /\ Apply(Head(wire))
          /\ conn' = IF conn = "up" /\ Head(wire).type = "ABORT" THEN "down" ELSE conn
      BY <1>3 DEF Receive
    <2>h. PICK h \in Jobs : h = Head(wire) BY <2>u, WireTail
    <2>1. Apply(h) BY <2>u, <2>h
    <2>2. CASE h.type = "ABORT"
      <3>1. conn' # "up" BY <2>u, <2>h, <2>2
      <3> QED BY <3>1 DEF NothingLost, Live
    <2>3. CASE h.type # "ABORT"
      <3>1. Live' => Live BY <2>u, <2>h, <2>3 DEF Live
      <3>2. ASSUME NEW f \in Files, NEW p \in 1 .. file[f].n, NEW v, Landed(f, p, v)
            PROVE  Landed(f, p, v)'
        <4>0. p \in Nat /\ p >= 1 BY DEF Typed, Proxies
        <4>1. /\ LastIn(wire, f, p, v) =>
                   \/ LastIn(wire', f, p, v)
                   \/ Streams(h, f, p, v) /\ NoOther(wire', f, p, v)
              /\ NoOther(wire, f, p, v) => NoOther(wire', f, p, v) /\ ~Other(h, f, p, v)
          BY <1>0, <2>u, <2>h, LastInTail
        <4>2. /\ LastIn(wire, f, p, v)' <=> LastIn(wire', f, p, v)
              /\ NoOther(wire, f, p, v)' <=> NoOther(wire', f, p, v)
          BY DEF LastIn, NoOther, Streams, Other, IsWrite
        <4>3. Streams(h, f, p, v) => p \in DOMAIN disk'[f].data /\ disk'[f].data[p] = v
          <5>1. SUFFICES ASSUME Streams(h, f, p, v)
                         PROVE  p \in DOMAIN disk'[f].data /\ disk'[f].data[p] = v
            OBVIOUS
          <5>2. h.type = "WRITE" /\ h.f = f /\ h.chunk = <<p - 1, v>> BY <5>1 DEF Streams, IsWrite
          <5>3. h.chunk \in Chunk BY <5>2 DEF Jobs
          <5>4. h.chunk[1] + 1 = p /\ h.chunk[2] = v BY <4>0, <5>2
          <5>5. disk'[f].data = Stored(f, h.chunk) BY <2>u, <2>1, <5>2, ApplyEffect
          <5> QED BY <5>3, <5>4, <5>5, StoredAt
        <4>4. ASSUME ~Other(h, f, p, v), p \in DOMAIN disk[f].data, disk[f].data[p] = v
              PROVE  p \in DOMAIN disk'[f].data /\ disk'[f].data[p] = v
          <5>1. CASE ~IsWrite(h, f)
            <6>1. disk'[f].data = disk[f].data
              BY <2>u, <2>1, <2>3, <5>1, ApplyEffect DEF Jobs, IsWrite
            <6> QED BY <4>4, <6>1
          <5>2. CASE IsWrite(h, f)
            <6>1. h.type = "WRITE" /\ h.f = f /\ h.chunk \in Chunk BY <5>2 DEF Jobs, IsWrite
            <6>2. disk'[f].data = Stored(f, h.chunk) BY <2>u, <2>1, <6>1, ApplyEffect
            <6>3. CASE p = h.chunk[1] + 1
              <7>1. h.chunk[1] = p - 1 BY <4>0, <6>1, <6>3 DEF Chunk
              <7>2. h.chunk[2] = v BY <4>4, <5>2, <7>1 DEF Other
              <7> QED BY <6>1, <6>2, <6>3, <7>2, StoredAt
            <6>4. CASE p # h.chunk[1] + 1
              BY <4>4, <6>1, <6>2, <6>4, StoredAt
            <6> QED BY <6>3, <6>4
          <5> QED BY <5>1, <5>2
        <4> QED BY <3>2, <4>1, <4>2, <4>3, <4>4 DEF Landed
      <3>3. ASSUME NEW f \in Files, NEW p \in 1 .. file[f].n, Arrives(f, p, Version(f, p))
            PROVE  Arrives(f, p, Version(f, p))'
        <4>1. PICK v : v = Version(f, p) OBVIOUS
        <4>2. Version(f, p)' = v BY <1>u, <4>1 DEF Version
        <4>3. Landed(f, p, v) => Landed(f, p, v)' BY <3>2
        <4>4. /\ LastIn(queue, f, p, v)' <=> LastIn(queue, f, p, v)
              /\ NoOther(queue, f, p, v)' <=> NoOther(queue, f, p, v)
              /\ HeldOther(f, p, v)' <=> HeldOther(f, p, v)
              /\ Streams(snd.job, f, p, v)' <=> Streams(snd.job, f, p, v)
          BY <1>u DEF LastIn, NoOther, HeldOther, Streams, Other, IsWrite
        <4>5. Arrives(f, p, v) BY <3>3, <4>1
        <4>6. Arrives(f, p, v)' BY <1>u, <4>3, <4>4, <4>5 DEF Arrives, Left
        <4> QED BY <4>2, <4>6
      <3> QED BY <1>u, <3>1, <3>3 DEF NothingLost
    <2> QED BY <2>2, <2>3
  <1> QED BY <1>1, <1>2, <1>3 DEF Environment

-----------------------------------------------------------------------------
(* The commit.                                                             *)

LEMMA InitCommit == Init => CommitInv
  <1> SUFFICES ASSUME Init PROVE CommitInv
    OBVIOUS
  <1>1. \A f \in Files : disk[f].name = "none" BY DEF Init, NoFile
  <1>2. wire = <<>> /\ ctl.phase = "idle" /\ ~ctl.complete BY DEF Init
  <1>3. snd.pc = "exited" BY DEF Init, Idle
  <1> QED BY <1>1, <1>2, <1>3 DEF CommitInv, FinalIsWhole, CommitAnswered

LEMMA ProxyCommit ==
  ASSUME Typed, ProxyInv, CommitInv, NEW g \in Files, ProxyStep(g)
  PROVE  CommitInv'
  <1>1. Aside(g)
    <2>1. PICK r \in Proxies : Proxy(g, r) BY ProxyStepUpdate
    <2> QED BY <2>1, ProxySets
  <1>2. ~Over
    <2>1. SUFFICES ASSUME Over PROVE FALSE OBVIOUS
    <2>2. file[g].pc \in {"none", "refused", "done"} /\ ctl.phase # "starting"
      BY <2>1 DEF Over, ProxyInv, Phase
    <2> QED BY <2>2 DEF ProxyStep, OpenFile, Opened, Put, Flush, Rewrite, CloseFile, CloseAnswered,
                        AbortFile, Aborted
  <1>3. \A f \in Files : disk[f].name # "final" BY <1>2 DEF CommitInv
  <1>4. CommitAnswered' <=> CommitAnswered BY <1>1 DEF Aside, CommitAnswered
  <1> QED BY <1>1, <1>2, <1>3, <1>4 DEF Aside, CommitInv, FinalIsWhole, AllFinal

LEMMA SenderCommit ==
  ASSUME Typed, LinkInv, SenderInv, JobsInv, AcksInv, CommitInv, Sender
  PROVE  CommitInv'
  <1>t. wire \in Seq(Jobs) /\ ctl \in Recordings BY DEF Typed
  <1>r. "recording" \notin Files BY LocalSaveAssumption
  <1>u. UNCHANGED <<disk, cli>> /\ ctl'.phase = ctl.phase /\ ctl'.commit = ctl.commit
        /\ ctl'.complete = ctl.complete
    BY <1>t, SenderCtl DEF MarkFailed, Reports, Recordings, Sender, TakeJob, SenderExits,
       StreamChunk, Request, SendFails, Acknowledged, NotAcknowledged, FinishJob, link
  <1>1. Over => Over' /\ wire' = wire
    <2>1. SUFFICES ASSUME Over PROVE Over' /\ wire' = wire OBVIOUS
    <2>2. CASE SenderExits
      BY <1>u, <2>1, <2>2 DEF SenderExits, Idle, Over, link
    <2>3. CASE NotAcknowledged
      BY <1>u, <2>1, <2>3, FailStep DEF Over
    <2>4. CASE Acknowledged
      <3>1. snd.pc = "asking" BY <2>1, <2>4 DEF Acknowledged, Over
      <3> QED BY <1>u, <2>1, <2>4, <3>1, AckStep DEF Over
    <2>5. CASE FinishJob
      BY <1>u, <2>1, <2>5, FinishStep DEF Over
    <2> QED BY <2>1, <2>2, <2>3, <2>4, <2>5 DEF Sender, TakeJob, StreamChunk, Request, SendFails, Over
  <1>2. (\E i \in DOMAIN wire' : wire'[i].type = "COMMIT") /\ cli.up => Over'
    <2>1. SUFFICES ASSUME NEW i \in DOMAIN wire', wire'[i].type = "COMMIT", cli.up PROVE Over' OBVIOUS
    <2>2. CASE i \in DOMAIN wire /\ wire'[i] = wire[i]
      BY <1>1, <2>1, <2>2 DEF CommitInv
    <2>3. ASSUME NEW j \in Jobs, wire' = Append(wire, j), wire'[i] = j, snd.pc = "control", Request,
                 j = snd.job, queue' = queue
          PROVE  Over'
      <3>1. Held /\ JobOK(snd.job) /\ queue = <<>> BY <2>1, <2>3 DEF SenderInv, JobsInv, Held
      <3>2. j.f = "recording" BY <2>1, <2>3 DEF Jobs
      <3>3. ctl.phase = "ending" BY <2>3, <3>1, <3>2 DEF JobOK
      <3>4. snd'.pc = "asking" BY <2>3, RequestStep
      <3> QED BY <1>u, <2>3, <3>1, <3>3, <3>4 DEF Over
    <2>4. CASE wire' = wire
      BY <2>1, <2>2, <2>4
    <2>5. ASSUME NEW j \in Jobs, wire' = Append(wire, j), queue' = queue,
                 \/ j.type = "WRITE"
                 \/ j.type = "SYNC"
                 \/ Request /\ snd.pc = "control" /\ j = snd.job
          PROVE  Over'
      <3>1. (i \in DOMAIN wire /\ wire'[i] = wire[i]) \/ wire'[i] = j BY <1>t, <2>1, <2>5
      <3> QED BY <2>1, <2>2, <2>3, <2>5, <3>1
    <2> QED BY <2>4, <2>5, SenderFrame
  <1>3. \A f \in Files : Whole(f)' = Whole(f) BY SenderFile DEF Whole
  <1>4. CommitAnswered' => AllFinal
    <2>1. ~(snd'.pc = "asking" /\ acks' = <<TRUE>>)
      <3>1. CASE Request
        BY <3>1, RequestStep DEF AcksInv, Usable, Waiting
      <3>2. CASE TakeJob \/ FinishJob
        BY <3>2, TakeJobStep, FinishStep
      <3>3. CASE SenderExits
        BY <3>3 DEF SenderExits, Idle
      <3>4. CASE StreamChunk
        BY <3>4, StreamStep
      <3>5. CASE SendFails \/ NotAcknowledged
        BY <3>5, FailStep
      <3>6. CASE Acknowledged
        BY <3>6, AckStep DEF Waiting
      <3> QED BY <3>1, <3>2, <3>3, <3>4, <3>5, <3>6 DEF Sender
    <2>2. snd'.pc = "finish" /\ snd'.ok /\ snd'.job.type = "COMMIT" => CommitAnswered
      <3>1. SUFFICES ASSUME snd'.pc = "finish", snd'.ok, snd'.job.type = "COMMIT" PROVE CommitAnswered
        OBVIOUS
      <3>2. CASE Acknowledged
        BY <3>1, <3>2, AckStep DEF CommitAnswered, Waiting
      <3>3. CASE ~Acknowledged
        BY <3>1, <3>3, TakeJobStep, StreamStep, RequestStep, FailStep, FinishStep
           DEF Sender, SenderExits, Idle
      <3> QED BY <3>2, <3>3
    <2>3. ctl'.phase = "ending" /\ ctl'.commit /\ ctl'.res = "ok" => CommitAnswered
      <3>1. SUFFICES ASSUME ctl'.phase = "ending", ctl'.commit, ctl'.res = "ok" PROVE CommitAnswered
        OBVIOUS
      <3>2. CASE ctl'.res = ctl.res
        BY <1>u, <3>1, <3>2 DEF CommitAnswered
      <3>3. CASE ctl'.res # ctl.res
        <4>1. FinishJob
          BY <3>3, FailStep DEF Sender, TakeJob, SenderExits, StreamChunk, Request, Acknowledged
        <4>2. /\ snd.pc = "finish" /\ snd.job.type # "WRITE" /\ snd.job.f \notin Files
              /\ ctl'.res = IF snd.ok THEN "ok" ELSE "fail"
          BY <3>3, <4>1, FinishStep
        <4>3. snd.job \in Jobs /\ JobOK(snd.job) BY <4>2 DEF Typed, Senders, SenderInv, JobsInv, Held
        <4>4. snd.job.f = "recording" BY <4>2, <4>3 DEF Jobs
        <4>5. snd.job.type = "COMMIT" BY <1>u, <3>1, <4>3, <4>4 DEF JobOK
        <4> QED BY <3>1, <4>2, <4>5 DEF CommitAnswered
      <3> QED BY <3>2, <3>3
    <2>4. ctl'.complete => CommitAnswered BY <1>u DEF CommitAnswered
    <2> QED BY <2>1, <2>2, <2>3, <2>4 DEF CommitAnswered, CommitInv
  <1> QED BY <1>1, <1>2, <1>3, <1>4, <1>u DEF CommitInv, FinalIsWhole, AllFinal

LEMMA RecordingCommit ==
  ASSUME Typed, LinkInv, SenderInv, AcksInv, WireInv, CommitInv, Recording
  PROVE  CommitInv'
  <1>0. ctl \in Recordings BY DEF Typed
  <1>k. UNCHANGED <<conn, wire, acks, cli>>
    BY DEF Recording, Begin, StartRecording, StartFails, StopRecording, EndRecording, EndAnswered,
           JoinSender, Control, link
  <1>1. CASE Begin
    <2>1. ~ctl.failed /\ snd.pc \notin Waiting BY <1>1 DEF Begin, LinkInv, SenderInv, Waiting
    <2>2. cli.up => \A i \in DOMAIN wire : wire[i].type = "WRITE" BY <2>1, Quiet
    <2>3. \A f \in Files : disk'[f].name = "none" BY <1>1 DEF Begin, NoFile
    <2>4. ctl'.phase = "starting" /\ ~ctl'.complete BY <1>0, <1>1 DEF Begin, Control, Recordings
    <2>5. snd'.pc = "idle" BY <1>1 DEF Begin, Idle
    <2> QED BY <1>k, <2>2, <2>3, <2>4, <2>5 DEF CommitInv, FinalIsWhole, CommitAnswered
  <1>2. CASE StartRecording \/ StartFails \/ StopRecording \/ EndRecording
    <2>1. UNCHANGED <<file, snd, disk>>
      BY <1>2 DEF StartRecording, StartFails, StopRecording, EndRecording
    <2>2. /\ ctl.phase \in {"starting", "recording", "stopping", "givingUp"}
          /\ ctl'.complete = ctl.complete
          /\ ctl'.phase = "ending" => ctl'.res = "wait"
      BY <1>0, <1>2 DEF StartRecording, StartFails, StopRecording, EndRecording, Control, Recordings
    <2>3. ~Over BY <2>2 DEF Over
    <2>4. CommitAnswered' => CommitAnswered BY <1>k, <2>1, <2>2 DEF CommitAnswered
    <2> QED BY <1>k, <2>1, <2>3, <2>4 DEF CommitInv, FinalIsWhole, AllFinal
  <1>3. CASE EndAnswered \/ JoinSender
    <2>1. UNCHANGED <<file, queue, snd, disk>> BY <1>3 DEF EndAnswered, JoinSender
    <2>2. /\ ctl'.phase \in {"joining", "idle"}
          /\ ctl'.complete => ctl.complete \/ (ctl.phase = "ending" /\ ctl.commit /\ ctl.res = "ok")
      BY <1>0, <1>3 DEF EndAnswered, JoinSender, Control, Recordings
    <2>3. Over => Over' BY <2>1, <2>2 DEF Over
    <2>4. CommitAnswered' => CommitAnswered BY <1>k, <2>1, <2>2 DEF CommitAnswered
    <2>5. \A f \in Files : Whole(f)' = Whole(f) BY <2>1 DEF Whole
    <2> QED BY <1>k, <2>1, <2>3, <2>4, <2>5 DEF CommitInv, FinalIsWhole, AllFinal
  <1> QED BY <1>1, <1>2, <1>3 DEF Recording

(* A receiver that fails never answers yes.                                *)
LEMMA AnswerFalse ==
  ASSUME Typed, AcksInv, ReceiveFails, ~ctl.failed
  PROVE  acks' # <<TRUE>>
  <1>1. /\ cli.up /\ wire # <<>>
        /\ acks' = (IF conn = "up" THEN Append(acks, FALSE) ELSE acks)
    BY DEF ReceiveFails
  <1>2. acks # <<TRUE>> BY <1>1 DEF AcksInv
  <1>3. CASE conn = "up"
    <2>1. acks = <<>> BY <1>2, <1>3 DEF AcksInv
    <2>2. Append(<<>>, FALSE) = <<FALSE>> OBVIOUS
    <2>3. acks' = <<FALSE>> BY <1>1, <1>3, <2>1, <2>2, Zenon
    <2>4. <<TRUE>>[1] = TRUE /\ <<FALSE>>[1] = FALSE OBVIOUS
    <2> QED BY <2>3, <2>4, Zenon
  <1>4. CASE conn # "up"
    BY <1>1, <1>2, <1>4
  <1> QED BY <1>3, <1>4

LEMMA EnvironmentCommit ==
  ASSUME Typed, LinkInv, SenderInv, ProxyInv, JobsInv, AcksInv, WireInv, DiskInv, CommitInv, Environment
  PROVE  CommitInv'
  <1>0. cli \in Receivers /\ disk \in [Files -> DiskFiles] BY DEF Typed
  <1>r. "recording" \notin Files BY LocalSaveAssumption
  <1>u. /\ UNCHANGED <<file, queue, snd>>
        /\ ctl'.phase = ctl.phase /\ ctl'.commit = ctl.commit /\ ctl'.res = ctl.res
        /\ ctl'.record = ctl.record /\ ctl'.complete = ctl.complete
    BY EnvironmentFile
  <1>o. Over' <=> Over BY <1>u DEF Over
  <1>w. \A f \in Files : Whole(f)' = Whole(f) BY <1>u DEF Whole
  <1>a. CommitAnswered' =>
          CommitAnswered \/ (snd.pc = "asking" /\ acks' = <<TRUE>> /\ snd.job.type = "COMMIT")
    BY <1>u DEF CommitAnswered
  <1>1. CASE Attach \/ NetworkFails \/ Detach \/ ReceiverEnds
    <2>1. /\ disk' = disk /\ (acks' = acks \/ acks' = <<>>)
          /\ wire' = <<>> \/ (wire' = wire /\ cli' = cli)
      BY <1>1 DEF Attach, NetworkFails, Detach, ReceiverEnds
    <2>2. CommitAnswered' => CommitAnswered
      <3>1. acks' = <<TRUE>> => acks = <<TRUE>>
        <4>1. <<>> # <<TRUE>> OBVIOUS
        <4> QED BY <2>1, <4>1, Zenon
      <3> QED BY <1>a, <3>1 DEF CommitAnswered
    <2> QED BY <1>o, <1>w, <2>1, <2>2 DEF CommitInv, FinalIsWhole, AllFinal
  <1>2. CASE ReceiveFails
    <2>1. ~cli'.up /\ cli.up /\ wire # <<>> BY <1>0, <1>2 DEF ReceiveFails, Hangs, Receivers
    <2>2. CommitAnswered' => CommitAnswered
      <3>1. snd.pc = "asking" => acks' # <<TRUE>>
        BY <1>2, AnswerFalse DEF SenderInv, Waiting
      <3> QED BY <1>a, <3>1
    <2>3. CASE disk' = disk
      BY <1>o, <1>w, <2>1, <2>2, <2>3 DEF CommitInv, FinalIsWhole, AllFinal
    <2>4. CASE disk' # disk
      <3>1. Head(wire).type = "COMMIT" BY <1>2, <2>4 DEF ReceiveFails
      <3>2. PICK renamed \in SUBSET cli.closed :
              disk' = [f \in Files |-> IF f \in renamed THEN [disk[f] EXCEPT !.name = "final"]
                                       ELSE disk[f]]
        BY <1>2, <2>4 DEF ReceiveFails
      <3>3. ASSUME NEW f \in Files
            PROVE  /\ disk'[f].data = disk[f].data
                   /\ disk[f].name = "final" => disk'[f].name = "final"
                   /\ disk'[f].name = "final" => disk[f].name = "final" \/ f \in cli.closed
        <4>1. disk[f] \in DiskFiles BY <1>0
        <4>2. disk'[f] = IF f \in renamed THEN [disk[f] EXCEPT !.name = "final"] ELSE disk[f]
          BY <3>2
        <4> QED BY <3>2, <4>1, <4>2 DEF DiskFiles
      <3>4. Over
        <4>1. 1 \in DOMAIN wire /\ wire[1] = Head(wire) BY <2>1 DEF Typed
        <4> QED BY <2>1, <3>1, <4>1 DEF CommitInv
      <3>5. \A f \in cli.closed : disk[f].data = Whole(f)
        BY <1>0, <2>1 DEF DiskInv, Closes, Closing, Receivers
      <3> QED BY <1>o, <1>w, <2>1, <2>2, <3>3, <3>4, <3>5 DEF CommitInv, FinalIsWhole, AllFinal
    <2> QED BY <2>3, <2>4
  <1>3. CASE Receive
    <2>u. ctl' = ctl /\ cli.up /\ wire # <<>> /\ wire' = Tail(wire) /\ Apply(Head(wire))
      BY <1>3 DEF Receive
    <2>h. PICK h \in Jobs : h = Head(wire) BY <2>u, WireTail
    <2>1. h = wire[1] /\ 1 \in DOMAIN wire /\ FrameOK(1) /\ Apply(h)
      BY <2>u, <2>h, WireTail DEF WireInv
    <2>2. \A f \in Files : disk[f].name # "final" BY <2>u DEF CommitInv
    <2>3. CASE h.type = "COMMIT"
      <3>1. wire' = <<>> BY <2>u, <2>1, <2>3, WireTail DEF FrameOK
      <3>2. Over BY <2>u, <2>1, <2>3 DEF CommitInv
      <3>3. /\ cli.open = {} /\ cli.closed \subseteq Files
            /\ \A g \in Files : disk'[g].data = disk[g].data
            /\ \A g \in cli.closed : disk'[g].name = "final"
            /\ \A g \in Files \ cli.closed : disk'[g].name = disk[g].name
        BY <1>0, <2>u, <2>1, <2>3, ApplyEffect DEF Receivers
      <3>4. \A f \in cli.closed : disk[f].data = Whole(f)
        BY <2>u, <3>3 DEF DiskInv, Closes, Closing
      <3>5. FinalIsWhole' BY <1>w, <2>2, <3>3, <3>4 DEF FinalIsWhole
      <3>6. CommitAnswered' => AllFinal'
        <4>1. CASE CommitAnswered
          BY <2>2, <4>1 DEF CommitInv, AllFinal
        <4>2. CASE snd.pc = "asking" /\ acks' = <<TRUE>> /\ snd.job.type = "COMMIT"
          <5>1. snd.job \in Jobs /\ JobOK(snd.job) BY <4>2 DEF Typed, Senders, SenderInv, JobsInv, Held
          <5>2. snd.job.f = "recording" BY <4>2, <5>1 DEF Jobs
          <5>3. ctl.phase = "ending" /\ ctl.commit BY <4>2, <5>1, <5>2 DEF JobOK
          <5>4. ctl.record /\ \A f \in Files : Current(f) BY <5>3 DEF LinkInv, ProxyInv, Phase, Current
          <5>5. \A f \in Files : f \in cli.closed BY <2>u, <2>2, <3>3, <5>4 DEF DiskInv, Opens
          <5> QED BY <3>3, <5>5 DEF AllFinal
        <4> QED BY <1>a, <4>1, <4>2
      <3> QED BY <1>o, <3>1, <3>2, <3>5, <3>6 DEF CommitInv
    <2>4. CASE h.type # "COMMIT"
      <3>1. \A f \in Files : disk'[f].name # "final"
        <4>1. \A f \in Files : disk'[f].name = disk[f].name \/ disk'[f].name = "partial"
          BY <2>u, <2>1, <2>4, ApplyEffect DEF Jobs
        <4> QED BY <2>2, <4>1
      <3>2. (\E i \in DOMAIN wire' : wire'[i].type = "COMMIT") =>
              \E i \in DOMAIN wire : wire[i].type = "COMMIT"
        BY <2>u, WireTail
      <3>3. CommitAnswered' => CommitAnswered
        <4>1. ASSUME snd.pc = "asking", acks' = <<TRUE>>, snd.job.type = "COMMIT" PROVE FALSE
          <5>1. h = snd.job BY <1>3, <2>h, <4>1, ReceiveAnswers DEF Waiting, Asked
          <5> QED BY <2>4, <4>1, <5>1
        <4> QED BY <1>a, <4>1
      <3>4. CommitAnswered => AllFinal' BY <2>2 DEF CommitInv, AllFinal
      <3> QED BY <1>o, <2>u, <3>1, <3>2, <3>3, <3>4 DEF CommitInv, FinalIsWhole
    <2> QED BY <2>3, <2>4
  <1> QED BY <1>1, <1>2, <1>3 DEF Environment

-----------------------------------------------------------------------------
(* The queue keeps its limit.                                              *)

WriteAt(s) == {i \in DOMAIN s : s[i].type = "WRITE"}

InHand == IF snd.pc \in {"exited", "idle"} THEN <<>> ELSE <<snd.job>>

(* Counting the writes in a sequence of jobs.                              *)
LEMMA WritesType ==
  ASSUME NEW s \in Seq(Jobs)
  PROVE  /\ IsFiniteSet(WriteAt(s)) /\ Writes(s) = Cardinality(WriteAt(s))
         /\ Writes(s) \in Nat
  <1>1. IsFiniteSet(1 .. Len(s)) BY FS_Interval
  <1>2. WriteAt(s) \in SUBSET (1 .. Len(s)) BY DEF WriteAt
  <1>3. IsFiniteSet(WriteAt(s)) BY <1>1, <1>2, FS_Subset
  <1>4. Writes(s) = Cardinality(WriteAt(s)) BY DEF Writes, WriteAt
  <1> QED BY <1>3, <1>4, FS_CardinalityType

LEMMA WritesAppend ==
  ASSUME NEW s \in Seq(Jobs), NEW j \in Jobs
  PROVE  Writes(Append(s, j)) = Writes(s) + (IF j.type = "WRITE" THEN 1 ELSE 0)
  <1>1. Append(s, j) \in Seq(Jobs) OBVIOUS
  <1>2. CASE j.type = "WRITE"
    <2>1. WriteAt(Append(s, j)) = WriteAt(s) \cup {Len(s) + 1} BY <1>2 DEF WriteAt
    <2>2. Len(s) + 1 \notin WriteAt(s) BY DEF WriteAt
    <2>3. Cardinality(WriteAt(s) \cup {Len(s) + 1}) = Cardinality(WriteAt(s)) + 1
      BY <2>2, WritesType, FS_AddElement
    <2> QED BY <1>1, <1>2, <2>1, <2>3, WritesType
  <1>3. CASE j.type # "WRITE"
    <2>1. WriteAt(Append(s, j)) = WriteAt(s) BY <1>3 DEF WriteAt
    <2>2. Writes(Append(s, j)) = Cardinality(WriteAt(Append(s, j))) BY <1>1, WritesType
    <2>3. Writes(s) = Cardinality(WriteAt(s)) /\ Writes(s) \in Nat BY WritesType
    <2>4. Writes(Append(s, j)) = Writes(s) BY <2>1, <2>2, <2>3
    <2> QED BY <1>3, <2>3, <2>4
  <1> QED BY <1>2, <1>3

LEMMA WritesTail ==
  ASSUME NEW s \in Seq(Jobs), s # <<>>
  PROVE  Writes(s) = Writes(Tail(s)) + (IF Head(s).type = "WRITE" THEN 1 ELSE 0)
  <1> DEFINE t == Tail(s)
             T == WriteAt(t)
             S == WriteAt(s) \ {1}
             g == [i \in T |-> i + 1]
  <1>1. /\ t \in Seq(Jobs) /\ Head(s) = s[1] /\ 1 \in DOMAIN s
        /\ \A i \in DOMAIN t : i \in Nat /\ i >= 1 /\ i + 1 \in DOMAIN s /\ t[i] = s[i + 1]
        /\ \A i \in DOMAIN s : i \in Nat /\ (i = 1 \/ (i - 1 \in DOMAIN t /\ t[i - 1] = s[i]))
    OBVIOUS
  <1> HIDE DEF t
  <1>2. /\ \A i \in T : i \in Nat /\ i >= 1 /\ i + 1 \in S
        /\ \A k \in S : k \in Nat /\ k - 1 \in T
    BY <1>1 DEF WriteAt
  <1>3. g \in Bijection(T, S)
    <2>1. g \in [T -> S] BY <1>2
    <2>2. \A i, k \in T : g[i] = g[k] => i = k
      <3> TAKE i, k \in T
      <3>1. g[i] = i + 1 /\ g[k] = k + 1 /\ i \in Nat /\ k \in Nat BY <1>2
      <3> QED BY <3>1
    <2>3. \A k \in S : \E i \in T : g[i] = k
      <3> TAKE k \in S
      <3>1. k \in Nat /\ k - 1 \in T BY <1>2
      <3>2. g[k - 1] = k BY <3>1
      <3> QED BY <3>1, <3>2
    <2> QED BY <2>1, <2>2, <2>3 DEF Bijection, Injection, Surjection, IsInjective
  <1>4. ExistsBijection(T, S) BY <1>3 DEF ExistsBijection
  <1> HIDE DEF g
  <1>5. IsFiniteSet(T) /\ Writes(t) = Cardinality(T) BY <1>1, WritesType
  <1>6. Cardinality(S) = Cardinality(T) BY <1>4, <1>5, FS_Bijection
  <1>7. Cardinality(S) = IF 1 \in WriteAt(s) THEN Cardinality(WriteAt(s)) - 1 ELSE Cardinality(WriteAt(s))
    BY WritesType, FS_RemoveElement
  <1>8. 1 \in WriteAt(s) <=> Head(s).type = "WRITE" BY <1>1 DEF WriteAt
  <1>9. Cardinality(WriteAt(s)) \in Nat /\ Writes(s) = Cardinality(WriteAt(s)) BY WritesType
  <1> QED BY <1>5, <1>6, <1>7, <1>8, <1>9 DEF t

LEMMA WritesOne ==
  /\ Writes(<<>>) = 0
  /\ \A j \in Jobs : Writes(<<j>>) = IF j.type = "WRITE" THEN 1 ELSE 0
  <1>1. <<>> \in Seq(Jobs) /\ WriteAt(<<>>) = {} BY DEF WriteAt
  <1>2. Writes(<<>>) = 0 BY <1>1, WritesType, FS_EmptySet
  <1>3. ASSUME NEW j \in Jobs PROVE Writes(<<j>>) = IF j.type = "WRITE" THEN 1 ELSE 0
    <2>1. Append(<<>>, j) = <<j>> OBVIOUS
    <2>2. Writes(Append(<<>>, j)) = Writes(<<>>) + (IF j.type = "WRITE" THEN 1 ELSE 0)
      BY <1>1, WritesAppend
    <2>3. Writes(<<j>>) = 0 + (IF j.type = "WRITE" THEN 1 ELSE 0) BY <1>2, <2>1, <2>2
    <2> QED BY <2>3
  <1> QED BY <1>2, <1>3

Limited == Queued <= QueueLimit

(* A step that appends at most one job, a write only when there is room.   *)
LEMMA LimitedAppend ==
  ASSUME Typed, SenderInv, Limited, snd' = snd,
         \/ queue' = queue
         \/ \E j \in Jobs : queue' = Append(queue, j) /\ (j.type = "WRITE" => Room)
  PROVE  Limited'
  <1>1. queue \in Seq(Jobs) /\ InHand \in Seq(Jobs)
    BY DEF Typed, Senders, SenderInv, InHand
  <1>2. Queued = Writes(queue) + Writes(InHand) BY DEF Queued, InHand
  <1>3. Queued' = Writes(queue') + Writes(InHand) BY DEF Queued, InHand, Writes
  <1>4. Writes(queue) \in Nat /\ Writes(InHand) \in Nat /\ QueueLimit \in Nat
    BY <1>1, WritesType, LocalSaveAssumption
  <1>5. CASE queue' = queue
    BY <1>2, <1>3, <1>5 DEF Limited
  <1>6. ASSUME NEW j \in Jobs, queue' = Append(queue, j), j.type = "WRITE" => Room PROVE Limited'
    <2>1. Writes(queue') = Writes(queue) + (IF j.type = "WRITE" THEN 1 ELSE 0)
      BY <1>1, <1>6, WritesAppend
    <2>2. j.type = "WRITE" => Queued < QueueLimit BY <1>6 DEF Room
    <2>3. Queued' <= QueueLimit BY <1>2, <1>3, <1>4, <2>1, <2>2 DEF Limited
    <2> QED BY <2>3 DEF Limited
  <1> QED BY <1>5, <1>6

LEMMA LimitedStep ==
  ASSUME Typed, LinkInv, SenderInv, ProxyInv, JobsInv, AcksInv, Limited, Next
  PROVE  Limited'
  <1>0. queue \in Seq(Jobs) /\ snd.job \in Jobs \cup {<<>>} BY DEF Typed, Senders
  <1>1. ASSUME NEW f \in Files, ProxyStep(f) PROVE Limited'
    <2>1. snd' = snd BY <1>1, ProxyForward DEF Aside
    <2>2. CASE Flush(f)
      <3>1. PICK j \in Jobs : j = Job("WRITE", f, file[f].cache) BY <2>2, FlushStep, JobTyped
      <3>2. queue' = queue \/ (queue' = Append(queue, j) /\ Room)
        BY <2>2, <3>1 DEF Flush, Enqueue, Refuse, Job
      <3> QED BY <2>1, <3>2, LimitedAppend
    <2>3. CASE ~Flush(f)
      <3>1. \A type \in {"OPEN", "CLOSE", "ABORT"} :
              Job(type, f, <<>>) \in Jobs /\ Job(type, f, <<>>).type # "WRITE"
        BY JobTyped DEF Job
      <3>2. \/ queue' = queue
            \/ \E type \in {"OPEN", "CLOSE", "ABORT"} : queue' = Append(queue, Job(type, f, <<>>))
        BY <1>1, <2>3 DEF ProxyStep, OpenFile, Opened, Put, Rewrite, CloseFile, CloseAnswered,
                          AbortFile, Aborted, Ask, Enqueue, Refuse
      <3> QED BY <2>1, <3>1, <3>2, LimitedAppend
    <2> QED BY <2>2, <2>3
  <1>2. CASE Sender
    <2>l. QueueLimit \in Nat BY LocalSaveAssumption
    <2>h. /\ Queued = Writes(queue) + Writes(InHand)
          /\ Queued' = Writes(queue') + Writes(InHand')
          /\ InHand \in Seq(Jobs)
      BY DEF Queued, InHand, Writes, Typed, Senders, SenderInv
    <2>1. CASE TakeJob
      <3>1. /\ snd.pc = "idle" /\ queue # <<>> /\ queue' = Tail(queue) /\ Head(queue) \in Jobs
            /\ snd'.job = Head(queue) /\ snd'.pc \in {"stream", "sync", "control"}
        BY <2>1, TakeJobStep
      <3>2. InHand = <<>> /\ InHand' = <<Head(queue)>> BY <3>1 DEF InHand
      <3>3. Writes(InHand) = 0 BY <3>2, WritesOne
      <3>4. Writes(InHand') = IF Head(queue).type = "WRITE" THEN 1 ELSE 0 BY <3>1, <3>2, WritesOne
      <3>5. Writes(queue) = Writes(queue') + (IF Head(queue).type = "WRITE" THEN 1 ELSE 0)
        BY <1>0, <3>1, WritesTail
      <3>6. queue' \in Seq(Jobs) BY <1>0, <3>1
      <3>7. Writes(queue') \in Nat BY <3>6, WritesType
      <3>8. Queued' = Queued BY <2>h, <3>3, <3>4, <3>5, <3>7
      <3> QED BY <3>8 DEF Limited
    <2>2. CASE SenderExits \/ FinishJob
      <3>1. queue' = queue /\ snd'.pc \in {"idle", "exited"}
        BY <2>2, FinishStep DEF SenderExits, Idle
      <3>2. InHand' = <<>> BY <3>1 DEF InHand
      <3>3. Writes(InHand') = 0 BY <3>2, WritesOne
      <3>4. Writes(queue) \in Nat /\ Writes(InHand) \in Nat BY <1>0, <2>h, WritesType
      <3>5. Queued' <= Queued /\ Queued \in Nat /\ Queued' \in Nat BY <2>h, <3>1, <3>3, <3>4
      <3> QED BY <2>l, <3>5 DEF Limited
    <2>3. CASE Busy
      <3>1. /\ snd'.job = snd.job /\ queue' = queue
            /\ snd'.pc \notin {"exited", "idle"} /\ snd.pc \notin {"exited", "idle"}
        BY <2>3, BusyKeepsJob
           DEF Busy, StreamChunk, Request, SendFails, Acknowledged, NotAcknowledged
      <3>2. InHand' = InHand BY <3>1 DEF InHand
      <3> QED BY <2>h, <3>1, <3>2 DEF Limited
    <2> QED BY <1>2, <2>1, <2>2, <2>3 DEF Sender, Busy
  <1>3. CASE Begin
    <2>1. queue' = <<>> /\ snd'.pc = "idle" BY <1>3 DEF Begin, Idle
    <2>2. Queued' = Writes(<<>>) + Writes(<<>>) BY <2>1 DEF Queued, Writes
    <2>3. Queued' = 0 BY <2>2, WritesOne
    <2> QED BY <2>3, LocalSaveAssumption DEF Limited
  <1>4. CASE Recording /\ ~Begin
    <2>1. snd' = snd
      BY <1>4 DEF Recording, StartRecording, StartFails, StopRecording, EndRecording, EndAnswered,
                  JoinSender
    <2> QED BY <1>4, <2>1, RecordingQueue, LimitedAppend
  <1>5. CASE Environment
    BY <1>5, EnvironmentFile, LimitedAppend
  <1> QED BY <1>1, <1>2, <1>3, <1>4, <1>5 DEF Next

-----------------------------------------------------------------------------
(* The theorems.                                                           *)

(* The invariant holds at the start and every step keeps it, one case per  *)
(* actor.                                                                  *)
LEMMA InitIInv == Init => IInv /\ Limited
  <1>1. Init => IInv
    BY InitTyped, InitLink, InitProxy, InitWire, InitDisk, InitLost, InitCommit
       DEF IInv, JobsInv, Init, Held, Idle
  <1>2. Init => Limited
    <2>1. SUFFICES ASSUME Init PROVE Limited OBVIOUS
    <2>2. queue = <<>> /\ snd.pc = "exited" BY <2>1 DEF Init, Idle
    <2>3. Queued = 0 BY <2>2, WritesOne DEF Queued
    <2> QED BY <2>3, LocalSaveAssumption DEF Limited
  <1> QED BY <1>1, <1>2

LEMMA StepIInv ==
  ASSUME IInv, Limited, [Next]_vars
  PROVE  IInv' /\ Limited'
  <1>i. /\ Typed /\ LinkInv /\ SenderInv /\ ProxyInv /\ JobsInv
        /\ AcksInv /\ WireInv /\ DiskInv /\ NothingLost /\ CommitInv
    BY DEF IInv
  <1>t. Typed' BY <1>i, TypedStep
  <1>1. ASSUME NEW f \in Files, ProxyStep(f) PROVE IInv' /\ Limited'
    <2>1. LinkInv' /\ SenderInv' BY <1>1, <1>i, ProxyLink
    <2>2. ProxyInv' BY <1>1, <1>i, ProxyProxy
    <2>3. JobsInv' BY <1>1, <1>i, ProxyJobs
    <2>4. AcksInv' /\ WireInv' BY <1>1, <1>i, ProxyWire
    <2>5. DiskInv' BY <1>1, <1>i, ProxyDisk
    <2>6. NothingLost' BY <1>1, <1>i, ProxyLost
    <2>7. CommitInv' BY <1>1, <1>i, ProxyCommit
    <2>8. Limited' BY <1>1, <1>i, LimitedStep DEF Next
    <2> QED BY <1>t, <2>1, <2>2, <2>3, <2>4, <2>5, <2>6, <2>7, <2>8 DEF IInv
  <1>2. CASE Sender
    <2>1. LinkInv' /\ SenderInv' BY <1>2, <1>i, SenderLink, SenderSender
    <2>2. ProxyInv' BY <1>2, <1>i, SenderProxy
    <2>3. JobsInv' BY <1>2, <1>i, SenderJobs
    <2>4. AcksInv' /\ WireInv' BY <1>2, <1>i, SenderWire
    <2>5. DiskInv' BY <1>2, <1>i, SenderDisk
    <2>6. NothingLost' BY <1>2, <1>i, SenderLost
    <2>7. CommitInv' BY <1>2, <1>i, SenderCommit
    <2>8. Limited' BY <1>2, <1>i, LimitedStep DEF Next
    <2> QED BY <1>t, <2>1, <2>2, <2>3, <2>4, <2>5, <2>6, <2>7, <2>8 DEF IInv
  <1>3. CASE Recording
    <2>1. LinkInv' /\ SenderInv' BY <1>3, <1>i, RecordingLink
    <2>2. ProxyInv' BY <1>3, <1>i, RecordingProxy
    <2>3. JobsInv' BY <1>3, <1>i, RecordingJobs
    <2>4. AcksInv' /\ WireInv' BY <1>3, <1>i, RecordingWire
    <2>5. DiskInv' BY <1>3, <1>i, RecordingDisk
    <2>6. NothingLost' BY <1>3, <1>i, RecordingLost
    <2>7. CommitInv' BY <1>3, <1>i, RecordingCommit
    <2>8. Limited' BY <1>3, <1>i, LimitedStep DEF Next
    <2> QED BY <1>t, <2>1, <2>2, <2>3, <2>4, <2>5, <2>6, <2>7, <2>8 DEF IInv
  <1>4. CASE Environment
    <2>1. LinkInv' /\ SenderInv' BY <1>4, <1>i, EnvironmentLink
    <2>2. ProxyInv' BY <1>4, <1>i, EnvironmentProxy
    <2>3. JobsInv' BY <1>4, <1>i, EnvironmentJobs
    <2>4. AcksInv' /\ WireInv' BY <1>4, <1>i, EnvironmentWire
    <2>5. DiskInv' BY <1>4, <1>i, EnvironmentDisk
    <2>6. NothingLost' BY <1>4, <1>i, EnvironmentLost
    <2>7. CommitInv' BY <1>4, <1>i, EnvironmentCommit
    <2>8. Limited' BY <1>4, <1>i, LimitedStep DEF Next
    <2> QED BY <1>t, <2>1, <2>2, <2>3, <2>4, <2>5, <2>6, <2>7, <2>8 DEF IInv
  <1>5. CASE UNCHANGED vars
    <2>0. UNCHANGED <<ctl, file, queue, snd, conn, wire, acks, cli, disk>> BY <1>5 DEF vars
    <2>1. LinkInv' /\ SenderInv' BY <1>i, <2>0 DEF LinkInv, SenderInv
    <2>2. ProxyInv' BY <1>i, <2>0 DEF ProxyInv, Phase, Cached, Turn, Current, Empty, Others
    <2>3. JobsInv'
      <3>1. \A k \in Jobs : JobOK(k) => JobOK(k)' BY <2>0 DEF JobOK, Asks, Current, WriteOK
      <3> QED BY <1>i, <2>0, <3>1, JobsKept
    <2>4. AcksInv' /\ WireInv'
      <3>1. \A i \in DOMAIN wire : FrameOK(i) => FrameOK(i)'
        BY <2>0 DEF FrameOK, Asked, Current, WriteOK
      <3> QED BY <1>i, <2>0, <3>1 DEF AcksInv, WireInv
    <2>5. DiskInv'
      <3>1. ASSUME NEW f \in Files, Opens(f) PROVE Opens(f)'
        <4>1. OpenAnswered(f)' <=> OpenAnswered(f) BY <2>0 DEF OpenAnswered
        <4>2. NoWrites(wire, f)' <=> NoWrites(wire, f) BY <2>0 DEF NoWrites
        <4>3. Current(f)' <=> Current(f) BY <2>0 DEF Current
        <4> QED BY <2>0, <3>1, <4>1, <4>2, <4>3 DEF Opens
      <3>2. \A f \in Files : Closes(f) => Closes(f)'
        BY <2>0 DEF Closes, Closing, Current, Whole, NoWrites, IsWrite
      <3> QED BY <1>i, <2>0, <3>1, <3>2 DEF DiskInv
    <2>6. NothingLost'
      <3>1. ASSUME NEW f \in Files, NEW p, Arrives(f, p, Version(f, p))
            PROVE  Arrives(f, p, Version(f, p))'
        <4>1. PICK v : v = Version(f, p) OBVIOUS
        <4>2. Version(f, p)' = v BY <2>0, <4>1 DEF Version
        <4>3. Arrives(f, p, v) BY <3>1, <4>1
        <4>4. Left(f, p, v) => Left(f, p, v)' BY <1>i, <2>0, LeftAppend
        <4>5. Arrives(f, p, v)' BY <2>0, <4>3, <4>4 DEF Arrives
        <4> QED BY <4>2, <4>5
      <3> QED BY <1>i, <2>0, <3>1 DEF NothingLost, Live
    <2>7. CommitInv'
      <3>1. CommitAnswered' <=> CommitAnswered BY <2>0 DEF CommitAnswered
      <3>2. (Over' <=> Over) /\ (AllFinal' <=> AllFinal) /\ (FinalIsWhole' <=> FinalIsWhole)
        BY <2>0 DEF Over, AllFinal, FinalIsWhole, Whole
      <3> QED BY <1>i, <2>0, <3>1, <3>2 DEF CommitInv
    <2>8. Limited' BY <1>i, <2>0, LimitedAppend
    <2> QED BY <1>t, <2>1, <2>2, <2>3, <2>4, <2>5, <2>6, <2>7, <2>8 DEF IInv
  <1> QED BY <1>1, <1>2, <1>3, <1>4, <1>5 DEF Next

LEMMA LocalSaveInvariant == Spec => [](IInv /\ Limited)
  <1>1. Init => IInv /\ Limited BY InitIInv
  <1>2. (IInv /\ Limited) /\ [Next]_vars => (IInv /\ Limited)' BY StepIInv
  <1> QED BY <1>1, <1>2, PTL DEF Spec

(* The recording's phases, the socket's states and the receiver's files    *)
(* are what they should be, the sender keeps to its window of unanswered   *)
(* writes, and the queue to its limit (gui_monitor_local_save.c:117-122).  *)
THEOREM LocalSaveTypeCorrect == Spec => []TypeOK
  <1>1. IInv /\ Limited => TypeOK
    <2>1. SUFFICES ASSUME IInv, Limited PROVE TypeOK OBVIOUS
    <2>2. ctl \in Recordings /\ snd \in Senders /\ cli \in Receivers /\ snd.out \in Nat
      BY <2>1 DEF IInv, Typed, Senders
    <2>3. snd.out <= Window /\ Window \in Nat
      <3>1. SenderInv BY <2>1 DEF IInv
      <3> QED BY <2>2, <3>1, LocalSaveAssumption DEF SenderInv
    <2>4. snd.out \in 0 .. Window BY <2>2, <2>3
    <2>5. Queued <= QueueLimit BY <2>1 DEF Limited
    <2>6. /\ ctl.phase \in {"idle", "starting", "recording", "givingUp", "stopping", "ending", "joining"}
          /\ cli.open \cup cli.closed \subseteq Files
      BY <2>2 DEF Recordings, Receivers
    <2>7. conn \in {"none", "up", "down"} /\ (ctl.active => conn # "none" /\ ~ctl.failed)
      BY <2>1 DEF IInv, Typed, LinkInv
    <2> QED BY <2>4, <2>5, <2>6, <2>7 DEF TypeOK
  <1> QED BY <1>1, LocalSaveInvariant, PTL

(* A file gets its final name only with everything that was written to it, *)
(* in its last version, however the network, the client and the threads    *)
(* are scheduled: a COMMIT is applied only to files whose CLOSE came after *)
(* their last write (monitor_local_save_files.c:76-103).                   *)
THEOREM FilesAreWhole == Spec => []FinalIsWhole
  <1>1. IInv => FinalIsWhole BY DEF IInv, CommitInv
  <1> QED BY <1>1, LocalSaveInvariant, PTL

(* A recording reported as committed has every file under its final name:  *)
(* a COMMIT answered in time is the client's answer to that COMMIT, and    *)
(* every file was opened and closed before it (gui_record.c:3480-3488).    *)
THEOREM CommitIsComplete == Spec => []CommittedIsFinal
  <1>1. IInv => CommittedIsFinal BY DEF IInv, CommitInv, CommitAnswered, AllFinal, CommittedIsFinal
  <1> QED BY <1>1, LocalSaveInvariant, PTL
=============================================================================
