------------------------------- MODULE Transfer -------------------------------
(***************************************************************************)
(* api_stream_transfer (src/api/src/api_stream_common.c): the calling task *)
(* writes to dst what a second task, the reader it posts, reads from src.  *)
(* They share a list of buffers and two counters by which the reader keeps *)
(* at most one wakeup of the writer under way.                             *)
(*                                                                         *)
(* Both tasks run on one loop, so a step is what one of them does from     *)
(* being resumed to suspending itself.  The wakeup is an async             *)
(* (api_async_wakeup): the loop resumes the writer wherever it is          *)
(* suspended, in the transfer or inside api_stream_write.  What a write    *)
(* does with such a wakeup depends on dst: a unix socket goes back to      *)
(* sleep, a unix file submits its bytes to aio once more, and on Windows   *)
(* the write ends short.  A chunk is written as a whole or not at all.     *)
(***************************************************************************)
EXTENDS Naturals, Sequences, SequencesExt

CONSTANTS
    MaxReads,       \* bound on the chunks read from src
    ChunkSize,      \* chunk_size
    MaxOutput       \* bound on output for requests that land unseen

ASSUME TransferAssumption ==
    MaxReads \in Nat /\ ChunkSize \in Nat \ {0} /\ MaxOutput \in Nat

VARIABLES
    dst,            \* what dst is: "socket" or "file" on unix, or "windows"
    reader,         \* where the reader is
    writer,         \* where the writer is
    buffers,        \* transfer.buffers
    writing,        \* the buffer api_stream_write was called with, or none
    flying,         \* aio requests under way for that buffer
    landed,         \* write.done is set since the last of them was submitted
    behind,         \* aio requests under way whose api_stream_write is over
    wakeups,        \* asyncs under way that will wake the writer
    req,            \* transfer.num_wakeup_req
    done,           \* transfer.num_wakeup_done
    readDone,       \* transfer.read_done
    total,          \* total
    wrote,          \* wrote
    input,          \* history: the chunks read from src
    told,           \* history: the chunks api_stream_write reported written
    output,         \* history: the chunks put into dst
    again           \* history: some chunk has been submitted once more

requests == <<flying, landed, behind>>
transferVars == <<dst, reader, writer, buffers, writing, requests, wakeups, req, done,
          readDone, total, wrote, input, told, output, again>>

(* A chunk is known by its place in the input and has a size. *)
Chunks == [id : 1..MaxReads, size : 1..ChunkSize]

TransferTypeOK ==
    /\ dst \in {"socket", "file", "windows"}
    /\ reader \in {"posted", "reading", "ended"}
    /\ writer \in {"asleep", "writing", "returned", "failed", "astray"}
    /\ buffers \in Seq(Chunks)
    /\ writing \in Seq(Chunks) /\ Len(writing) <= 1
    /\ flying \in Nat /\ behind \in Nat
    /\ landed \in BOOLEAN /\ again \in BOOLEAN
    /\ wakeups \in Nat
    /\ req \in Nat /\ done \in Nat
    /\ readDone \in BOOLEAN
    /\ total \in Nat
    /\ wrote \in 0..ChunkSize
    /\ input \in Seq(Chunks) /\ told \in Seq(Chunks) /\ output \in Seq(Chunks)

(* api_stream_transfer up to its first api_task_sleep *)
TransferInit ==
    /\ dst \in {"socket", "file", "windows"}
    /\ reader = "posted"
    /\ writer = "asleep"
    /\ buffers = <<>>
    /\ writing = <<>>
    /\ flying = 0 /\ landed = FALSE /\ behind = 0
    /\ wakeups = 0
    /\ req = 0 /\ done = 0
    /\ readDone = FALSE
    /\ total = 0
    /\ wrote = 0
    /\ input = <<>> /\ told = <<>> /\ output = <<>>
    /\ again = FALSE

-----------------------------------------------------------------------------
(* api_transfer_reader.  The transfer is a local variable of the writer:   *)
(* once it is gone the reader runs on dead memory, and is not followed.    *)

Shared == writer \in {"asleep", "writing"}

(* Mutation: the reader wakes the writer every time. *)
WakeAlways == wakeups' = wakeups + 1 /\ req' = req + 1

(* wake the writer, unless it still has a wakeup coming *)
WakeOnce ==
    IF done = req
    THEN wakeups' = wakeups + 1 /\ req' = req + 1
    ELSE UNCHANGED <<wakeups, req>>

ReaderStarts ==
    /\ reader = "posted"
    /\ reader' = "reading"
    /\ UNCHANGED <<dst, writer, buffers, writing, requests, wakeups, req, done, readDone,
                   total, wrote, input, told, output, again>>

(* api_stream_read returns a chunk; the reader queues it and reads again *)
ReadChunk(size) ==
    /\ reader = "reading" /\ Shared
    /\ Len(input) < MaxReads
    /\ LET c == [id |-> Len(input) + 1, size |-> size]
       IN  /\ buffers' = Append(buffers, c)
           /\ input' = Append(input, c)
    /\ WakeOnce
    /\ UNCHANGED <<dst, reader, writer, writing, requests, done, readDone, total, wrote,
                   told, output, again>>

(* Mutation: the end of src is not reported. *)
ReadEndSilent ==
    /\ reader = "reading" /\ Shared
    /\ reader' = "ended"
    /\ readDone' = TRUE
    /\ UNCHANGED <<dst, writer, buffers, writing, requests, wakeups, req, done, total,
                   wrote, input, told, output, again>>

(* api_stream_read returns 0: the end of src, or an error *)
ReadEnd ==
    /\ reader = "reading" /\ Shared
    /\ reader' = "ended"
    /\ readDone' = TRUE
    /\ WakeOnce
    /\ UNCHANGED <<dst, writer, buffers, writing, requests, done, total, wrote, input,
                   told, output, again>>

-----------------------------------------------------------------------------
(* The writer *)

(* Mutation: the writer returns when the reader is done, whatever is left. *)
NextBufferUnlessRead(bufs, w) ==
    /\ behind' = behind + flying /\ landed' = FALSE
    /\ IF bufs # <<>> /\ ~readDone
       THEN /\ writer' = "writing"
            /\ writing' = <<Head(bufs)>>
            /\ flying' = IF dst = "file" THEN 1 ELSE 0
            /\ buffers' = Tail(bufs)
            /\ UNCHANGED total
       ELSE /\ writer' = IF readDone THEN "returned" ELSE "asleep"
            /\ writing' = <<>> /\ flying' = 0
            /\ buffers' = bufs
            /\ total' = total + w

(* pop a buffer and call api_stream_write, or end the round; requests of   *)
(* the write that is over stay under way                                   *)
NextBuffer(bufs, w) ==
    /\ behind' = behind + flying /\ landed' = FALSE
    /\ IF bufs # <<>>
       THEN /\ writer' = "writing"
            /\ writing' = <<Head(bufs)>>
            /\ flying' = IF dst = "file" THEN 1 ELSE 0
            /\ buffers' = Tail(bufs)
            /\ UNCHANGED total
       ELSE /\ writer' = IF readDone THEN "returned" ELSE "asleep"
            /\ writing' = <<>> /\ flying' = 0
            /\ buffers' = <<>>
            /\ total' = total + w

(* the async resumes the writer in its own api_task_sleep *)
WriterWoken ==
    /\ writer = "asleep"
    /\ wakeups > 0
    /\ wakeups' = wakeups - 1
    /\ done' = done + 1
    /\ NextBuffer(buffers, wrote)
    /\ UNCHANGED <<dst, reader, req, readDone, wrote, input, told, output, again>>

(* the async resumes the writer inside the api_stream_write of a unix      *)
(* socket, which goes back to sleep: its data is not written yet           *)
WriteWoken ==
    /\ writer = "writing" /\ dst = "socket"
    /\ wakeups > 0
    /\ wakeups' = wakeups - 1
    /\ UNCHANGED <<dst, reader, writer, buffers, writing, requests, req, done, readDone,
                   total, wrote, input, told, output, again>>

(* on Windows that write returns without waiting for its request, and the  *)
(* transfer fails                                                          *)
WriteCutShort ==
    /\ writer = "writing" /\ dst = "windows"
    /\ wakeups > 0
    /\ wakeups' = wakeups - 1
    /\ writer' = "failed"
    /\ writing' = <<>>
    /\ buffers' = <<>>
    /\ UNCHANGED <<dst, reader, requests, req, done, readDone, total, wrote, input, told,
                   output, again>>

(* the api_stream_write of a socket, or on Windows, has written the buffer *)
WriteDone ==
    /\ writer = "writing" /\ dst # "file"
    /\ output' = output \o writing
    /\ told' = told \o writing
    /\ wrote' = writing[1].size
    /\ NextBuffer(buffers, writing[1].size)
    /\ UNCHANGED <<dst, reader, wakeups, req, done, readDone, input, again>>

(* api_stream_write has failed: what is left is freed *)
WriteFailed ==
    /\ writer = "writing"
    /\ writer' = "failed"
    /\ writing' = <<>>
    /\ buffers' = <<>>
    /\ UNCHANGED <<dst, reader, requests, wakeups, req, done, readDone, total, wrote, input,
                   told, output, again>>

-----------------------------------------------------------------------------
(* A unix file: aio writes the bytes and its thread wakes the writer, which *)
(* does not know that wakeup from the reader's.                            *)

(* aio_write_completion_handler of a request of this write *)
Land ==
    /\ writer = "writing" /\ flying > 0
    /\ flying' = flying - 1
    /\ landed' = TRUE
    /\ output' = output \o writing
    /\ wakeups' = wakeups + 1
    /\ UNCHANGED <<dst, reader, writer, buffers, writing, behind, req, done, readDone, total,
                   wrote, input, told, again>>

(* The handler of a request whose write is over: it works on a frame of    *)
(* the writer's stack that is gone, which may be the next write's by now.  *)
LandAstray ==
    /\ writer \in {"asleep", "writing", "returned"} /\ behind > 0
    /\ writer' = "astray"
    /\ behind' = behind - 1
    /\ wakeups' = wakeups + 1
    /\ UNCHANGED <<dst, reader, buffers, writing, flying, landed, req, done, readDone,
                   total, wrote, input, told, output, again>>

(* an async resumes the writer, and its bytes are written *)
FileWritten ==
    /\ writer = "writing" /\ dst = "file" /\ landed
    /\ wakeups > 0
    /\ wakeups' = wakeups - 1
    /\ told' = told \o writing
    /\ wrote' = writing[1].size
    /\ NextBuffer(buffers, writing[1].size)
    /\ UNCHANGED <<dst, reader, req, done, readDone, input, output, again>>

(* an async resumes the writer, and write.done is 0: the loop clears the   *)
(* request and submits the bytes again                                     *)
Resubmit ==
    /\ writer = "writing" /\ dst = "file" /\ ~landed
    /\ wakeups > 0
    /\ wakeups' = wakeups - 1
    /\ flying' = flying + 1
    /\ again' = TRUE
    /\ UNCHANGED <<dst, reader, writer, buffers, writing, landed, behind, req, done, readDone,
                   total, wrote, input, told, output>>

(* the same, while the handler of a request sets write.done after the      *)
(* writer has read it and before the writer clears it                      *)
ResubmitUnseen ==
    /\ writer = "writing" /\ dst = "file" /\ ~landed
    /\ wakeups > 0 /\ flying > 0 /\ Len(output) < MaxOutput
    /\ output' = output \o writing
    /\ again' = TRUE
    /\ UNCHANGED <<dst, reader, writer, buffers, writing, requests, wakeups, req, done,
                   readDone, total, wrote, input, told>>

TransferNext ==
    \/ ReaderStarts
    \/ \E size \in 1..ChunkSize : ReadChunk(size)
    \/ ReadEnd
    \/ WriterWoken \/ WriteWoken \/ WriteCutShort \/ WriteDone \/ WriteFailed
    \/ Land \/ LandAstray \/ FileWritten \/ Resubmit \/ ResubmitUnseen

TransferSpec == TransferInit /\ [][TransferNext]_transferVars

(* The loop runs the posted reader and delivers asyncs, src ends, dst      *)
(* accepts what is written to it, and aio finishes its requests.           *)
Fairness ==
    /\ WF_transferVars(ReaderStarts)
    /\ WF_transferVars(ReadEnd)
    /\ WF_transferVars(WriterWoken \/ WriteWoken \/ WriteCutShort
                       \/ FileWritten \/ Resubmit)
    /\ WF_transferVars(WriteDone)
    /\ WF_transferVars(Land)
    /\ WF_transferVars(LandAstray)

FairSpec == TransferSpec /\ Fairness

-----------------------------------------------------------------------------
(* Properties *)

(* What has been reported written, is being written and is queued is what  *)
(* has been read, in order, until a write fails.                           *)
InOrder ==
    /\ \A k \in DOMAIN input : input[k].id = k
    /\ IsPrefix(told, input)
    /\ writer # "failed" => told \o writing \o buffers = input

(* dst has got what was reported written, and the chunk that has landed,   *)
(* in order; a chunk that was submitted once more may be there repeatedly. *)
(* Requests that outlive their write come of submitting again only.        *)
OutputAgrees ==
    /\ again \/ IsPrefix(output, input)
    /\ behind > 0 \/ flying > 1 \/ (flying > 0 /\ landed) \/ writer = "astray" => again
    /\ writer \notin {"failed", "astray"} =>
        /\ again \/ output = told \o (IF landed THEN writing ELSE <<>>)
        /\ \A i, j \in DOMAIN output : i < j => output[i].id <= output[j].id
        /\ \A i \in DOMAIN output : output[i].id <= Len(told) + Len(writing)
        /\ \A k \in DOMAIN told : \E i \in DOMAIN output : output[i] = told[k]
        /\ landed => \E i \in DOMAIN output : output[i] = writing[1]

(* The counters allow for one wakeup under way at a time.  A unix socket   *)
(* may have swallowed it; a file passes every one on, as a further request *)
(* with a wakeup of its own.                                               *)
OneWakeup ==
    /\ req - done <= 1 /\ done <= req
    /\ dst # "file" => wakeups <= req - done /\ behind = 0
    /\ dst = "file" /\ writer # "failed" =>
        wakeups + flying + behind = (req - done) + Len(writing)

(* The writer holds a buffer exactly while it writes, and returns with     *)
(* none left behind.                                                       *)
WriterHolds ==
    /\ writer = "writing" => writing # <<>>
    /\ writer \in {"asleep", "returned", "failed"} => writing = <<>>
    /\ landed \/ flying > 0 => dst = "file" /\ (writer = "failed" \/ writing # <<>>)
    /\ writer = "returned" => readDone /\ buffers = <<>>

(* Reader and writer of a transfer agree at every moment on the chunks     *)
(* between them, on the wakeup that is under way and on who holds a chunk, *)
(* and dst holds what the writer was told it does.  A file may hold a      *)
(* chunk twice when a wakeup of the reader has met its write (`again').    *)
TransferInv ==
    /\ TransferTypeOK
    /\ InOrder
    /\ OutputAgrees
    /\ OneWakeup
    /\ WriterHolds

(* A transfer that returns without a failed write has read src up to its   *)
(* end and has put all of it into dst, each chunk once - or, into a file   *)
(* whose write met a wakeup of the reader, at least once.                  *)
CompleteOnReturn ==
    writer = "returned" =>
        /\ readDone
        /\ again \/ output = input
        /\ \A k \in DOMAIN input : \E i \in DOMAIN output : output[i] = input[k]

(* The transfer comes to an end, unless a wakeup reached the writer inside *)
(* the api_stream_write of a unix socket: that one is not counted in       *)
(* num_wakeup_done, and the reader never asks for another.  A file write   *)
(* that met a wakeup may leave a request behind, whose handler then works  *)
(* on a dead frame (`astray').                                             *)
ReturnsUnlessWakeupLost ==
    <>(\/ writer \in {"returned", "failed", "astray"}
       \/ dst = "socket" /\ wakeups # req - done)
=============================================================================
