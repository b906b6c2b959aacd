------------------------------ MODULE FileStream ------------------------------
(***************************************************************************)
(* A file stream on unix (src/api/src/unix/api_stream.c, api_fs.c): a read *)
(* or a write is handed to aio and the task sleeps; the completion handler *)
(* runs in another thread, writes its result into the request, a local     *)
(* variable of the call, and posts a wakeup of the task to the loop.       *)
(*                                                                         *)
(* A call that times out returns while its request is still with aio.  The *)
(* handler then runs on a frame that is gone; what it finds there is       *)
(* either still the old request, or anything, which is not followed.  In   *)
(* the first case a wakeup comes that nobody waits for, and that the next  *)
(* call of the same task takes for its own.                                *)
(***************************************************************************)
EXTENDS Naturals, FiniteSets

CONSTANTS
    Tasks,          \* the tasks that use the stream
    InitSize,       \* the size of a file that is opened
    Length,         \* the length of a read or a write
    MaxSize,        \* bound on the size of the file
    MaxRequests     \* bound on the requests with aio at a time

ASSUME FileAssumption ==
    /\ MaxSize \in Nat /\ InitSize \in 0..MaxSize /\ Length \in Nat \ {0}
    /\ MaxRequests \in Nat \ {0}

VARIABLES
    created,        \* api_fs_create, or else api_fs_open
    status,         \* the flags of stream->status that are set
    readOffset,     \* impl.file.read_offset
    writeOffset,    \* impl.file.write_offset
    op,             \* op[t]: the call t sleeps in
    result,         \* result[t]: done and error of the request on t's stack
    done,           \* done[t]: the local variable of api_stream_file_on_write
    timers,         \* the calls with a timer
    aio,            \* the requests with aio
    wakeups,        \* wakeups[t]: asyncs on their way to t
    loop,           \* the loop
    size,           \* the size of the file
    sawEnd,         \* history: has a read found the end of the file?
    strayed         \* history: has a call been woken before its request was done?

stream == <<created, status, readOffset, writeOffset>>
calls == <<op, result, done, timers>>
history == <<sawEnd, strayed>>
vars == <<stream, calls, aio, wakeups, loop, size, history>>

Flags == {"eof", "closed", "error", "read_timeout", "write_timeout"}
ReadFailures == Flags \ {"write_timeout"}
WriteFailures == Flags \ {"read_timeout", "eof"}

(* a request; `live' as long as the frame it is in is there *)
Requests == [task : Tasks, kind : {"read", "write"}, offset : Nat,
             length : 1..Length, live : BOOLEAN, id : 1..MaxRequests]

Pending == [done |-> 0, error |-> FALSE, complete |-> FALSE]

TypeOK ==
    /\ created \in BOOLEAN /\ status \subseteq Flags
    /\ readOffset \in 0..MaxSize /\ writeOffset \in Nat
    /\ op \in [Tasks -> {"none", "read", "write"}]
    /\ result \in [Tasks -> [done : 0..Length, error : BOOLEAN, complete : BOOLEAN]]
    /\ done \in [Tasks -> 0..(Length - 1)] /\ timers \subseteq Tasks
    /\ aio \subseteq Requests
    /\ wakeups \in [Tasks -> Nat]
    /\ loop \in {"running", "ending", "crashed"}
    /\ size \in 0..MaxSize
    /\ sawEnd \in BOOLEAN /\ strayed \in BOOLEAN

Init ==
    /\ created \in BOOLEAN
    /\ size = IF created THEN 0 ELSE InitSize
    /\ status = {} /\ readOffset = 0 /\ writeOffset = 0
    /\ op = [t \in Tasks |-> "none"]
    /\ result = [t \in Tasks |-> Pending]
    /\ done = [t \in Tasks |-> 0] /\ timers = {}
    /\ aio = {}
    /\ wakeups = [t \in Tasks |-> 0]
    /\ loop = "running"
    /\ sawEnd = FALSE /\ strayed = FALSE

(* t runs code of its own; one task reads and one writes at a time *)
May(t, kind) ==
    /\ loop = "running" /\ op[t] = "none"
    /\ \A u \in Tasks : op[u] # kind

-----------------------------------------------------------------------------
(* The calls *)

(* aio_read and aio_write take a request, or fail *)
Submit(t, kind, offset, length) ==
    \E id \in 1..MaxRequests :
        /\ \A r \in aio : r.id # id
        /\ \A i \in 1..(id - 1) : \E r \in aio : r.id = i
        /\ aio' = aio \cup {[task |-> t, kind |-> kind, offset |-> offset,
                             length |-> length, live |-> TRUE, id |-> id]}

(* api_stream_file_on_read up to its api_task_sleep *)
Read(t, n, timeout) ==
    /\ May(t, "read")
    /\ status \cap ReadFailures = {}
    /\ Submit(t, "read", readOffset, n)
    /\ op' = [op EXCEPT ![t] = "read"]
    /\ result' = [result EXCEPT ![t] = Pending]
    /\ timers' = IF timeout THEN timers \cup {t} ELSE timers
    /\ UNCHANGED <<stream, done, wakeups, loop, size, history>>

(* api_stream_file_on_write up to its first api_task_sleep *)
Write(t, timeout) ==
    /\ May(t, "write")
    /\ status \cap WriteFailures = {}
    /\ size + Length <= MaxSize
    /\ Submit(t, "write", writeOffset, Length)
    /\ op' = [op EXCEPT ![t] = "write"]
    /\ result' = [result EXCEPT ![t] = Pending]
    /\ done' = [done EXCEPT ![t] = 0]
    /\ timers' = IF timeout THEN timers \cup {t} ELSE timers
    /\ UNCHANGED <<stream, wakeups, loop, size, history>>

(* aio refuses the first request of a call *)
Refused(t, kind) ==
    /\ May(t, kind)
    /\ status \cap (IF kind = "read" THEN ReadFailures ELSE WriteFailures) = {}
    /\ status' = status \cup {"error"}
    /\ UNCHANGED <<created, readOffset, writeOffset, calls, aio, wakeups, loop, size, history>>

(* api_stream_close, which resumes nobody and clears stream->loop *)
Close(t) ==
    /\ loop = "running" /\ "closed" \notin status /\ op[t] = "none"
    /\ status' = status \cup {"closed"}
    /\ UNCHANGED <<created, readOffset, writeOffset, calls, aio, wakeups, loop, size, history>>

-----------------------------------------------------------------------------
(* What a woken call does *)

(* the frame of t's call is gone *)
Returned(t) ==
    /\ op' = [op EXCEPT ![t] = "none"]
    /\ timers' = timers \ {t}

Abandoned(t, requests) ==
    {IF r.task = t /\ r.live THEN [r EXCEPT !.live = FALSE] ELSE r : r \in requests}

(* Mutation: the timer is not looked at. *)
EndReadBlind(t, elapsed) ==
    /\ Returned(t)
    /\ aio' = Abandoned(t, aio)
    /\ readOffset' = readOffset + result[t].done
    /\ status' = status \cup (IF result[t].done = 0 THEN {"eof"} ELSE {})
                        \cup (IF result[t].error THEN {"error"} ELSE {})
    /\ UNCHANGED <<created, writeOffset, result, done>>

(* the rest of api_stream_file_on_read *)
EndRead(t, elapsed) ==
    /\ Returned(t)
    /\ aio' = Abandoned(t, aio)
    /\ IF elapsed
       THEN /\ status' = status \cup {"read_timeout"}
            /\ UNCHANGED readOffset
       ELSE /\ readOffset' = readOffset + result[t].done
            /\ status' = status \cup (IF result[t].done = 0 THEN {"eof"} ELSE {})
                                \cup (IF result[t].error THEN {"error"} ELSE {})
    /\ UNCHANGED <<created, writeOffset, result, done>>

(* Mutation: the request is not cleared for the next round. *)
NextRoundKeeps(t, total) ==
    /\ Submit(t, "write", writeOffset', Length - total)
    /\ done' = [done EXCEPT ![t] = total]
    /\ UNCHANGED <<result, op, timers>>

(* another round of the loop of api_stream_file_on_write *)
NextRound(t, total) ==
    /\ Submit(t, "write", writeOffset', Length - total)
    /\ done' = [done EXCEPT ![t] = total]
    /\ result' = [result EXCEPT ![t] = Pending]
    /\ UNCHANGED <<op, timers>>

WriteReturns(t) ==
    /\ Returned(t)
    /\ aio' = Abandoned(t, aio)
    /\ done' = [done EXCEPT ![t] = 0]
    /\ UNCHANGED result

(* a round of that loop after its api_task_sleep, or the rest of the call, *)
(* which has the next request refused or is through; on a timeout it       *)
(* returns 0, whatever it has written                                      *)
EndWrite(t, elapsed) ==
    LET total == done[t] + result[t].done
        stop == status \cap WriteFailures # {} \/ elapsed
    IN  /\ UNCHANGED <<created, readOffset>>
        /\ IF stop \/ result[t].error
           THEN /\ status' = status \cup (IF elapsed THEN {"write_timeout"} ELSE {})
                                   \cup (IF ~stop THEN {"error"} ELSE {})
                /\ WriteReturns(t)
                /\ UNCHANGED writeOffset
           ELSE /\ writeOffset' = writeOffset + result[t].done
                /\ \/ total < Length /\ NextRound(t, total) /\ UNCHANGED status
                   \/ /\ total < Length /\ WriteReturns(t)
                      /\ status' = status \cup {"error"}
                   \/ total >= Length /\ WriteReturns(t) /\ UNCHANGED status

(* the call goes on; a write, or a read with a timer, follows stream->loop *)
End(t, elapsed) ==
    LET crash == "closed" \in status /\ (op[t] = "write" \/ t \in timers)
    IN  \/ crash /\ loop' = "crashed" /\ UNCHANGED <<stream, calls, aio>>
        \/ ~crash /\ op[t] = "read" /\ EndRead(t, elapsed) /\ UNCHANGED loop
        \/ ~crash /\ op[t] = "write" /\ EndWrite(t, elapsed) /\ UNCHANGED loop

-----------------------------------------------------------------------------
(* Who wakes it *)

(* api_async_wakeup_handler: the task is resumed, in the call it is in, or *)
(* somewhere else                                                          *)
Deliver(t) ==
    /\ loop \in {"running", "ending"} /\ wakeups[t] > 0
    /\ wakeups' = [wakeups EXCEPT ![t] = @ - 1]
    /\ strayed' = (strayed \/ (op[t] # "none" /\ ~result[t].complete))
    /\ \/ op[t] = "none" /\ UNCHANGED <<stream, calls, aio, loop>>
       \/ op[t] # "none" /\ End(t, FALSE)
    /\ UNCHANGED <<size, sawEnd>>

(* the timer of a call; the end of the loop wakes it without `elapsed' *)
Timeout(t) ==
    /\ loop \in {"running", "ending"} /\ t \in timers
    /\ End(t, loop = "running")
    /\ UNCHANGED <<wakeups, size, history>>

(* what aio does with n bytes: those of a file that was opened are         *)
(* appended, wherever the request says                                     *)
Transferred(r, n) ==
    IF r.kind = "read"
    THEN /\ ~created
         /\ n <= (IF size > r.offset THEN size - r.offset ELSE 0)
         /\ n = 0 => size <= r.offset
         /\ sawEnd' = (sawEnd \/ n = 0)
         /\ UNCHANGED size
    ELSE /\ n > 0
         /\ size' = IF ~created THEN size + n
                    ELSE IF size > r.offset + n THEN size ELSE r.offset + n
         /\ size' <= MaxSize
         /\ UNCHANGED sawEnd

(* Mutation: a completion with an error wakes nobody. *)
CompletionSilent(r, n, error) ==
    /\ result' = IF r.live THEN [result EXCEPT ![r.task] =
                                  [done |-> n, error |-> error, complete |-> TRUE]]
                 ELSE result
    /\ wakeups' = IF error THEN wakeups ELSE [wakeups EXCEPT ![r.task] = @ + 1]
    /\ UNCHANGED loop

(* aio_read_completion_handler, aio_write_completion_handler: the result   *)
(* goes into the frame, and a wakeup to the loop                           *)
Completion(r, n, error) ==
    /\ result' = IF r.live THEN [result EXCEPT ![r.task] =
                                  [done |-> n, error |-> error, complete |-> TRUE]]
                 ELSE result
    /\ wakeups' = [wakeups EXCEPT ![r.task] = @ + 1]
    /\ UNCHANGED loop

(* aio finishes a request, or aio_cancel has ended it with an error *)
Complete(r) ==
    /\ loop \in {"running", "ending"}
    /\ aio' = aio \ {r}
    /\ \/ \E n \in 0..r.length : Transferred(r, n) /\ Completion(r, n, FALSE)
       \/ Completion(r, 0, TRUE) /\ UNCHANGED <<size, sawEnd>>
    /\ UNCHANGED <<stream, op, done, timers, strayed>>

(* the handler finds something else in the place of the frame *)
FrameOverwritten(r) ==
    /\ loop \in {"running", "ending"} /\ ~r.live
    /\ loop' = "crashed"
    /\ aio' = aio \ {r}
    /\ UNCHANGED <<stream, calls, wakeups, size, history>>

(* api_loop_stop; the loop then wakes those with a timer *)
Stop ==
    /\ loop = "running" /\ loop' = "ending"
    /\ UNCHANGED <<stream, calls, aio, wakeups, size, history>>

TaskStep(t) ==
    \/ \E timeout \in BOOLEAN :
          Write(t, timeout) \/ \E n \in 1..Length : Read(t, n, timeout)
    \/ \E kind \in {"read", "write"} : Refused(t, kind)
    \/ Close(t)

Next ==
    \/ \E t \in Tasks : TaskStep(t) \/ Deliver(t) \/ Timeout(t)
    \/ \E r \in aio : Complete(r) \/ FrameOverwritten(r)
    \/ Stop

Completes(kind) == \E r \in aio : r.kind = kind /\ Complete(r)

(* aio finishes what it was given and the loop delivers wakeups *)
Spec ==
    /\ Init /\ [][Next]_vars
    /\ \A kind \in {"read", "write"} : WF_vars(Completes(kind))
    /\ \A t \in Tasks : WF_vars(Deliver(t))

-----------------------------------------------------------------------------
(* Properties *)

(* A call that sleeps will be woken: its request is with aio, or a wakeup  *)
(* is on its way, whatever wakeups of earlier calls came before.           *)
SleeperHasWaker ==
    loop = "running" =>
        \A t \in Tasks : op[t] # "none" =>
            wakeups[t] > 0 \/ \E r \in aio : r.task = t /\ r.live

(* Only a call that timed out leaves a request behind that points into its *)
(* frame, or one that was woken by the wakeup of such a call.              *)
FrameOutlivesRequest ==
    loop = "running" =>
        \A r \in aio : ~r.live =>
            \/ (IF r.kind = "read" THEN "read_timeout" ELSE "write_timeout") \in status
            \/ strayed

(* A request that points into a frame belongs to the call that sleeps      *)
(* there, and one call reads and one writes.                               *)
RequestsOfCalls ==
    /\ \A r \in aio : r.live => op[r.task] = r.kind
    /\ \A t, u \in Tasks : op[t] # "none" /\ op[t] = op[u] => t = u

(* As long as no call was woken by a stray wakeup, a call waits for one    *)
(* request only, which is not done, and a write for one at the offset.     *)
OneRequest ==
    loop = "running" /\ ~strayed =>
        \A r \in aio : r.live =>
            /\ ~result[r.task].complete
            /\ r.kind = "write" => r.offset = writeOffset
            /\ \A s \in aio : s.live /\ s.task = r.task => s = r

(* Reads go on where the last one ended, and stay within the file.         *)
ReadsWithin ==
    /\ readOffset <= size
    /\ \A r \in aio : r.live /\ r.kind = "read" => r.offset = readOffset
    /\ \A t \in Tasks : op[t] = "read" => readOffset + result[t].done <= size

(* A request that is not done has done nothing, and a read that is done    *)
(* and got nothing has failed or found the end of the file.                *)
ResultsRight ==
    \A t \in Tasks :
        /\ ~result[t].complete => result[t].done = 0
        /\ op[t] = "read" /\ result[t].complete /\ result[t].done = 0 =>
              result[t].error \/ sawEnd

(* What ties a call on a file stream to its request and its wakeup: a      *)
(* sleeping call has one of them on its way, a request without a call is   *)
(* one that timed out, and what a request reports goes to its own call.    *)
FileInv ==
    /\ TypeOK
    /\ SleeperHasWaker
    /\ FrameOutlivesRequest
    /\ RequestsOfCalls
    /\ OneRequest
    /\ ReadsWithin
    /\ ResultsRight

(* The end of the file is reported only when a read has found it, or       *)
(* failed, unless a stray wakeup or the end of the loop cut a read short.  *)
EofMeansEnd ==
    "eof" \in status /\ loop = "running" => sawEnd \/ "error" \in status \/ strayed

(* As long as the stream has not failed and no stray wakeup comes, the     *)
(* file holds what the offset says, counting what was done and not looked  *)
(* at yet.                                                                 *)
WrittenIsCounted ==
    LET base == IF created THEN 0 ELSE InitSize
        writers == {t \in Tasks : op[t] = "write"}
    IN  loop = "running" /\ ~strayed /\ status \cap WriteFailures = {} =>
            \/ writers = {} /\ size = base + writeOffset
            \/ \E t \in writers : size = base + writeOffset + result[t].done

(* What a file stream tells its user agrees with the file: the end that    *)
(* reads report and the offset that writes count.                          *)
ContentRight ==
    /\ EofMeansEnd
    /\ WrittenIsCounted

(* Every call returns, unless the loop ends or a handler has run on a      *)
(* frame that was overwritten: no task is in a call for ever.              *)
CallsReturn ==
    \A t \in Tasks : []<>(op[t] = "none" \/ loop # "running")
=============================================================================
