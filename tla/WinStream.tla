------------------------------ MODULE WinStream ------------------------------
(***************************************************************************)
(* A stream on Windows (src/api/src/win/api_stream.c), a file or a TCP     *)
(* connection that was accepted or made by api_tcp_connect                 *)
(* (win/api_tcp.c), and the loop that hands out the packets of the         *)
(* completion port (win/api_loop.c).                                       *)
(*                                                                         *)
(* A call starts an operation of the system on one of the stream's two     *)
(* OVERLAPPED structures and sleeps if it stays pending; its request is on *)
(* its stack and reserved[] points to it.  The system puts a packet into   *)
(* the port when the operation ends.  What a call leaves behind when it    *)
(* times out, a pending operation or a packet, cannot be taken back.       *)
(***************************************************************************)
EXTENDS Naturals, FiniteSets

CONSTANTS
    Tasks,      \* the tasks that use the stream
    Length,     \* the length of a write and bound on that of a read
    MaxOwed,    \* bound on the bytes that are not accounted for
    MaxOps      \* bound on the operations and packets at a time

nobody == "nobody"

ASSUME WinAssumption ==
    /\ nobody \notin Tasks
    /\ Length \in Nat \ {0} /\ MaxOps \in Nat \ {0}
    /\ MaxOwed \in Nat

VARIABLES
    type,       \* stream->type
    life,       \* "new", "open" when stream->loop is set, or "closed"
    status,     \* the flags of stream->status that are set
    processor,  \* os_win.processor
    reserved,   \* os_win.reserved: the task of the request, or nobody
    op,         \* op[t]: the call t sleeps in
    offset,     \* offset[t]: the local variable of api_stream_on_write
    timers,     \* the calls with a timer
    io,         \* operations of the system and packets of the port
    loop,       \* the loop
    up,         \* is the socket connected, or the file open?
    owed,       \* history: bytes the system has read and no read has returned, and
    unclaimed,  \* bytes it has written and no write has returned; until a packet strays
    inexact,    \* history: has a write sent its first bytes again, or stopped on a
                \* failure of the stream without counting what its last round wrote?
    strayed,    \* history: has a packet woken a call it does not belong to?
    expired,    \* history: has a connect timed out?
    refused     \* history: has the failure of a connect been ignored?

stream == <<type, life, status, processor, reserved>>
calls == <<op, offset, timers>>
history == <<owed, unclaimed, inexact, strayed, expired, refused>>
vars == <<stream, calls, io, loop, up, history>>

Flags == {"eof", "closed", "error", "read_timeout", "write_timeout"}
ReadFailures == Flags \ {"write_timeout"}
WriteFailures == Flags \ {"read_timeout", "eof"}

(* the OVERLAPPED an operation uses; a connect uses the one for reading *)
Overlapped(kind) == IF kind = "write" THEN "write" ELSE "read"

(* an operation; `live' as long as the call that started it waits for it *)
Operations ==
    [kind : {"read", "write", "connect"}, task : Tasks, id : 1..MaxOps,
     length : 0..Length, live : BOOLEAN, pending : BOOLEAN,
     n : 0..Length, error : {"none", "eof", "aborted", "fail"}]

TypeOK ==
    /\ type \in {"file", "tcp"} /\ life \in {"new", "open", "closed"}
    /\ status \subseteq Flags
    /\ processor \in {"none", "connect", "stream"}
    /\ reserved \in [{"read", "write"} -> Tasks \cup {nobody}]
    /\ op \in [Tasks -> {"none", "read", "write", "connect"}]
    /\ offset \in [Tasks -> 0..(Length - 1)] /\ timers \subseteq Tasks
    /\ io \subseteq Operations
    /\ loop \in {"running", "ending", "crashed"} /\ up \in BOOLEAN
    /\ owed \in 0..MaxOwed /\ unclaimed \in 0..MaxOwed
    /\ inexact \in BOOLEAN /\ strayed \in BOOLEAN
    /\ expired \in BOOLEAN /\ refused \in BOOLEAN

Init ==
    /\ type \in {"file", "tcp"} /\ life = "new" /\ status = {}
    /\ processor = "none" /\ reserved = [k \in {"read", "write"} |-> nobody]
    /\ op = [t \in Tasks |-> "none"] /\ offset = [t \in Tasks |-> 0] /\ timers = {}
    /\ io = {} /\ loop = "running" /\ up = FALSE
    /\ owed = 0 /\ unclaimed = 0
    /\ inexact = FALSE /\ strayed = FALSE /\ expired = FALSE /\ refused = FALSE

(* t runs code of its own; one task reads and one writes at a time *)
May(t, kind) ==
    /\ loop = "running" /\ op[t] = "none"
    /\ \A u \in Tasks : op[u] # kind

-----------------------------------------------------------------------------
(* The system *)

(* ReadFile, WSARecv, WriteFile, WSASend or ConnectEx stays pending *)
Submit(t, kind, length, ops) ==
    \E id \in 1..MaxOps :
        /\ \A r \in ops : r.id # id
        /\ \A i \in 1..(id - 1) : \E r \in ops : r.id = i
        /\ io' = ops \cup {[kind |-> kind, task |-> t, id |-> id, length |-> length,
                            live |-> TRUE, pending |-> TRUE, n |-> 0, error |-> "none"]}

(* t waits for none of its operations any more *)
Abandoned(t, ops) == {[r EXCEPT !.live = @ /\ r.task # t] : r \in ops}

(* closesocket and CloseHandle abort what is pending *)
Aborted(ops) ==
    {IF r.pending THEN [r EXCEPT !.pending = FALSE, !.length = 0, !.error = "aborted"] ELSE r :
        r \in ops}

(* how an operation ends; n = 0 without an error is the end of what a peer *)
(* sends                                                                   *)
Outcomes(r) ==
    {o \in (0..r.length) \X {"none", "eof", "fail"} :
        \/ o[1] > 0 /\ o[2] = "none"
        \/ o[1] = 0 /\ o[2] = "fail"
        \/ o = <<0, "eof">> /\ r.kind = "read" /\ type = "file"
        \/ o = <<0, "none">> /\ (r.kind = "connect" \/ (r.kind = "read" /\ type = "tcp"))}

(* it ends, and its packet enters the port *)
Complete(r) ==
    /\ r.pending /\ loop = "running"
    /\ \E o \in Outcomes(r) :
        /\ io' = (io \ {r}) \cup {[r EXCEPT !.pending = FALSE, !.length = 0, !.n = o[1],
                                         !.error = o[2]]}
        /\ up' = (up \/ (r.kind = "connect" /\ o[2] = "none"))
        /\ owed' = IF r.kind = "read" /\ ~strayed THEN owed + o[1] ELSE owed
        /\ unclaimed' = IF r.kind = "write" /\ ~strayed THEN unclaimed + o[1] ELSE unclaimed
        /\ owed' <= MaxOwed /\ unclaimed' <= MaxOwed
    /\ UNCHANGED <<stream, calls, loop, inexact, strayed, expired, refused>>

-----------------------------------------------------------------------------
(* api_tcp_connect, and api_stream_attach after api_tcp_accept or api_fs_open *)

(* api_stream_init, and stream->loop is set *)
Open ==
    /\ life' = "open" /\ status' = {} /\ processor' = "stream"
    /\ reserved' = [k \in {"read", "write"} |-> nobody]

Attach(t) ==
    /\ life = "new" /\ May(t, "connect")
    /\ Open /\ up' = TRUE
    /\ UNCHANGED <<type, calls, io, loop, history>>

(* api_tcp_connect clears the structure and ends at once, or fails *)
ConnectAtOnce(t, ok) ==
    /\ type = "tcp" /\ life = "new" /\ May(t, "connect")
    /\ IF ok THEN Open
       ELSE /\ status' = {"error"} /\ processor' = "connect"
            /\ reserved' = [read |-> t, write |-> nobody]
            /\ UNCHANGED life
    /\ up' = ok
    /\ UNCHANGED <<type, calls, io, loop, history>>

(* or goes to sleep *)
Connect(t, timeout) ==
    /\ type = "tcp" /\ life = "new" /\ May(t, "connect")
    /\ status' = {} /\ processor' = "connect"
    /\ reserved' = [read |-> t, write |-> nobody]
    /\ Submit(t, "connect", 0, io)
    /\ op' = [op EXCEPT ![t] = "connect"]
    /\ timers' = IF timeout THEN timers \cup {t} ELSE timers
    /\ UNCHANGED <<type, life, offset, loop, up, history>>

(* Mutation: the timer is not looked at. *)
EndConnectBlind(t, w) ==
    /\ Open
    /\ io' = Abandoned(t, w.io)
    /\ op' = [op EXCEPT ![t] = "none"]
    /\ UNCHANGED <<type, offset, up, owed, unclaimed, inexact>>

(* the rest of api_tcp_connect, which does not see how the operation ended *)
EndConnect(t, w) ==
    /\ IF w.elapsed
       THEN /\ status' = status \cup {"read_timeout"}
            /\ io' = Aborted(Abandoned(t, w.io))
            /\ up' = FALSE
            /\ UNCHANGED <<life, processor, reserved>>
       ELSE /\ Open
            /\ io' = Abandoned(t, w.io)
            /\ UNCHANGED up
    /\ op' = [op EXCEPT ![t] = "none"]
    /\ UNCHANGED <<type, offset, owed, unclaimed, inexact>>

-----------------------------------------------------------------------------
(* Reading *)

CanRead(t) == life = "open" /\ May(t, "read") /\ status \cap ReadFailures = {}

(* a read that ends at once: with n bytes, or with an error, which here    *)
(* the end of a file is, too                                               *)
ReadAtOnce(t, n, error) ==
    /\ CanRead(t)
    /\ n = 0 => error \/ type = "tcp"
    /\ n > 0 => ~error
    /\ status' = IF error THEN status \cup {"error"} ELSE status
    /\ UNCHANGED <<type, life, processor, reserved, calls, io, loop, up, history>>

(* Mutation: a read that timed out may be inexact. *)
ReadAgain(t, n, timeout) ==
    /\ life = "open" /\ May(t, "read")
    /\ status \cap ReadFailures \subseteq {"read_timeout"}
    /\ Submit(t, "read", n, io)
    /\ reserved' = [reserved EXCEPT !["read"] = t]
    /\ op' = [op EXCEPT ![t] = "read"]
    /\ timers' = IF timeout THEN timers \cup {t} ELSE timers
    /\ UNCHANGED <<type, life, status, processor, offset, loop, up, history>>

(* api_stream_on_read up to its api_task_sleep *)
Read(t, n, timeout) ==
    /\ CanRead(t)
    /\ Submit(t, "read", n, io)
    /\ reserved' = [reserved EXCEPT !["read"] = t]
    /\ op' = [op EXCEPT ![t] = "read"]
    /\ timers' = IF timeout THEN timers \cup {t} ELSE timers
    /\ UNCHANGED <<type, life, status, processor, offset, loop, up, history>>

(* the rest of api_stream_on_read *)
EndRead(t, w) ==
    /\ reserved' = [reserved EXCEPT !["read"] = nobody]
    /\ op' = [op EXCEPT ![t] = "none"]
    /\ io' = Abandoned(t, w.io)
    /\ status' = IF w.elapsed THEN w.status \cup {"read_timeout"} ELSE w.status
    /\ owed' = IF strayed' THEN owed ELSE owed - w.n
    /\ UNCHANGED <<type, life, processor, offset, up, unclaimed, inexact>>

-----------------------------------------------------------------------------
(* Writing *)

CanWrite(t) ==
    life = "open" /\ May(t, "write") /\ status \cap WriteFailures = {}

(* a round of the loop of api_stream_on_write stays pending, `done' bytes  *)
(* being written; a socket is given all bytes again                        *)
Round(t, done, ops) ==
    /\ Submit(t, "write", IF type = "file" THEN Length - done ELSE Length, ops)
    /\ reserved' = [reserved EXCEPT !["write"] = t]
    /\ op' = [op EXCEPT ![t] = "write"]
    /\ offset' = [offset EXCEPT ![t] = done]
    /\ inexact' = (inexact \/ (done > 0 /\ type = "tcp"))

(* the end of api_stream_on_write *)
Returns(t, done, w) ==
    /\ reserved' = [reserved EXCEPT !["write"] = nobody]
    /\ op' = [op EXCEPT ![t] = "none"]
    /\ offset' = [offset EXCEPT ![t] = 0]
    /\ io' = Abandoned(t, w.io)
    /\ unclaimed' = IF strayed' THEN unclaimed ELSE unclaimed - done
    /\ status' = IF w.elapsed THEN w.status \cup {"write_timeout"} ELSE w.status

(* api_stream_on_write up to its first api_task_sleep *)
Write(t, timeout) ==
    /\ CanWrite(t)
    /\ Round(t, 0, io)
    /\ timers' = IF timeout THEN timers \cup {t} ELSE timers
    /\ UNCHANGED <<type, life, status, processor, loop, up, owed, unclaimed, strayed,
                   expired, refused>>

(* a first round that ends at once, with all bytes or with an error *)
WriteAtOnce(t, error) ==
    /\ CanWrite(t)
    /\ status' = IF error THEN status \cup {"error"} ELSE status
    /\ UNCHANGED <<type, life, processor, reserved, calls, io, loop, up, history>>

(* Mutation: the last round is not counted. *)
EndWriteShort(t, w) ==
    LET done == offset[t] + w.n
        stop == w.status \cap WriteFailures # {} \/ w.elapsed
    IN  /\ UNCHANGED <<type, life, processor, up, owed>>
        /\ \/ /\ stop \/ done >= Length \/ w.n = 0
              /\ Returns(t, offset[t], w)
              /\ inexact' = (inexact \/ (stop /\ w.n > 0))
           \/ /\ ~stop /\ done < Length /\ w.n > 0
              /\ Round(t, done, w.io)
              /\ status' = w.status /\ UNCHANGED unclaimed

(* the loop of api_stream_on_write after its api_task_sleep: the rest of   *)
(* the call, or another round, which may fail at once                      *)
EndWrite(t, w) ==
    LET done == offset[t] + w.n
        stop == w.status \cap WriteFailures # {} \/ w.elapsed
    IN  /\ UNCHANGED <<type, life, processor, up, owed>>
        /\ \/ /\ stop \/ done >= Length \/ w.n = 0
              /\ Returns(t, IF stop THEN offset[t] ELSE done, w)
              /\ inexact' = (inexact \/ (stop /\ w.n > 0))
           \/ /\ ~stop /\ done < Length /\ w.n > 0
              /\ Returns(t, done, [w EXCEPT !.status = @ \cup {"error"}])
              /\ UNCHANGED inexact
           \/ /\ ~stop /\ done < Length /\ w.n > 0
              /\ Round(t, done, w.io)
              /\ status' = w.status /\ UNCHANGED unclaimed

(* api_stream_close *)
Close(t) ==
    /\ life = "open" /\ loop = "running" /\ op[t] = "none"
    /\ life' = "closed" /\ status' = status \cup {"closed"}
    /\ io' = Aborted(io) /\ up' = FALSE
    /\ UNCHANGED <<type, processor, reserved, calls, loop, history>>

-----------------------------------------------------------------------------
(* The loop *)

(* t is resumed in its call, w being what it finds: its request's done,    *)
(* the status, the timer and what is under way; a read and a write follow  *)
(* stream->loop, which a close has cleared                                 *)
Resume(t, w) ==
    LET crash == op[t] # "connect" /\ life = "closed"
    IN  IF crash
        THEN /\ loop' = "crashed" /\ io' = w.io
             /\ UNCHANGED <<stream, calls, up, owed, unclaimed, inexact>>
        ELSE /\ \/ op[t] = "connect" /\ EndConnect(t, w)
                \/ op[t] = "read" /\ EndRead(t, w)
                \/ op[t] = "write" /\ EndWrite(t, w)
             /\ timers' = {u \in timers : op'[u] # "none"}
             /\ UNCHANGED loop

(* Mutation: the timeout of one direction silences the other, too. *)
TargetShared(r) ==
    CASE r.error = "aborted" -> nobody
      [] r.error # "aborted" /\ processor = "connect" -> reserved["read"]
      [] r.error # "aborted" /\ processor = "stream" ->
            IF status \cap {"read_timeout", "write_timeout"} # {}
            THEN nobody ELSE reserved[Overlapped(r.kind)]

(* the task whose request a packet is for.  api_loop_run_internal drops    *)
(* those of aborted operations; api_stream_processor those that find no    *)
(* request; api_tcp_connect_processor has the task in reserved[0]          *)
Target(r) ==
    CASE r.error = "aborted" -> nobody
      [] r.error # "aborted" /\ processor = "connect" -> reserved["read"]
      [] r.error # "aborted" /\ processor = "stream" ->
            IF (IF r.kind = "write" THEN "write_timeout" ELSE "read_timeout") \in status
            THEN nobody ELSE reserved[Overlapped(r.kind)]

(* the status api_stream_processor leaves: no bytes and no error make it   *)
(* forget an earlier error                                                 *)
StatusAfter(r) ==
    IF processor = "connect" \/ r.n > 0 THEN status
    ELSE CASE r.error = "eof" -> status \cup {"eof"}
           [] r.error = "fail" -> status \cup {"error"}
           [] r.error = "none" -> status \ {"error"}

(* GetQueuedCompletionStatus returns a packet and its processor runs *)
Deliver(r) ==
    LET t == Target(r)
    IN  /\ loop = "running" /\ ~r.pending
        /\ strayed' = (strayed \/ (t # nobody /\ ~r.live))
        /\ IF t = nobody \/ op[t] = "none"
           THEN /\ io' = io \ {r}
                /\ UNCHANGED <<stream, calls, loop, up, owed, unclaimed, inexact>>
           ELSE Resume(t, [n |-> r.n, status |-> StatusAfter(r), elapsed |-> FALSE,
                           io |-> io \ {r}])
        /\ refused' = (refused \/ (processor = "connect" /\ r.error = "fail"))
        /\ UNCHANGED expired

(* the timer of a call; the end of the loop wakes it without `elapsed' *)
Timeout(t) ==
    /\ loop \in {"running", "ending"} /\ t \in timers
    /\ UNCHANGED <<strayed, refused>>
    /\ Resume(t, [n |-> 0, status |-> status, elapsed |-> loop = "running", io |-> io])
    /\ expired' = (expired \/ op[t] = "connect")

(* api_loop_stop closes the port, and the loop ends *)
Stop ==
    /\ loop = "running" /\ loop' = "ending"
    /\ UNCHANGED <<stream, calls, io, up, history>>

Call(t) ==
    \/ Attach(t) \/ Close(t)
    \/ \E yes \in BOOLEAN :
        \/ ConnectAtOnce(t, yes) \/ Connect(t, yes) \/ Write(t, yes) \/ WriteAtOnce(t, yes)
        \/ \E n \in 1..Length : Read(t, n, yes)
        \/ \E n \in 0..Length : ReadAtOnce(t, n, yes)

Next ==
    \/ \E t \in Tasks : Call(t) \/ Timeout(t)
    \/ \E r \in io : Complete(r) \/ Deliver(r)
    \/ Stop

Completes(kind) == \E r \in io : r.kind = kind /\ Complete(r)
Delivers(kind) == \E r \in io : r.kind = kind /\ Deliver(r)

(* the system ends what it was asked for, and the loop takes packets in    *)
(* the order of the port, so that none is overtaken for ever               *)
Spec ==
    /\ Init /\ [][Next]_vars
    /\ \A kind \in {"read", "write", "connect"} :
        WF_vars(Completes(kind)) /\ WF_vars(Delivers(kind))

-----------------------------------------------------------------------------
(* Properties *)

(* A packet resumes only the call whose operation it reports, unless a     *)
(* connect has timed out: the packet it leaves behind resumes its task     *)
(* wherever that is, and the next use of the same api_tcp_t.               *)
WakesItsCall == strayed => expired

(* The system is never given an OVERLAPPED that is still in use (with the  *)
(* same exception).                                                        *)
OverlappedFree ==
    ~strayed =>
        \A q, r \in io : q.pending /\ r.pending /\ q # r =>
            Overlapped(q.kind) # Overlapped(r.kind)

(* The system works on the buffer of a call that has returned only when    *)
(* the call timed out, and then the stream says so.                        *)
BufferOutlivesOperation ==
    loop = "running" /\ ~strayed =>
        \A r \in io : r.pending /\ ~r.live =>
            (IF r.kind = "write" THEN "write_timeout" ELSE "read_timeout") \in status

(* reserved[] points to the request of the call that sleeps, and to none   *)
(* when no call does, whatever packet comes; a connect that is over leaves *)
(* it as it was.                                                           *)
CallsReserved ==
    /\ life = "new" <=> processor # "stream"
    /\ processor = "none" => io = {}
    /\ \A t \in Tasks : op[t] # "none" =>
          /\ processor = IF op[t] = "connect" THEN "connect" ELSE "stream"
          /\ reserved[Overlapped(op[t])] = t
    /\ processor = "stream" => \A k \in {"read", "write"} :
          reserved[k] # nobody => op[reserved[k]] = k

(* An operation that a call waits for is one of that call, and is its only *)
(* one until a packet strays.                                              *)
OperationsOfCalls ==
    \A r \in io :
        /\ r.live => op[r.task] = r.kind
        /\ r.live /\ ~strayed => \A q \in io : q.live /\ q.task = r.task => q = r
        /\ r.pending => r.n = 0 /\ r.error = "none"
        /\ life = "new" => r.kind = "connect"
        /\ r.error = "aborted" => r.n = 0 /\ (r.kind = "connect" \/ life = "closed")

(* Not the operations only, but also the packets that a call leaves behind *)
(* come from a timeout of which the stream says so, but for the packet of a*)
(* connect that timed out.                                                 *)
LeftBehind ==
    loop = "running" /\ ~strayed =>
        \A r \in io : ~r.live /\ r.error # "aborted" =>
            \/ /\ (IF r.kind = "write" THEN "write_timeout" ELSE "read_timeout") \in status
               /\ life # "new"
            \/ expired /\ r.kind = "connect" /\ ~r.pending

(* The packet that a connect waits for says whether the socket is connected*)
ConnectTells ==
    \A r \in io : r.live /\ r.kind = "connect" /\ ~r.pending =>
        r.error = "fail" \/ (r.error = "none" /\ up)

(* No call returns a byte that the system has not transferred.             *)
NoBytesInvented ==
    /\ life = "new" => owed = 0 /\ unclaimed = 0
    /\ ~strayed =>
        /\ \A r \in io : r.live /\ ~r.pending =>
              /\ r.kind = "read" => r.n <= owed
              /\ r.kind = "write" => offset[r.task] + r.n <= unclaimed
        /\ \A t \in Tasks : op[t] = "write" => offset[t] <= unclaimed

(* What ties a call on Windows to its operation: packets find their own    *)
(* call, and OVERLAPPED and buffer belong to one operation at a time, with *)
(* the exceptions stated above.                                            *)
WinInv ==
    /\ TypeOK
    /\ WakesItsCall
    /\ OverlappedFree
    /\ BufferOutlivesOperation
    /\ CallsReserved
    /\ OperationsOfCalls
    /\ LeftBehind
    /\ ConnectTells
    /\ NoBytesInvented

(* A stream that api_tcp_connect reports as open is connected, unless the  *)
(* system reported a failure, which connect does not look at, or a packet  *)
(* of an earlier connect came.                                             *)
OpenMeansConnected ==
    life = "open" /\ loop = "running" => up \/ refused \/ strayed

(* What the system has read is what the reads returned and what is on its  *)
(* way to one, until a read times out.                                     *)
ReadsAccounted ==
    life = "open" /\ loop = "running" /\ ~strayed /\ "read_timeout" \notin status =>
        LET packets == {r \in io : r.kind = "read" /\ ~r.pending}
        IN  \/ packets = {} /\ owed = 0
            \/ \E r \in packets : packets = {r} /\ owed = r.n

(* Likewise what the writes returned and the one under way has counted is  *)
(* what the system has written, unless a socket took a part of the bytes   *)
(* and was then given all of them again, or the stream failed meanwhile.   *)
WritesAccounted ==
    life = "open" /\ loop = "running" /\ ~inexact /\ ~strayed /\
    "write_timeout" \notin status =>
        LET packets == {r \in io : r.kind = "write" /\ ~r.pending}
            writers == {t \in Tasks : op[t] = "write"}
            counted == IF writers = {} THEN 0 ELSE offset[CHOOSE t \in writers : TRUE]
        IN  \/ packets = {} /\ unclaimed = counted
            \/ \E r \in packets : packets = {r} /\ unclaimed = counted + r.n

(* The bytes that the system transfers are the bytes that api_stream_read  *)
(* and api_stream_write return.                                            *)
BytesAccounted ==
    /\ ReadsAccounted
    /\ WritesAccounted

(* Every call returns, unless the loop ends or another task closes the     *)
(* stream, whose aborted operations nobody hears of: no task is in a call  *)
(* for ever.                                                               *)
CallsReturn ==
    \A t \in Tasks : []<>(op[t] = "none" \/ loop # "running" \/ life = "closed")
=============================================================================
