-------------------------------- MODULE Stream --------------------------------
(***************************************************************************)
(* A TCP stream on unix: api_stream_read, _write, _unread, _close          *)
(* (src/api/src/unix/api_stream.c, api_stream_common.c), the ways it comes *)
(* about, api_tcp_connect (unix/api_tcp.c) and api_stream_attach, and the  *)
(* epoll interest of api_loop_update (unix/api_loop.h).                    *)
(*                                                                         *)
(* A task reads and another one writes.  A step is what runs from being    *)
(* resumed to being suspended.  A suspended operation leaves three things  *)
(* behind for those who may resume it: its request in stream->reserved,    *)
(* its bit in the interest mask and, with a timeout, a timer; the request  *)
(* and the timer are on its stack.  The socket and the peer are external:  *)
(* bytes are numbered in the order the peer sends them.                    *)
(***************************************************************************)
EXTENDS Integers, Sequences

CONSTANTS
    MaxIn,          \* bound on the bytes the peer sends
    MaxRead,        \* bound on the length of a read
    WriteLength,    \* the length of a write
    MaxOut,         \* bound on the bytes written
    TxSize          \* the size of the socket's send buffer

ASSUME StreamAssumption ==
    /\ MaxIn \in Nat /\ MaxOut \in Nat
    /\ MaxRead \in Nat \ {0} /\ WriteLength \in Nat \ {0} /\ TxSize \in Nat \ {0}

VARIABLES
    life,           \* the stream: see Lives
    status,         \* the flags of stream->status that are set
    asleep,         \* the operations that are suspended
    reserved,       \* the operations with a request in reserved[]
    mask,           \* os_linux.e.events: "read" for EPOLLIN, "write" for EPOLLOUT
    timers,         \* the operations with a timer
    want,           \* read.length
    offset,         \* write.offset
    unread,         \* stream->unread
    phase,          \* where the loop is
    batch,          \* events of the stream that epoll_wait returned
    running,        \* is the loop's epoll descriptor open?
    got,            \* history: the bytes the reader has, less those put back
    overwritten,    \* history: were bytes put back twice?
    claimed,        \* history: the sum of what api_stream_write returned
    sock            \* the socket, see Socket

stream == <<life, status, asleep, reserved, mask, timers, want, offset, unread>>
loop == <<phase, batch, running>>
history == <<got, overwritten, claimed>>
vars == <<stream, loop, history, sock>>

Lives == {"new", "connecting", "open", "closed", "failed"}
Operations == {"read", "write", "connect"}
Flags == {"eof", "closed", "peer_closed", "terminated", "read_timeout",
          "write_timeout", "error"}
EventBits == {"IN", "PRI", "OUT", "RDHUP", "HUP", "ERR"}

ReadFailures == Flags \ {"write_timeout"}
WriteFailures == Flags \ {"read_timeout", "eof"}

Socket ==
    [epoll    : BOOLEAN,            \* is it in the epoll set?
     up       : BOOLEAN,            \* is it connected?
     sent     : 0..MaxIn,           \* bytes the peer has sent
     inbox    : Seq(1..MaxIn),      \* bytes received and not read
     urgent   : BOOLEAN,            \* urgent data is pending
     fin      : BOOLEAN,            \* the peer has closed its side
     reset    : BOOLEAN,            \* the connection is broken or refused
     error    : BOOLEAN,            \* and this has not been reported yet
     accepted : 0..MaxOut,          \* bytes write() has taken
     acked    : 0..MaxOut]          \* bytes the peer has taken

TypeOK ==
    /\ life \in Lives
    /\ status \subseteq Flags
    /\ asleep \subseteq Operations /\ reserved \subseteq Operations
    /\ mask \subseteq {"read", "write"} /\ timers \subseteq Operations
    /\ want \in 0..MaxRead
    /\ offset \in 0..WriteLength
    /\ unread \in Seq(1..MaxIn)
    /\ phase \in {"events", "timers", "ending", "gone", "crashed"}
    /\ batch \subseteq EventBits
    /\ running \in BOOLEAN
    /\ got \in Seq(1..MaxIn) /\ overwritten \in BOOLEAN
    /\ claimed \in 0..MaxOut
    /\ sock \in Socket

Init ==
    /\ life = "new"
    /\ status = {} /\ asleep = {} /\ reserved = {} /\ mask = {} /\ timers = {}
    /\ want = 0 /\ offset = 0
    /\ unread = <<>>
    /\ phase = "events" /\ batch = {}
    /\ running = TRUE
    /\ got = <<>> /\ overwritten = FALSE /\ claimed = 0
    /\ sock = [epoll |-> FALSE, up |-> FALSE, sent |-> 0, inbox |-> <<>>,
               urgent |-> FALSE, fin |-> FALSE, reset |-> FALSE, error |-> FALSE,
               accepted |-> 0, acked |-> 0]

(* the loop lets tasks run *)
TasksRun == phase \in {"events", "timers", "ending"}

Lesser(a, b) == IF a <= b THEN a ELSE b

-----------------------------------------------------------------------------
(* How a stream comes about *)

(* api_tcp_accept has given a connected socket, and api_stream_attach adds *)
(* it to epoll, which fails when the loop was stopped                      *)
Attach ==
    /\ life = "new" /\ TasksRun
    /\ life' = IF running THEN "open" ELSE "failed"
    /\ sock' = [sock EXCEPT !.epoll = running, !.up = TRUE]
    /\ UNCHANGED <<status, asleep, reserved, mask, timers, want, offset, unread, loop,
                   history>>

(* api_tcp_connect does not have to wait, or cannot: with success the      *)
(* socket is not added to epoll                                            *)
ConnectAtOnce(ok) ==
    /\ life = "new" /\ TasksRun
    /\ life' = IF ok THEN "open" ELSE "failed"
    /\ sock' = [sock EXCEPT !.up = ok]
    /\ reserved' = IF ok THEN {} ELSE {"connect"}
    /\ UNCHANGED <<status, asleep, mask, timers, want, offset, unread, phase, batch,
                   running, history>>

(* api_tcp_connect up to its api_task_sleep *)
Connect(timeout) ==
    /\ life = "new" /\ TasksRun /\ running
    /\ life' = "connecting"
    /\ sock' = [sock EXCEPT !.epoll = TRUE]
    /\ mask' = {"write"}
    /\ asleep' = {"connect"} /\ reserved' = {"connect"}
    /\ timers' = IF timeout THEN {"connect"} ELSE {}
    /\ UNCHANGED <<status, want, offset, unread, phase, batch, running, history>>

(* the rest of api_tcp_connect; on success api_stream_init clears the      *)
(* whole stream, on failure the socket is closed                           *)
ConnectReturn(st, elapsed) ==
    /\ asleep' = {} /\ timers' = {}
    /\ LET broken == st \cap {"closed", "terminated", "error"} # {}
       IN  /\ mask' = IF broken THEN mask ELSE {}
           /\ IF ~elapsed /\ ~broken
              THEN /\ life' = "open"
                   /\ status' = {} /\ reserved' = {}
                   /\ UNCHANGED sock
              ELSE /\ life' = "failed"
                   /\ status' = IF elapsed THEN st \cup {"read_timeout"} ELSE st
                   /\ sock' = [sock EXCEPT !.epoll = FALSE]
                   /\ UNCHANGED reserved
    /\ UNCHANGED <<want, offset, unread, running, history>>

-----------------------------------------------------------------------------
(* Operations of tasks *)

(* api_stream_read, and api_stream_on_read up to its api_task_sleep *)
Read(n, timeout) ==
    /\ life = "open" /\ TasksRun /\ "read" \notin asleep
    /\ status \cap ReadFailures = {}
    /\ unread = <<>>
    /\ want' = n
    /\ asleep' = asleep \cup {"read"}
    /\ reserved' = reserved \cup {"read"}
    /\ mask' = mask \cup {"read"}
    /\ timers' = IF timeout THEN timers \cup {"read"} ELSE timers
    /\ UNCHANGED <<life, status, offset, unread, loop, history, sock>>

(* Mutation: the offset into what was put back is not advanced. *)
ReadUnreadAgain(n) ==
    /\ life = "open" /\ TasksRun /\ "read" \notin asleep
    /\ status \cap ReadFailures = {}
    /\ unread # <<>>
    /\ got' = got \o SubSeq(unread, 1, Lesser(n, Len(unread)))
    /\ unread' = IF Len(unread) <= n THEN <<>>
                 ELSE SubSeq(unread, 1, Len(unread) - n)
    /\ UNCHANGED <<life, status, asleep, reserved, mask, timers, want, offset, loop,
                   overwritten, claimed, sock>>

(* api_stream_read of bytes that were put back *)
ReadUnread(n) ==
    /\ life = "open" /\ TasksRun /\ "read" \notin asleep
    /\ status \cap ReadFailures = {}
    /\ unread # <<>>
    /\ LET done == Lesser(n, Len(unread))
       IN  /\ got' = got \o SubSeq(unread, 1, done)
           /\ unread' = SubSeq(unread, done + 1, Len(unread))
    /\ UNCHANGED <<life, status, asleep, reserved, mask, timers, want, offset, loop,
                   overwritten, claimed, sock>>

(* api_stream_unread of the last n bytes read; bytes that were put back    *)
(* before are dropped                                                      *)
Unread(n) ==
    /\ life = "open" /\ TasksRun /\ "read" \notin asleep
    /\ n <= Len(got)
    /\ overwritten' = (overwritten \/ unread # <<>>)
    /\ unread' = SubSeq(got, Len(got) - n + 1, Len(got))
    /\ got' = SubSeq(got, 1, Len(got) - n)
    /\ UNCHANGED <<life, status, asleep, reserved, mask, timers, want, offset, loop,
                   claimed, sock>>

(* api_stream_write, and api_stream_on_write up to its api_task_sleep *)
Write(timeout) ==
    /\ life = "open" /\ TasksRun /\ "write" \notin asleep
    /\ status \cap WriteFailures = {}
    /\ claimed + WriteLength <= MaxOut
    /\ offset' = 0
    /\ asleep' = asleep \cup {"write"}
    /\ reserved' = reserved \cup {"write"}
    /\ mask' = mask \cup {"write"}
    /\ timers' = IF timeout THEN timers \cup {"write"} ELSE timers
    /\ UNCHANGED <<life, status, want, unread, loop, history, sock>>

(* api_stream_close, called by a task that runs; it resumes nobody *)
Close ==
    /\ life = "open" /\ TasksRun
    /\ life' = "closed"
    /\ status' = IF sock.epoll THEN status \cup {"closed"} ELSE status
    /\ unread' = <<>>
    /\ sock' = [sock EXCEPT !.epoll = FALSE]
    /\ UNCHANGED <<asleep, reserved, mask, timers, want, offset, loop, history>>

-----------------------------------------------------------------------------
(* What a resumed operation does.  `st' is the status then, `left' the     *)
(* timers still registered.                                                *)

(* Mutation: the interest of the writer goes away with that of the reader. *)
ResumeReadClears(st, bytes, elapsed, left) ==
    /\ asleep' = asleep \ {"read"}
    /\ reserved' = reserved \ {"read"}
    /\ mask' = {}
    /\ timers' = left \ {"read"}
    /\ status' = IF elapsed THEN st \cup {"read_timeout"} ELSE st
    /\ got' = got \o bytes
    /\ UNCHANGED <<offset, overwritten, claimed>>

(* the rest of api_stream_on_read, which returns read.done *)
ResumeRead(st, bytes, elapsed, left) ==
    /\ asleep' = asleep \ {"read"}
    /\ reserved' = reserved \ {"read"}
    /\ mask' = mask \ {"read"}
    /\ timers' = left \ {"read"}
    /\ status' = IF elapsed THEN st \cup {"read_timeout"} ELSE st
    /\ got' = got \o bytes
    /\ UNCHANGED <<offset, overwritten, claimed>>

(* Mutation: any wakeup ends the write. *)
ResumeWriteOnce(st, off, elapsed, left) ==
    /\ asleep' = asleep \ {"write"}
    /\ reserved' = reserved \ {"write"}
    /\ mask' = mask \ {"write"}
    /\ timers' = left \ {"write"}
    /\ status' = IF elapsed THEN st \cup {"write_timeout"} ELSE st
    /\ claimed' = claimed + off
    /\ offset' = 0
    /\ UNCHANGED <<got, overwritten>>

(* the loop of api_stream_on_write, which sleeps again, or its rest, which *)
(* returns write.offset                                                    *)
ResumeWrite(st, off, elapsed, left) ==
    IF st \cap WriteFailures = {} /\ ~elapsed /\ off < WriteLength
    THEN /\ status' = st
         /\ offset' = off
         /\ timers' = left
         /\ UNCHANGED <<asleep, reserved, mask, history>>
    ELSE /\ asleep' = asleep \ {"write"}
         /\ reserved' = reserved \ {"write"}
         /\ mask' = mask \ {"write"}
         /\ timers' = left \ {"write"}
         /\ status' = IF elapsed THEN st \cup {"write_timeout"} ELSE st
         /\ claimed' = claimed + off
         /\ offset' = 0
         /\ UNCHANGED <<got, overwritten>>

(* the end of api_stream_processor: the reader is resumed, or else the     *)
(* writer                                                                  *)
WakeOne(st) ==
    IF "read" \in reserved THEN ResumeRead(st, <<>>, FALSE, timers)
    ELSE IF "write" \in reserved THEN ResumeWrite(st, offset, FALSE, timers)
    ELSE status' = st /\ UNCHANGED <<asleep, reserved, mask, timers, offset, history>>

(* a resumed operation of a closed stream follows stream->loop, a null     *)
(* pointer, and an event without a request one in stream->reserved; what   *)
(* comes after is not followed                                             *)
Crash ==
    /\ phase' = "crashed"
    /\ UNCHANGED <<stream, batch, running, history, sock>>

-----------------------------------------------------------------------------
(* The loop: epoll_wait, api_stream_processor, timeouts *)

Ready ==
    {e \in EventBits :
        /\ sock.epoll
        /\ CASE e = "IN" -> "read" \in mask /\ (sock.inbox # <<>> \/ sock.fin \/ sock.reset)
             [] e = "PRI" -> "read" \in mask /\ sock.urgent
             [] e = "OUT" -> "write" \in mask
                                /\ (\/ sock.reset
                                    \/ sock.up /\ sock.accepted - sock.acked < TxSize)
             [] e = "RDHUP" -> sock.fin \/ sock.reset
             [] e = "HUP" -> sock.reset
             [] e = "ERR" -> sock.error}

Poll ==
    /\ phase = "timers" /\ running
    /\ phase' = "events"
    /\ batch' = Ready
    /\ UNCHANGED <<stream, running, history, sock>>

(* the processor is called; its branches are tested in this order *)
Processing(first) ==
    /\ phase = "events"
    /\ first \in batch
    /\ \A e \in batch :
          CASE first = "ERR" -> TRUE
            [] first = "HUP" -> e # "ERR"
            [] first = "RDHUP" -> e \notin {"ERR", "HUP"}
            [] first = "IN" -> e \notin {"ERR", "HUP", "RDHUP"}
            [] first = "PRI" -> e \notin {"ERR", "HUP", "RDHUP", "IN"}
            [] first = "OUT" -> batch = {"OUT"}

(* What the status becomes.  On an error it is set from errno, which is    *)
(* that of some other call of the thread, or still 0.                      *)
Flagged(first) ==
    CASE first = "ERR" -> {status \cup {"error"}, status \ {"error"}}
      [] first = "HUP" -> {status \cup {"closed"}}
      [] first = "RDHUP" -> {status \cup {"peer_closed"}}

(* Mutation: the flag is set and nobody is woken. *)
OnHangupSilent(first) ==
    /\ Processing(first)
    /\ life = "open"
    /\ batch' = {}
    /\ status' \in Flagged(first)
    /\ UNCHANGED <<life, asleep, reserved, mask, timers, want, offset, unread, phase,
                   running, history, sock>>

OnHangup(first) ==
    /\ Processing(first)
    /\ life = "open"
    /\ batch' = {}
    /\ \E st \in Flagged(first) : WakeOne(st)
    /\ UNCHANGED <<life, want, unread, phase, running, sock>>

(* api_stream_read_try, and the reader is resumed *)
OnReadable(first) ==
    /\ Processing(first)
    /\ life = "open"
    /\ batch' = {}
    /\ LET n == Lesser(want, Len(sock.inbox))
           st == IF n > 0 THEN status
                 ELSE IF sock.error THEN status \cup {"error"}
                 ELSE IF sock.fin \/ sock.reset THEN status \cup {"eof"}
                 ELSE status                                    \* EAGAIN
       IN  /\ ResumeRead(st, SubSeq(sock.inbox, 1, n), FALSE, timers)
           /\ sock' = [sock EXCEPT !.inbox = SubSeq(@, n + 1, Len(@)),
                                   !.urgent = @ /\ n = 0,
                                   !.error = @ /\ n > 0]
    /\ UNCHANGED <<life, want, unread, phase, running>>

(* Mutation: write.offset is what the last write() took. *)
OnWritableForgets ==
    /\ Processing("OUT")
    /\ life = "open"
    /\ batch' = {}
    /\ LET n == IF sock.reset THEN 0
                ELSE Lesser(WriteLength - offset, TxSize - (sock.accepted - sock.acked))
           st == IF sock.reset THEN status \cup {"error"} ELSE status
       IN  /\ ResumeWrite(st, n, FALSE, timers)
           /\ sock' = [sock EXCEPT !.accepted = @ + n,
                                   !.error = @ /\ ~sock.reset]
    /\ UNCHANGED <<life, want, unread, phase, running>>

(* api_stream_write_try, and the writer is resumed *)
OnWritable ==
    /\ Processing("OUT")
    /\ life = "open"
    /\ batch' = {}
    /\ LET n == IF sock.reset THEN 0
                ELSE Lesser(WriteLength - offset, TxSize - (sock.accepted - sock.acked))
           st == IF sock.reset THEN status \cup {"error"} ELSE status
       IN  /\ ResumeWrite(st, offset + n, FALSE, timers)
           /\ sock' = [sock EXCEPT !.accepted = @ + n,
                                   !.error = @ /\ ~sock.reset]
    /\ UNCHANGED <<life, want, unread, phase, running>>

(* api_tcp_connect_processor *)
OnConnect(first) ==
    /\ phase = "events"
    /\ life = "connecting"
    /\ first \in batch
    /\ first = "HUP" => "ERR" \notin batch
    /\ first = "OUT" => batch \cap {"ERR", "HUP"} = {}
    /\ first \in {"ERR", "HUP", "OUT"}
    /\ batch' = {}
    /\ ConnectReturn(CASE first = "ERR" -> status \cup {"error"}
                       [] first = "HUP" -> status \cup {"closed"}
                       [] first = "OUT" -> status,
                     FALSE)
    /\ UNCHANGED phase

(* an event of a stream that was closed after epoll_wait; the structure    *)
(* itself is taken to be there still                                       *)
OnClosed(first) ==
    /\ Processing(first)
    /\ life = "closed"
    /\ \/ (reserved # {} \/ first \in {"IN", "PRI", "OUT"}) /\ Crash
       \/ /\ reserved = {} /\ first \in {"ERR", "HUP", "RDHUP"}
          /\ batch' = {}
          /\ status' \in Flagged(first)
          /\ UNCHANGED <<life, asleep, reserved, mask, timers, want, offset, unread,
                         phase, running, history, sock>>

EventsDone ==
    /\ phase = "events" /\ batch = {}
    /\ phase' = "timers"
    /\ UNCHANGED <<stream, batch, running, history, sock>>

(* an operation's timer is taken off its list and its task resumed; with   *)
(* `elapsed' by api_timer_process, without by api_timer_terminate          *)
TimerWakes(op, elapsed) ==
    LET left == timers \ {op}
    IN  CASE life = "closed" -> Crash
          [] life # "closed" /\ op = "connect" ->
                ConnectReturn(status, elapsed) /\ UNCHANGED <<phase, batch>>
          [] life # "closed" /\ op = "read" ->
                /\ ResumeRead(status, <<>>, elapsed, left)
                /\ UNCHANGED <<life, want, unread, loop, sock>>
          [] life # "closed" /\ op = "write" ->
                /\ ResumeWrite(status, offset, elapsed, left)
                /\ UNCHANGED <<life, want, unread, loop, sock>>

Timeout(op) == phase = "timers" /\ op \in timers /\ TimerWakes(op, TRUE)

(* api_loop_stop, by any thread at any time *)
Stop ==
    /\ phase \in {"events", "timers"} /\ running
    /\ running' = FALSE
    /\ sock' = [sock EXCEPT !.epoll = FALSE]
    /\ UNCHANGED <<stream, phase, batch, history>>

(* epoll_wait fails and the loop is left; api_loop_cleanup ends the timers *)
Leave ==
    /\ phase = "timers" /\ ~running
    /\ phase' = "ending"
    /\ UNCHANGED <<stream, batch, running, history, sock>>

Terminate(op) == phase = "ending" /\ op \in timers /\ TimerWakes(op, FALSE)

Gone ==
    /\ phase = "ending"
    /\ phase' = "gone"
    /\ UNCHANGED <<stream, batch, running, history, sock>>

-----------------------------------------------------------------------------
(* The peer and the network *)

Network ==
    /\ life \in {"connecting", "open"}
    /\ \/ ~sock.up /\ ~sock.reset /\ sock' = [sock EXCEPT !.up = TRUE]
       \/ ~sock.reset /\ sock' = [sock EXCEPT !.reset = TRUE, !.error = TRUE]
       \/ /\ sock.up /\ ~sock.reset /\ ~sock.fin
          /\ \/ /\ sock.sent < MaxIn
                /\ sock' = [sock EXCEPT !.sent = @ + 1,
                                        !.inbox = Append(@, sock.sent + 1)]
             \/ ~sock.urgent /\ sock' = [sock EXCEPT !.urgent = TRUE]
             \/ sock' = [sock EXCEPT !.fin = TRUE]
       \/ /\ sock.up /\ ~sock.reset /\ sock.acked < sock.accepted
          /\ sock' = [sock EXCEPT !.acked = @ + 1]
    /\ UNCHANGED <<stream, loop, history>>

Operate ==
    \/ Attach
    \/ \E ok \in BOOLEAN : ConnectAtOnce(ok)
    \/ \E timeout \in BOOLEAN : Connect(timeout) \/ Write(timeout)
    \/ \E n \in 1..MaxRead :
          \/ \E timeout \in BOOLEAN : Read(n, timeout)
          \/ ReadUnread(n) \/ Unread(n)
    \/ Close

LoopStep ==
    \/ Poll \/ EventsDone \/ Leave
    \/ \E first \in {"ERR", "HUP", "RDHUP"} : OnHangup(first)
    \/ \E first \in {"IN", "PRI"} : OnReadable(first)
    \/ OnWritable
    \/ \E first \in {"ERR", "HUP", "OUT"} : OnConnect(first)
    \/ \E first \in EventBits : OnClosed(first)

Expire == \E op \in Operations : Timeout(op) \/ Terminate(op)

Next == Operate \/ LoopStep \/ Expire \/ Stop \/ Gone \/ Network

(* The loop goes round as long as it is not stopped. *)
Spec == Init /\ [][Next]_vars /\ WF_vars(LoopStep)

-----------------------------------------------------------------------------
(* Properties *)

(* What is on record of an operation.  The epoll interest of an open       *)
(* stream is exactly what its suspended operations wait for, although      *)
(* reads and writes begin, end and time out independently.                 *)
InterestMatches ==
    /\ life = "open" => mask = asleep /\ reserved = asleep
    /\ life = "connecting" => asleep = {"connect"} /\ reserved = {"connect"}
    /\ life = "failed" => asleep = {}

NoTimerDangles == timers \subseteq asleep

(* the processor finds a request for every event *)
RequestsFound ==
    /\ life = "open" /\ phase = "events" =>
          /\ batch \cap {"IN", "PRI"} # {} => "read" \in reserved
          /\ "OUT" \in batch => "write" \in reserved
    /\ life = "new" => batch = {} /\ asleep = {} /\ reserved = {} /\ mask = {}
                       /\ ~sock.epoll

(* a write in progress keeps within the bounds, and so does the socket *)
WriterBounds ==
    /\ "write" \notin asleep => offset = 0
    /\ "write" \in asleep => claimed + WriteLength <= MaxOut
    /\ sock.acked <= sock.accepted /\ sock.accepted <= sock.acked + TxSize

(* The inductive invariant: whoever may resume an operation, an event or a *)
(* timer, finds its request, and finds it only while the operation is      *)
(* suspended, so no pointer to a stack frame survives the frame.           *)
StreamInv ==
    TypeOK /\ InterestMatches /\ NoTimerDangles /\ RequestsFound /\ WriterBounds

(* bytes in the order the peer sent them, of which there are `sent' *)
Ordered(bytes, sent) ==
    /\ \A i \in 1..Len(bytes) : bytes[i] <= sent
    /\ \A i, j \in 1..Len(bytes) : i < j => bytes[i] < bytes[j]

(* Whatever mixture of reads, bytes put back, timeouts and failures: the   *)
(* bytes the reader has, those put back and those still in the socket are  *)
(* in the order the peer sent them, none twice, and none lost as long as   *)
(* bytes are not put back on top of others; and a reader sleeps only when  *)
(* nothing that was put back is left, so it never overtakes that.          *)
ReadsInOrder ==
    LET bytes == got \o unread \o sock.inbox
    IN  /\ life \in {"new", "connecting", "open"} =>
              /\ Ordered(bytes, sock.sent)
              /\ ~overwritten => Len(bytes) = sock.sent
        /\ life = "open" /\ "read" \in asleep => unread = <<>>

(* The bytes the socket took are the bytes that writes reported, also when *)
(* a write times out or fails half way.                                    *)
WritesAccounted == sock.accepted = claimed + offset

(* A write that returns less than it was given leaves a failure reason in  *)
(* the status.                                                             *)
ShortWriteExplained ==
    [][ "write" \in asleep /\ "write" \notin asleep' /\ claimed' - claimed < WriteLength
            => status' \cap WriteFailures # {} ]_vars

Serving == sock.epoll /\ life = "open" /\ phase \in {"events", "timers"}

(* When the peer closes, everyone asleep on the stream is woken, though    *)
(* the processor resumes one task at a time and reads come first.          *)
PeerCloseWakes ==
    \A op \in {"read", "write"} :
        Serving /\ sock.fin /\ op \in asleep
            ~> op \notin asleep \/ sock.reset \/ ~Serving

(* A reader does not sleep over bytes that are there to be read. *)
DataWakesReader ==
    Serving /\ sock.inbox # <<>> /\ "read" \in asleep
        ~> "read" \notin asleep \/ ~Serving

(* The events of the socket reach every task that sleeps on the stream: its*)
(* readers when bytes are there, and both readers and writers when the peer*)
(* closes.                                                                 *)
SleepersWoken ==
    /\ PeerCloseWakes
    /\ DataWakesReader
=============================================================================
