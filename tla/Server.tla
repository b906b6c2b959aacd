-------------------------------- MODULE Server --------------------------------
(***************************************************************************)
(* The life of a loop with a listener, on both systems: api_loop_start, a  *)
(* thread that runs the rounds and frees the loop, api_loop_stop, _wait    *)
(* and _stop_and_wait from tasks of other loops (unix/api_loop.c,          *)
(* unix/api_wait.c, win/api_loop.c, win/api_wait.c), the references to a   *)
(* loop (unix/api_loop.h), and api_tcp_listen, _accept and _close          *)
(* (unix/api_tcp.c, win/api_tcp.c).                                        *)
(*                                                                         *)
(* One task of the loop accepts.  On unix a connection makes the listener  *)
(* ready as long as the accept's interest is in the mask; on Windows       *)
(* AcceptEx takes the connection and a packet tells.                       *)
(***************************************************************************)
EXTENDS Naturals, Sequences

CONSTANTS
    Waiters,        \* tasks of other loops
    MaxBacklog,     \* bound on the connections that wait to be accepted
    MaxStreams      \* bound on the streams attached to the loop

ASSUME ServerAssumption == MaxBacklog \in Nat \ {0} /\ MaxStreams \in Nat

VARIABLES
    os,             \* "unix" or "win"
    phase,          \* the loop: see Phases
    port,           \* is its epoll descriptor or completion port open?
    inWait,         \* is it in epoll_wait or GetQueuedCompletionStatus?
    refs,           \* base.refs
    freed,          \* has the loop been freed?
    call,           \* call[t]: what t waits in
    wait,           \* wait[t]: the registration of t with the loop
    line,           \* loop->waiters
    missed,         \* history: those in it whom api_wait_notify need not find
    listener,       \* "none", "open", "broken" or "closed"
    status,         \* the flags of listener->status that are set
    reserved,       \* does reserved point to the request of an accept?
    mask,           \* is EPOLLIN in the listener's mask?
    event,          \* what the round has for the listener
    operation,      \* AcceptEx: "none", "pending", or how it ended
    backlog,        \* connections that wait to be accepted
    streams,        \* streams attached to the loop
    hollow          \* history: has an accept returned API__OK with no connection,
                    \* but for one that an error event woke?

rounds == <<os, phase, port, inWait>>
memory == <<refs, freed>>
waiting == <<call, wait, line, missed>>
accepting == <<status, reserved, mask, operation>>
vars == <<rounds, memory, waiting, listener, accepting, event, backlog, streams, hollow>>

(* api_loop_cleanup notifies the waiters, then the thread frees the loop *)
Phases == {"new", "running", "ending", "notified", "freed", "crashed"}

TypeOK ==
    /\ os \in {"unix", "win"} /\ phase \in Phases
    /\ port \in BOOLEAN /\ inWait \in BOOLEAN /\ freed \in BOOLEAN
    /\ reserved \in BOOLEAN /\ mask \in BOOLEAN /\ hollow \in BOOLEAN
    /\ refs \in 0..(2 + MaxStreams) /\ streams \in 0..MaxStreams
    /\ call \in [Waiters -> {"none", "wait", "stopping", "stop"}]
    /\ wait \in [Waiters -> {"none", "posted", "pushing", "listed", "notified"}]
    /\ line \in Seq(Waiters) /\ missed \subseteq Waiters
    /\ listener \in {"none", "open", "broken", "closed"}
    /\ status \subseteq {"closed", "error"}
    /\ event \in {"none", "IN", "ERR", "HUP"}
    /\ operation \in {"none", "pending", "done", "failed"}
    /\ backlog \in 0..MaxBacklog

Init ==
    /\ os \in {"unix", "win"} /\ phase = "new"
    /\ port = FALSE /\ inWait = FALSE /\ refs = 0 /\ freed = FALSE
    /\ call = [t \in Waiters |-> "none"] /\ wait = [t \in Waiters |-> "none"]
    /\ line = <<>> /\ missed = {}
    /\ listener = "none" /\ status = {} /\ reserved = FALSE /\ mask = FALSE
    /\ event = "none" /\ operation = "none"
    /\ backlog = 0 /\ streams = 0 /\ hollow = FALSE

(* api_loop_start; where a step of it fails it undoes the others *)
Start ==
    /\ phase = "new" /\ phase' = "running"
    /\ port' = TRUE /\ refs' = 1
    /\ UNCHANGED <<os, inWait, freed, waiting, listener, accepting, event, backlog,
                   streams, hollow>>

(* a task of the loop runs *)
Runs == phase = "running" /\ ~inWait

-----------------------------------------------------------------------------
(* References *)

(* api_loop_ref, api_loop_unref: the last one frees the loop, and the      *)
(* thread goes on with what is freed                                       *)
Ref == refs' = refs + 1 /\ UNCHANGED <<freed, phase>>

Unref ==
    /\ refs' = refs - 1
    /\ freed' = (freed \/ refs = 1)
    /\ phase' = IF refs = 1 THEN "crashed" ELSE phase

(* api_stream_attach and api_stream_close of a connection *)
AttachStream ==
    /\ Runs /\ port /\ streams < MaxStreams
    /\ streams' = streams + 1 /\ Ref
    /\ UNCHANGED <<os, port, inWait, waiting, listener, accepting, event, backlog,
                   hollow>>

CloseStream ==
    /\ Runs /\ streams > 0
    /\ streams' = streams - 1 /\ Unref
    /\ UNCHANGED <<os, port, inWait, waiting, listener, accepting, event, backlog,
                   hollow>>

-----------------------------------------------------------------------------
(* The listener *)

(* Mutation: the listener takes no reference on unix, either. *)
ListenUnref ==
    /\ Runs /\ listener = "none" /\ port
    /\ listener' = "open" /\ UNCHANGED <<refs, freed, phase>>
    /\ UNCHANGED <<os, port, inWait, waiting, accepting, event, backlog, streams,
                   hollow>>

(* the last step of api_tcp_listen on Windows, whose test is the wrong way *)
(* round: with success it takes no reference, and when the port refuses    *)
(* the socket it reports success (the socket's options are taken to be     *)
(* set; a failure there would be reported likewise)                        *)
ListenWin ==
    \/ port /\ listener' = "open" /\ UNCHANGED <<refs, freed, phase>>
    \/ listener' = "broken" /\ Ref

(* api_tcp_listen, which may fail and then leaves nothing but the socket *)
Listen ==
    /\ Runs /\ listener = "none"
    /\ \/ os = "unix" /\ port /\ listener' = "open" /\ Ref
       \/ os = "win" /\ ListenWin
    /\ UNCHANGED <<os, port, inWait, waiting, accepting, event, backlog, streams,
                   hollow>>

(* api_tcp_close, which resumes nobody *)
CloseListener ==
    /\ Runs /\ listener \in {"open", "broken"}
    /\ listener' = "closed" /\ status' = status \cup {"closed"}
    /\ Unref
    /\ operation' = IF operation = "pending" THEN "none" ELSE operation
    /\ UNCHANGED <<os, port, inWait, waiting, reserved, mask, event, backlog, streams,
                   hollow>>

(* Mutation: the accept's interest is not added to the mask. *)
AcceptUnixUnmasked ==
    /\ os = "unix"
    /\ reserved' = TRUE
    /\ UNCHANGED <<mask, operation, status, backlog, hollow>>

(* api_tcp_accept up to its api_task_sleep, on unix *)
AcceptUnix ==
    /\ os = "unix"
    /\ reserved' = TRUE /\ mask' = TRUE
    /\ UNCHANGED <<operation, status, backlog, hollow>>

(* the loop of api_tcp_accept on Windows: on_accept turns k connections    *)
(* down; then AcceptEx ends at once with a connection, stays pending, or   *)
(* fails                                                                   *)
AcceptWin ==
    /\ os = "win"
    /\ \E k \in 0..backlog :
        \/ /\ k < backlog /\ listener = "open"
           /\ backlog' = backlog - k - 1
           /\ reserved' = FALSE /\ operation' = "none"
           /\ UNCHANGED status
        \/ /\ k = backlog /\ listener = "open"
           /\ backlog' = 0
           /\ reserved' = TRUE /\ operation' = "pending"
           /\ UNCHANGED status
        \/ /\ (k > 0 => listener = "open")
           /\ backlog' = backlog - k
           /\ reserved' = FALSE /\ operation' = "none"
           /\ status' = status \cup {"error"}
    /\ UNCHANGED <<mask, hollow>>

(* api_tcp_accept follows listener->loop, which a close has cleared, and   *)
(* returns status.error, which is API__OK for a listener that hung up      *)
Accept ==
    /\ Runs /\ listener # "none" /\ ~reserved
    /\ \/ /\ listener = "closed"
          /\ phase' = "crashed"
          /\ UNCHANGED <<accepting, backlog, hollow>>
       \/ /\ listener # "closed" /\ status # {}
          /\ hollow' = (hollow \/ "error" \notin status)
          /\ UNCHANGED <<phase, accepting, backlog>>
       \/ /\ listener # "closed" /\ status = {}
          /\ AcceptUnix \/ AcceptWin
          /\ UNCHANGED phase
    /\ UNCHANGED <<os, port, inWait, memory, waiting, listener, event, streams>>

(* Mutation: the listener stays in the mask. *)
AcceptEndsMasked(ok) ==
    /\ IF listener = "closed"
       THEN phase' = "crashed" /\ UNCHANGED <<reserved, mask, operation, hollow>>
       ELSE /\ reserved' = FALSE /\ operation' = "none"
            /\ hollow' = (hollow \/ (~ok /\ "error" \notin status'))
            /\ UNCHANGED <<phase, mask>>

(* the rest of api_tcp_accept, which on unix follows listener->loop again; *)
(* `ok' if there is a connection, or an error event to tell of             *)
AcceptEnds(ok) ==
    IF listener = "closed"
    THEN phase' = "crashed" /\ UNCHANGED <<reserved, mask, operation, hollow>>
    ELSE /\ reserved' = FALSE /\ mask' = FALSE /\ operation' = "none"
         /\ hollow' = (hollow \/ (~ok /\ "error" \notin status'))
         /\ UNCHANGED phase

(* api_tcp_listener_accept_try: on_accept turns k connections down; then   *)
(* one is accepted, there is none left, or accept fails, and the task is   *)
(* resumed only in the first case                                          *)
AcceptTry ==
    \E k \in 0..backlog :
        \/ /\ k < backlog /\ listener = "open"
           /\ backlog' = backlog - k - 1
           /\ UNCHANGED status /\ AcceptEnds(TRUE)
        \/ /\ k = backlog /\ listener = "open"
           /\ backlog' = 0
           /\ UNCHANGED <<status, phase, reserved, mask, operation, hollow>>
        \/ /\ (k > 0 => listener = "open")
           /\ backlog' = backlog - k
           /\ status' = status \cup {"error"}
           /\ UNCHANGED <<phase, reserved, mask, operation, hollow>>

(* An error is read from errno, which no call has set, and may be API__OK. *)
StatusAfter(e) ==
    IF e = "ERR" THEN {status \cup {"error"}, status \ {"error"}} ELSE {status \cup {"closed"}}

(* api_tcp_listener_processor on unix *)
Process ==
    /\ Runs /\ event # "none" /\ event' = "none"
    /\ \/ event = "IN" /\ reserved /\ AcceptTry
       \/ /\ event = "IN" /\ ~reserved /\ phase' = "crashed"
          /\ UNCHANGED <<accepting, backlog, hollow>>
       \/ /\ event # "IN"
          /\ status' \in StatusAfter(event)
          /\ IF reserved THEN AcceptEnds(event = "ERR")
             ELSE UNCHANGED <<phase, reserved, mask, operation, hollow>>
          /\ UNCHANGED backlog
    /\ UNCHANGED <<os, port, inWait, memory, waiting, listener, streams>>

(* and on Windows, where the task goes on in the loop of api_tcp_accept    *)
(* and does not see how AcceptEx ended                                     *)
Packet ==
    /\ phase = "running" /\ inWait /\ port
    /\ operation \in {"done", "failed"}
    /\ inWait' = FALSE
    /\ \/ /\ ~reserved /\ phase' = "crashed"
          /\ UNCHANGED <<accepting, backlog, hollow>>
       \/ /\ reserved
          /\ reserved' = FALSE /\ operation' = "none"
          /\ hollow' = (hollow \/ operation = "failed")
          /\ UNCHANGED <<status, mask, backlog, phase>>
       \/ reserved /\ AcceptWin /\ UNCHANGED phase
    /\ UNCHANGED <<os, port, memory, waiting, listener, event, streams>>

(* the system: a connection comes, and AcceptEx takes it or fails *)
Arrives ==
    /\ listener = "open" /\ phase = "running" /\ backlog < MaxBacklog
    /\ backlog' = backlog + 1
    /\ UNCHANGED <<rounds, memory, waiting, listener, accepting, event, streams, hollow>>

AcceptExEnds ==
    /\ operation = "pending" /\ phase = "running"
    /\ \/ backlog > 0 /\ operation' = "done" /\ backlog' = backlog - 1
       \/ operation' = "failed" /\ UNCHANGED backlog
    /\ UNCHANGED <<rounds, memory, waiting, listener, status, reserved, mask, event, streams,
                   hollow>>

-----------------------------------------------------------------------------
(* Waiting for a loop to end, from tasks of other loops *)

(* api_wait_exec: on unix the registration is pushed on loop->waiters, a   *)
(* queue of api_mpscq.h.  This is the exchange of its head                 *)
RegisterUnix(t) ==
    /\ os = "unix"
    /\ wait' = [wait EXCEPT ![t] = "pushing"]
    /\ line' = Append(line, t)
    /\ missed' = IF phase = "notified" THEN missed \cup {t} ELSE missed

(* on Windows it is posted to the port, which must be open *)
RegisterWin(t) ==
    /\ os = "win" /\ port
    /\ wait' = [wait EXCEPT ![t] = "posted"]
    /\ UNCHANGED <<line, missed>>

(* a loop that is freed is followed nevertheless *)
Register(t) ==
    \/ /\ phase # "freed" /\ UNCHANGED phase
       /\ RegisterUnix(t) \/ RegisterWin(t)
    \/ /\ phase = "freed" /\ phase' = "crashed"
       /\ UNCHANGED <<wait, line, missed>>

(* and this the link from the node in front of t, which is the stub in the *)
(* loop when t is the first                                                *)
Link(t) ==
    /\ wait[t] = "pushing" /\ phase # "crashed"
    /\ IF phase = "freed" /\ Head(line) = t
       THEN phase' = "crashed" /\ UNCHANGED wait
       ELSE wait' = [wait EXCEPT ![t] = "listed"] /\ UNCHANGED phase
    /\ UNCHANGED <<os, port, inWait, memory, call, line, missed, listener, accepting, event,
                   backlog, streams, hollow>>

(* Has the frame with the registration of t been left? *)
FrameGone(t) == wait[t] = "listed" /\ call[t] \in {"stopping", "stop"}

(* it writes to a frame that is gone *)
LinkGarbage(t) ==
    /\ wait[t] = "pushing" /\ phase # "crashed"
    /\ \E i \in 2..Len(line) : line[i] = t /\ FrameGone(line[i - 1])
    /\ phase' = "crashed"
    /\ UNCHANGED <<os, port, inWait, memory, waiting, listener, accepting, event, backlog,
                   streams, hollow>>

(* api_loop_wait *)
Wait(t) ==
    /\ phase \notin {"new", "crashed"} /\ call[t] = "none"
    /\ Register(t)
    /\ call' = [call EXCEPT ![t] = "wait"]
    /\ UNCHANGED <<os, port, inWait, memory, listener, accepting, event, backlog, streams,
                   hollow>>

(* api_loop_stop_and_wait registers, closes and sleeps; the registration   *)
(* is in a frame that is gone by then                                      *)
StopAndWait(t) ==
    /\ phase \notin {"new", "crashed"} /\ call[t] = "none"
    /\ Register(t)
    /\ call' = [call EXCEPT ![t] = "stopping"]
    /\ UNCHANGED <<os, port, inWait, memory, listener, accepting, event, backlog, streams,
                   hollow>>

(* its api_close, and the one of api_loop_stop *)
ThenClose(t) ==
    /\ call[t] = "stopping" /\ wait[t] # "pushing" /\ phase # "crashed"
    /\ call' = [call EXCEPT ![t] = "stop"]
    /\ port' = FALSE
    /\ phase' = IF phase = "freed" THEN "crashed" ELSE phase
    /\ UNCHANGED <<os, inWait, memory, wait, line, missed, listener, accepting, event, backlog,
                   streams, hollow>>

Stop ==
    /\ phase = "running" /\ port /\ port' = FALSE
    /\ UNCHANGED <<os, phase, inWait, memory, waiting, listener, accepting, event, backlog,
                   streams, hollow>>

(* api_wait_processor on Windows puts it in front of loop->waiters *)
Listed(t) ==
    /\ phase = "running" /\ inWait /\ port /\ wait[t] = "posted"
    /\ inWait' = FALSE
    /\ wait' = [wait EXCEPT ![t] = "listed"]
    /\ line' = <<t>> \o line
    /\ UNCHANGED <<os, phase, port, memory, call, missed, listener, accepting, event, backlog,
                   streams, hollow>>

(* Does api_mpscq_pop find a waiter?  It takes the first if its push and   *)
(* that of the next, if there is one, are through.                         *)
Pops ==
    /\ line # <<>> /\ wait[Head(line)] = "listed"
    /\ Len(line) > 1 => wait[line[2]] = "listed"

(* Mutation: only the first waiter is told. *)
NotifyFirst(t) ==
    /\ phase = "ending" /\ Pops /\ Head(line) = t
    /\ wait' = [u \in Waiters |->
                  IF u = t THEN "notified" ELSE IF wait[u] = "listed" THEN "none" ELSE wait[u]]
    /\ line' = <<>>
    /\ UNCHANGED <<rounds, memory, call, missed, listener, accepting, event, backlog, streams,
                   hollow>>

(* a round of api_wait_notify *)
Notify(t) ==
    /\ phase = "ending" /\ Pops /\ Head(line) = t
    /\ wait' = [wait EXCEPT ![t] = "notified"]
    /\ line' = Tail(line)
    /\ UNCHANGED <<rounds, memory, call, missed, listener, accepting, event, backlog, streams,
                   hollow>>

(* it finds something else where the frame was *)
NotifyGarbage(t) ==
    /\ phase = "ending" /\ line # <<>> /\ Head(line) = t /\ FrameGone(t)
    /\ phase' = "crashed"
    /\ UNCHANGED <<os, port, inWait, memory, waiting, listener, accepting, event, backlog,
                   streams, hollow>>

(* the wakeup arrives, and the call returns *)
Return(t) ==
    /\ wait[t] = "notified" /\ call[t] \in {"wait", "stop"}
    /\ call' = [call EXCEPT ![t] = "none"] /\ wait' = [wait EXCEPT ![t] = "none"]
    /\ UNCHANGED <<rounds, memory, line, missed, listener, accepting, event, backlog, streams, hollow>>

-----------------------------------------------------------------------------
(* The loop's thread *)

(* it starts to wait, or finds that it cannot *)
EnterWait ==
    /\ Runs /\ event = "none"
    /\ IF port THEN inWait' = TRUE /\ UNCHANGED phase
               ELSE phase' = "ending" /\ UNCHANGED inWait
    /\ UNCHANGED <<os, port, memory, waiting, listener, accepting, event, backlog, streams,
                   hollow>>

(* epoll_wait returns because of the listener *)
Ready ==
    /\ phase = "running" /\ inWait /\ os = "unix"
    /\ listener = "open" /\ mask /\ backlog > 0
    /\ inWait' = FALSE /\ event' = "IN"
    /\ UNCHANGED <<os, phase, port, memory, waiting, listener, accepting, backlog, streams,
                   hollow>>

(* or because something is wrong with it *)
Trouble(e) ==
    /\ phase = "running" /\ inWait /\ os = "unix" /\ listener = "open"
    /\ inWait' = FALSE /\ event' = e
    /\ UNCHANGED <<os, phase, port, memory, waiting, listener, accepting, backlog, streams,
                   hollow>>

(* or because of something else, or a timer *)
Stirs ==
    /\ phase = "running" /\ inWait /\ (os = "win" => port)
    /\ inWait' = FALSE
    /\ UNCHANGED <<os, phase, port, memory, waiting, listener, accepting, event, backlog,
                   streams, hollow>>

(* GetQueuedCompletionStatus returns when the port is closed; epoll_wait   *)
(* does not                                                                *)
Abandoned ==
    /\ phase = "running" /\ inWait /\ os = "win" /\ ~port
    /\ inWait' = FALSE /\ phase' = "ending"
    /\ UNCHANGED <<os, port, memory, waiting, listener, accepting, event, backlog, streams,
                   hollow>>

Halfway == \E t \in Waiters : wait[t] = "pushing"

(* api_wait_notify ends when a pop finds nobody, which it also does when   *)
(* the push it would have to go past is half done                          *)
Notified ==
    /\ phase = "ending" /\ ~Pops
    /\ phase' = "notified"
    /\ missed' = IF Halfway THEN missed \cup {line[i] : i \in DOMAIN line} ELSE missed
    /\ UNCHANGED <<os, port, inWait, memory, call, wait, line, listener, accepting, event, backlog,
                   streams, hollow>>

(* the rest of api_loop_cleanup, and the thread frees the loop whatever    *)
(* refers to it                                                            *)
Free ==
    /\ phase = "notified" /\ phase' = "freed" /\ freed' = TRUE
    /\ UNCHANGED <<os, port, inWait, refs, waiting, listener, accepting, event, backlog,
                   streams, hollow>>

Thread == EnterWait \/ Process \/ Packet \/ Abandoned \/ Notified \/ Free

Next ==
    \/ Start \/ Stop \/ AttachStream \/ CloseStream
    \/ Listen \/ Accept \/ CloseListener \/ Arrives \/ AcceptExEnds
    \/ \E t \in Waiters :
        \/ Wait(t) \/ StopAndWait(t) \/ ThenClose(t) \/ Return(t)
        \/ Link(t) \/ LinkGarbage(t) \/ Listed(t) \/ Notify(t) \/ NotifyGarbage(t)
    \/ Thread \/ Ready \/ Stirs \/ \E e \in {"ERR", "HUP"} : Trouble(e)

(* the loop's thread goes on; what is ready or in the port is not          *)
(* overtaken for ever; the tasks of other loops go on, too                 *)
Spec ==
    /\ Init /\ [][Next]_vars
    /\ WF_vars(EnterWait \/ Process \/ Abandoned \/ Notified \/ Free)
    /\ SF_vars(Packet) /\ SF_vars(Ready) /\ WF_vars(AcceptExEnds)
    /\ \A t \in Waiters :
        /\ SF_vars(Listed(t))
        /\ WF_vars(Link(t) \/ ThenClose(t) \/ Notify(t) \/ Return(t))

-----------------------------------------------------------------------------
(* Properties *)

(* The loop is freed only by its own thread when it is through; on Windows *)
(* also by closing a listener, which gives back a reference it never took. *)
FreedOnlyAtEnd == refs = 0 /\ freed => os = "win" /\ listener = "closed"

(* A connection is reported only to an accept that is under way: the       *)
(* processor follows reserved without looking.                             *)
EventFindsRequest ==
    /\ event = "IN" => reserved
    /\ operation # "none" => reserved

(* On unix an accept returns API__OK without a connection only after the   *)
(* listener has hung up, or when EPOLLERR comes while errno is 0.          *)
OkMeansConnection == os = "unix" /\ hollow => "closed" \in status

(* The count of references is that of the thread, the streams and, on unix,*)
(* the open listener.  On Windows a listener takes a reference only when it*)
(* is broken, and a closed one may have given back one too many.           *)
RefsCounted ==
    LET held == (IF phase = "new" THEN 0 ELSE 1) + streams
                    + (IF listener = "broken" \/ (os = "unix" /\ listener = "open")
                       THEN 1 ELSE 0)
    IN  /\ refs = held \/ (os = "win" /\ listener = "closed" /\ refs = held - 1)
        /\ phase = "new" => streams = 0 /\ listener = "none" /\ ~freed
        /\ os = "unix" => listener # "broken"

(* The interest in the mask and the events of a round are those of unix,   *)
(* an operation is one of Windows, and the interest is there only while    *)
(* reserved points to an accept.                                           *)
OneSystem ==
    /\ mask => os = "unix" /\ reserved
    /\ event # "none" => os = "unix"
    /\ operation # "none" => os = "win"

(* Who is in the line is there once and with a push that has begun, and    *)
(* nobody has a registration without a call that made it.                  *)
InLine ==
    /\ \A i \in DOMAIN line : wait[line[i]] \in {"pushing", "listed"}
    /\ \A i, j \in DOMAIN line : line[i] = line[j] => i = j
    /\ \A t \in Waiters : call[t] = "none" => wait[t] = "none"
    /\ phase = "new" => \A t \in Waiters : call[t] = "none"

(* When the thread is through with the waiters, nobody is left whom it had *)
(* to find: those still in the line came after it, or were there with a    *)
(* push half done, their own or another's, at which api_mpscq_pop gives up.*)
NobodyLeft ==
    /\ phase \in {"notified", "freed"} => \A i \in DOMAIN line : line[i] \in missed
    /\ missed # {} => phase \in {"notified", "freed", "crashed"}

(* An accept and the events of its listener belong together: an event finds*)
(* the frame of the accept, and an accept that returns API__OK has a       *)
(* connection; the loop is kept by those that refer to it; and it ends     *)
(* only when all who wait for it, and whom a pop can reach, have been told.*)
ServerInv ==
    /\ TypeOK
    /\ EventFindsRequest
    /\ OkMeansConnection
    /\ RefsCounted
    /\ OneSystem
    /\ InLine
    /\ NobodyLeft

(* An accept returns when a connection comes, unless on_accept turns it    *)
(* down, accept fails, or the listener or the loop is stopped.             *)
AcceptReturns ==
    (reserved /\ backlog > 0 /\ phase = "running") ~>
        (~reserved \/ backlog = 0 \/ status # {} \/ phase # "running" \/ ~port)

Heard(t) ==
    \/ call[t] = "none" \/ phase = "crashed" \/ t \in missed
    \/ wait[t] = "posted" /\ phase # "running"

(* Those that wait for a loop hear of its end, except                      *)
(*   - who registers after the waiters were notified, or is registering, or*)
(*     is in the queue with one who is, at the moment in which a pop finds *)
(*     that push half done: api_wait_notify does not try again (`missed'); *)
(*   - on Windows who is still in a port that is closed;                   *)
(*   - everyone, if on unix nothing happens any more that makes epoll_wait *)
(*     return: closing its descriptor does not.                            *)
WaitersHeard ==
    \A t \in Waiters :
        [](call[t] # "none" /\ ~port => <>Heard(t) \/ <>[](os = "unix" /\ inWait))
=============================================================================
