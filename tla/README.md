# A TLA+ verification of libapi

libapi is a C library for servers: an event loop per thread (epoll on unix,
completion ports on Windows) and cooperative tasks with stacks of their own, so
that code on top of it reads like blocking code. This directory holds TLA+
modules of its core, the TLC models that check them and TLAPS proofs about them.
Paths below are relative to `src/src/api/src/` unless they start with `src/`.

## 1. Inventory

| Part | State | Operations | Interacts with |
|---|---|---|---|
| Queue of asyncs `unix/api_mpscq.h` | head, tail, stub, next links | push (any thread), pop (the loop) | asyncs |
| Asyncs `unix/api_async.c` | queue, eventfd | post, wakeup, exec; processor; terminate | every thread; tasks, through handlers |
| Tasks `api_task.c`, `api_loop_base.c` | current, prev, main; per task parent, is_done, is_post, context | create, delete, exec, post, sleep, wakeup; api_loop_call | everything that suspends |
| Events `*/api_event.c` | value, reserved task | init, signal, wait | tasks, timeouts |
| Tree `api_rbtree.c` | parent, left, right, colour of each node | insert, remove, search, first, next | timers |
| Timers `api_timer.c` | three trees of lists (sleeps, idles, timeouts), versions | set, pass, terminate, nearest event | the loop calls the passes; a pass resumes tasks, which set timers |
| Loop `*/api_loop.c` | now, last activity, descriptor, reference count | rounds, start, stop, wait, clean-up | all of the above |
| Transfer `api_stream_common.c` | buffers, two wakeup counters, read_done | reader task, writer task | tasks, asyncs, streams |
| Streams `*/api_stream.c` | status, waiting reader and writer; interest in epoll, requests with aio, OVERLAPPED structures | attach, read, write, processor, completion handlers, close | epoll, aio, completion port, timeouts, filters |
| TCP `*/api_tcp.c` | listener, waiting task | listen, accept, connect, close | epoll, completion port, timeouts, reference count of the loop |
| Waits `*/api_wait.c` | list of waiting tasks | init, exec, notify | two loops |
| Filters, unread `api_stream_common.c` | list of filters, unread bytes | attach, detach, unread, read_exact | streams |
| HTTP `src/src/http` | request and header under construction, buffer | parse, callbacks, clean, get_header | streams, the vendored parser |
| SSL `src/src/ssl` | BIOs of OpenSSL | filter callbacks | streams |

The hard behaviours:

* **Concurrency of threads** is confined to the queue and the eventfd, the completion
  handlers of aio, and the end of a loop, which others wait for and stop. Everything
  else in a loop is single-threaded, but *not* sequential: any call that suspends
  lets other tasks, and the loop, run in the middle of a function.
* **Stack objects shared across a suspension.** Timers, transfers, requests and the
  registrations of waiters live on the stack of the suspended task; each must be
  unlinked before its task goes on.
* **Operations that cannot be taken back.** When a call times out its request is still
  with aio or the completion port, and will be completed into a frame that is gone.
* **Input cut anywhere.** A read may end in the middle of a header; the parser's
  callbacks put the pieces together.
* **Loops that resume tasks while they walk**: the pass over timers keeps `next`
  pointers into structures that the resumed tasks change.
* **Who resumes whom**: a task goes to `main` when it sleeps and to its parent when
  it ends. Every function that swaps by itself has to respect both.
* **Time**: unsigned differences of times that were read at different moments, and
  64-bit differences cast to an `int`.

`PROJECT.json` lists the hazards one by one, with the properties about them.

## 2. Modules

```
FifoQueue  <=(refines)=  Mpscq  <-EXTENDS-  Async  <-  AsyncProofs    unix asyncs
Task  <-EXTENDS-  Event  <-  TaskProofs                   scheduler, events
OrderedTree  <-EXTENDS-  Timer  <-  TimerProofs           timers and loop rounds
     ^ given by MCTimer: RBTree                           red-black tree
RBTree  <-EXTENDS-  RBTreeSet   (run by MCSequential)     tree as a set of keys
Stream      <-  StreamProofs                              TCP streams, connect, unread (unix)
FileStream  <-  FileStreamProofs                          file streams over aio (unix)
WinStream   <-  WinStreamProofs                           streams and connect over a completion port
Server      <-  ServerProofs                              loop from start to free, waits, listener
Transfer    <-  StreamProofs (beside Stream)              api_stream_transfer
HttpParse   <-  HttpProofs                                http_request_parse
```

Each `MC<module>` extends a module and is what TLC runs. `MCSequential` runs the two
components that nothing runs beside, `RBTreeSet` and the conversations of `MCHttpParse`,
each behaviour one of them.

### Mpscq, and its abstract specification FifoQueue

One action per shared-memory access. `BeginPush`, `PushSwap`, `PushLink` are the
three statements of `api_mpscq_push`: clear `next`, exchange `head`, link the old
head. Between the last two the queue is broken: the new node cannot be reached
from the tail. `PopStubNull`, `PopStubSkip`, `PopTake`, `PopLast`, `PopHeadMoved`,
`PopPushStub`, `PopTakeLast`, `PopGiveUp` are the branches of `api_mpscq_pop` in
their order, each ending at the next access to memory that producers write. The
push of the stub inside pop uses the same steps as a producer's push.

`FifoQueue` is what a caller may rely on: a push takes effect at some moment
between its call and its return, a pop takes the oldest node or returns nothing.
Nothing may be returned from a queue that is not empty *only* while some push is
under way. That allowance is the contract that Async has to live with. Under the
mapping a push takes effect at its exchange.

### Async

Extends `Mpscq` with the eventfd, the loop's thread and its end. `api_async_post`,
`api_async_wakeup` and `api_async_exec` have the same shape (allocate, push, write
8 bytes to the eventfd) and are one action, `Post`, followed by `PostSwap`, `PostLink`
and `EventfdWrite`. The loop is in epoll, reads the eventfd, then pops and calls
handlers until a pop returns nothing. `Terminate` is `api_async_terminate`: one more
drain, then nothing. What handlers do is in Task; here they return (`HandlerDone`).

### Task

`running` is the context that really executes, `current` the scheduler's opinion.
`Swap` is `api_task_swapcontext` including the clean-up that the resumed side does:
free `prev` if it was posted and is done. `Start` is `api_task_create` followed by the
first swap into the new context. `Post`, `Call`, `CallReturn`, `Sleep`, `Wake`,
`Finish` are the ways in and out. `waiting` abstracts who will wake a sleeping task
(stream, timer, listener, async): in this module it is always Main and always once
per sleep. In module Event a task may be woken by the signal of another as well.
`api_async_exec_handler` is left out:
it deletes its task as soon as that sleeps, and nothing can be said afterwards.

### Event

`Signal` and the two halves of `api_event_wait` over Task. The second half
(`WaitReturn`) sets `scheduler.current` to 0 as the code does, after which the task
can use no operation of the loop and can only end. Any number of tasks may wait for an
event. `ev->reserved` has room for one and `api_event_wait` does not ask whether it is
taken, so a second waiter overwrites the first: `displaced` remembers whom, and only a
timeout is left to wake such a task. No document says that an event is for one waiter, or
that it is for several, so this is an exception of the property and not a violation. `Resume`
is a wakeup by the loop, of which `lapsed` remembers that it ended a wait; a wait that times
out leaves `reserved`, and if a signal then swaps to a task that is gone, the behaviour
ends there.

### RBTree, RBTreeSet

`RBTree` translates `api_rbtree.c` to operators on a record of functions (parent,
left, right, red) and a root: rotations, both rebalancings, `api_rbtree_swap` with its
case of adjacent nodes, and `NextNode`, which is what `api_rbtree_next` does and not
the in-order successor. A read through a null pointer makes the tree crashed.
`RBTreeSet` inserts and removes keys in any order beside a plain set.

### OrderedTree, Timer

`OrderedTree` is what the timers ask of the tree, as parameters and assumptions: a set
of keys with its least one, and a next one of which is known only that it is there and
greater, because `api_rbtree_next` may pass over keys. `MCTimer` gives these parameters
the operators of `RBTree` and every tree they can build, so TLC checks the timers over
the real tree, and the assumptions; `QueriesRight` checks the same promises on twelve keys.

`Timer` has the three sets of timers over that tree, and the rounds of
`api_loop_run_internal` around them: pass over the sleeps, compute the wait timeout,
wait, run processors or pass over the idles, pass over the timeouts. `walk` holds the
locals of a pass (list, next list, timer). A pass that wakes a task hands control to
it, and the task may set timers in the set that is being walked (`Suspend`), wait
without one, or resume another task (`Signal`), which cancels *its* timer and ends. If that
timer is the one that the pass has saved in `temp` before it resumed anybody, the pass goes
on in a stack frame that is gone: this is `PassAstray`, and the phase `astray`, in which
behaviours end. Time
passes while tasks run and while the loop waits (`Tick`). `platform` selects
`unix/api_loop.c` or `win/api_loop.c`. They differ in whether the clock is read after
the timeouts, in the type that the wait timeout is cast to, in the number of events
handled per round, and in `EINTR`. Times are `uint64_t` scaled down to 16 bits and an
`int` to 8, so differences wrap around as in C. `Stopped` and `EndPassDone` are
`api_loop_cleanup` with its three calls of `api_timer_terminate`. A read of the head of
an empty list by `api_timers_nearest_event` is the phase `crashed`.

### Stream

A TCP stream of `unix/api_stream.c` with one reading and one writing task, its birth by
`api_stream_attach` or `api_tcp_connect`, and bytes put back by `api_stream_unread`. A
suspended operation leaves behind its request (`reserved`), its bit of the epoll
interest (`mask`) and a timer (`timers`); `asleep` says who is really suspended. `Read`,
`Write` and `Connect` run up to `api_task_sleep`; `ResumeRead`, `ResumeWrite` and
`ConnectReturn` are what follows it, and are used by every action that resumes:
the branches of `api_stream_processor` (`OnHangup`, `OnReadable`, `OnWritable`), the
connect processor (`OnConnect`) and timers that elapse or are terminated. `Poll` takes
the events, `batch`, and tasks, timers and `api_loop_stop` act between that and their
processing. The kernel and the peer are `Network`: data, urgent data, FIN and RST at any
moment. `OnClosed` and the timers of a closed stream follow null pointers in the code;
behaviours end there, in the phase `crashed`. Filters that only pass calls on are left
out, and the structure of a closed stream is taken not to be freed.

### Transfer

One step from being resumed to being suspended again, for the reader task and the
writer task of `api_stream_transfer`. Wakeups are asyncs; the loop resumes the writer
wherever it is, in the transfer (`WriterWoken`) or in `api_stream_write`. What that does
with a wakeup that is not its own depends on `dst`. A unix socket goes back to sleep
(`WriteWoken`). On Windows the write returns as if its request had ended, and the transfer
fails (`WriteCutShort`). A unix file goes round its loop again: it clears the request that
aio is at work on and submits the same bytes once more (`Resubmit`); or, if the handler has
set `write.done` just before it is cleared, it submits and never learns of the first
(`ResubmitUnseen`). `Land` is aio's handler in its thread, which writes `write.done` and
posts a wakeup like that of the reader; `FileWritten` is the write that finds it set. The
handler of a request whose write is over (`behind`) works on a frame of the writer that is
gone (`LandAstray`), where behaviours end. `told` is what `api_stream_write` reported,
`output` what is in `dst`, and `again` says that some bytes were submitted twice. Buffers
are sequences of chunks, known by number and size, and a chunk is written as a whole or not
at all: the rounds of a write are those of Stream, FileStream and WinStream.

### FileStream

A file of `unix/api_stream.c`, opened (appending) or created. `Read` and `Write` hand a
request to aio and sleep; `EndRead` and `EndWrite` are what follows. aio finishes a
request (`Complete`) in another thread, whose handler (`Completion`) writes the result
into the frame and posts a wakeup, which `Deliver` hands to the task, in whatever call
that is by then. A request whose call has returned is not `live`; its handler finds
either the old contents of the frame, and sends a stray wakeup, or something else
(`FrameOverwritten`), where behaviours end. `strayed` remembers that a call was woken by
such a wakeup.

### WinStream

A file or TCP stream of `win/api_stream.c`, its birth by `api_stream_attach` or
`api_tcp_connect`, and the completion port. `io` holds the operations of the system and
the packets of the port. `Deliver` is a packet through `api_loop_run_internal`, which
drops those of aborted operations, and through the processor that the stream has at that
moment: `api_stream_processor` or `api_tcp_connect_processor`. `Target` is the task it
resumes, rightly or not; `strayed` remembers that a packet resumed a call it does not
belong to. The counters `owed` and `unclaimed` compare what the system transferred with
what the calls returned, as long as no packet strays. The unread buffer is the one of
Stream and left out here.

### Server

One loop with a listener, on unix or Windows (`os`), and tasks of other loops that wait
for it or stop it. The loop's thread is in a round or in `epoll_wait` /
`GetQueuedCompletionStatus` (`inWait`); `Notified` and `Free` are its end. `refs` is
counted as the code does, and a count of zero frees the loop whoever brought it there.
`Listen`, `Accept` and `CloseListener` are the calls of a task of the loop; `Process`
and `AcceptTry` are the processor on unix, `Packet` the one on Windows. An error event sets
`status.error` to `errno`, which no call has set and which may be 0 (`StatusAfter`). Other
work of the loop is `Stirs`. Waiters register, stop, are notified and return. On unix to
register is a push on a queue of `api_mpscq.h`: its exchange, which gives a place in `line`
(`RegisterUnix`), and its link (`Link`), with anything between them. `Pops` is what
`api_mpscq_pop` finds in such a queue (module Mpscq has its accesses one by one), and
`Notified` the pop that finds nobody: also when the push of the first in line, or of the
next one, is half done. `missed` remembers who was in the line then, or came after it. On
Windows to register is a message to the port (`RegisterWin`, `Listed`). The registration of
`api_loop_stop_and_wait` is in a frame that is gone when the loop notifies it
(`FrameGone`), so that `NotifyGarbage` and `LinkGarbage` may end the behaviour. `base.terminated`, which many
functions test, is set nowhere in the library and is left out of all modules.

### HttpParse

`http_request_parse` reading from a stream in pieces of every size up to the buffer's.
`Execute` is `http_parser_execute` as far as it calls back: which text it marks, when a
mark is called back (at its end and at the end of a piece), and where it stops. `OnUrl`,
`OnHeaderField`, `OnHeaderValue`, `OnHeadersComplete` and `Concat` are the callbacks of
`http_parse.c`, `ParseUrl`, `ParseQuery`, `Param` and `Decode` what it does with the url.
`allocs` counts allocations that are not freed. The caller is the loop of
`demo/src/web_server.c`: parse, read the body, clean, parse the next request. A method,
a version or a line end is one token, since the parser calls nobody inside them, and so
is an absolute url's `http://h`. `past` remembers that the parser went on behind the
headers of a request, as it does with every read that holds bytes behind them, except
after `CONNECT`. Of what is then parsed little is claimed, and `Pipelined` shows what that
does to the next request.

`Bytes` are the tokens a stream may be made of. A conversation is any sequence of messages
whose headers end where the client means them to (`EndsOnce`): the first empty line of a
message is the one that `Top` ends with, and the first version behind the beginning of the
url ends the url. That is what a message is, not a restriction of the code: after an earlier empty line the rest would be
the body. What a line holds is free, a line without a colon or without a name included.
`RequestParsed` claims something of well-formed messages only (`WellFormed`): a known method,
a url without spaces, headers with a name and a colon, and line ends inside a value only
where a space follows. `TextIn` is the text such a value stands for.

### Mutation operators

Operators whose comment begins with "Mutation:" stand before the definition they
vary. They are not used by the specifications. Each is a plausible slip in the code,
and for each property of a run some mutation makes TLC report a violation of it.

## 3. Runs

All states are explored exhaustively. Figures are distinct states.

| Run | Checks | Instance |
|---|---|---|
| `async` | `NoWriteToReleasedNode`, `RefinesFifo` of the queue; `NoLostWakeup`, `TerminateDrains`, `EveryNodeHandled` | 2 threads and a task of the loop as producers, 2 nodes, 425 k |
| `task` | `RunsLiveTask`, `CallSeesDone`, `NoStranded`, `TasksEnd` | 4 tasks, 8 k |
| `event` | `EventInv` (`EventTypeOK`, `CurrentRuns`, `PostedOnly`, `FreedOutside`, `SleeperReserved`, `NoMissedSignal`, `SignalsFollowWaits`) | 3 tasks, 2 events, 56 k |
| `timer` | `TimerInv` (`TypeOK`, `TimersRegistered`, `WalkValid`, `SavedTimer`, `Control`, `IdlesUntimed`, `SleepListsFull`, `FirstSleepPast`, `SleepsPastOnWindows`), `ListsInOrder`, `SleepersWaitedFor`, `SleepNotEarly` | 3 tasks, 2 periods, 3 ticks, both platforms, 1.5 M |
| `stream` | `StreamInv`, `ReadsInOrder`, `WritesAccounted`, `ShortWriteExplained`, `SleepersWoken` (`PeerCloseWakes`, `DataWakesReader`) | 2 bytes each way, send buffer of 1, 470 k |
| `transfer` | `TransferInv` (`TransferTypeOK`, `InOrder`, `OutputAgrees`, `OneWakeup`, `WriterHolds`), `CompleteOnReturn`, `ReturnsUnlessWakeupLost` | 4 chunks, 3 kinds of destination, 308 k |
| `file` | `FileInv` (`TypeOK`, `SleeperHasWaker`, `FrameOutlivesRequest`, `RequestsOfCalls`, `OneRequest`, `ReadsWithin`, `ResultsRight`), `ContentRight` (`EofMeansEnd`, `WrittenIsCounted`), `CallsReturn` | 2 tasks, 3 requests, file of up to 4 bytes, 711 k |
| `win` | `WinInv` (`TypeOK`, `WakesItsCall`, `OverlappedFree`, `BufferOutlivesOperation`, `CallsReserved`, `OperationsOfCalls`, `LeftBehind`, `ConnectTells`, `NoBytesInvented`), `OpenMeansConnected`, `BytesAccounted` (`ReadsAccounted`, `WritesAccounted`), `CallsReturn` | 2 tasks, 2 operations, writes of 2 bytes, 689 k |
| `server` | `ServerInv` (`TypeOK`, `EventFindsRequest`, `OkMeansConnection`, `RefsCounted`, `OneSystem`, `InLine`, `NobodyLeft`), `FreedOnlyAtEnd`, `AcceptReturns`, `WaitersHeard` | 2 waiters, backlog of 2, 1 stream, both systems, 140 k |
| `sequential` | of HttpParse `RequestParsed` (`Gathered`), `MemoryKept` (`TypeOK`, `NothingLeaked`, `BufferFits`, `ContextTidy`), `BodyLeft` (`ParserInStep`), `ParamsRight`; of RBTreeSet `SearchTree` (`NoCrash`, `KeepsKeys`, `ParentsMatch`), `QueriesRight`, `Balanced` | conversations of one or two requests, reads of up to 7; 12 keys; 271 k |
| `timer_starve` | `DueSleepersWoken`: a violation, see below | 2 tasks, 2 periods, unix |
| `pipelining` | `Pipelined`: a violation, see below | the conversations of `sequential` |

What they show:

* **async**, the queue. Lock-free push and pop are linearizable for one consumer. No producer
  writes into a node that was handed out (and may be free), although it writes to
  `prev->next` after others have moved on.
* **async**, the loop. When the loop sits in epoll with a node in the queue, either the eventfd
  is readable or the producer that will make it so is still before its write. Since
  a pop may give up while a push is half done, this rests on the order push, then
  write; and read, then drain. So every node pushed to a running loop is handled,
  and the last drain leaves only nodes whose push overlaps it.
* **task.** Nested calls, sleeps and ends in any order resume live contexts only,
  return to a caller when its callee is done, and all come to their end.
* **event.** Signals before and during the wait are not missed, whatever tasks and timeouts
  do in between: a task that sleeps in a wait is the one its event has reserved, and the
  event has no signals. The exception is a second waiter, which takes the place of the
  first; that one sleeps on although the event is signalled. As long as no wait has timed
  out, whoever is reserved is asleep in a wait for that event, so that only a timeout makes
  a signal resume a task out of something else, or one that is gone.
* **sequential**, the tree. All red-black invariants, and the operations agree with a set. A
  removal that has to rebalance more than one level needs ten keys or more, which is
  why the run has twelve.
* **timer.** Tasks that run in the middle of a pass leave no dangling timer in the trees and
  lists, nor a freed list under the pass. The one timer that the pass itself has saved is
  safe in the passes over sleeps and idles. In the pass over the timeouts it is not, and
  the run says exactly when: the task that was resumed signals the task whose timer is
  saved, which cancels that timer and ends (`SavedTimer`); the pass then reads a dead
  frame. The lists stay in order of expiry, which the early exit
  of a pass needs; with a sleeping task the loop always waits with a limit. A sleep
  never ends early on Windows, and on unix only if it began after the loop last read the
  clock: a task woken by a timeout that then sleeps is woken at once, because
  `now - issued` wraps around and the clock is not read after the timeouts.
* **stream.** Interest, requests and timers are exactly those of the suspended
  operations although reads and writes begin, end, fail and time out independently, so
  the processor never follows an empty or a stale request of an open stream. Bytes are
  read in order, none twice and none lost except when bytes are put back on top of
  others (which api.h announces), and a reader sleeps only when nothing that was put
  back is left; writes report what the socket took, and a short one
  leaves a reason. A peer that closes wakes both tasks, though each event wakes one.
* **transfer.** Bytes come out in order and completely, with one wakeup of the reader under
  way at most. A unix socket and a stream on Windows get each chunk once. A unix file gets
  each chunk at least once and in order, but twice when a wakeup of the reader comes while
  aio writes it: the write then submits it again, and a file opened for appending has it
  twice (`again`). A request may then outlive its write, and its handler writes to a frame
  that is gone (`astray`). The transfer returns, except in that case and when a wakeup is
  consumed inside the `api_stream_write` of a unix socket: that one is never acknowledged by
  `num_wakeup_done`, the reader asks for no other, and the transfer hangs. On Windows such
  a wakeup makes the transfer fail.
* **file.** Every call returns although wakeups of earlier calls come at any moment. A
  handler runs on a frame that is gone only after a timeout. Until a stray wakeup comes,
  the end of the file is reported only when it was found, and the offset is what was
  written; with one, a read returns 0 and reports the end.
* **win.** An operation that outlives its call is harmless for reads and writes, since
  the stream then refuses the next call in that direction and the processor drops the
  packet. It is not for a connect: the packet of one that timed out resumes its task
  wherever that is. A stream may also be reported open although the system refused the
  connection, and a send that is taken in part is sent again from the first byte; these
  are the exceptions that `OpenMeansConnected` and `BytesAccounted` name. A call sleeps
  for ever when another task closes its stream, whose aborted packets the loop drops.
* **server.** On unix the references of streams and listeners keep the loop until its
  thread frees it. On Windows `api_tcp_listen` tests its result the wrong way round: it
  takes no reference, so that closing the listener frees the running loop. Events find
  their accept. An accept returns when a connection comes, but not when `accept` fails or
  all connections are turned down, and on unix with `API__OK` when the listener hangs up, or
  on an error event with an `errno` of 0.
  When the loop is through with its waiters, those still in its queue are those that came
  too late or stood there with a push half done, their own or one in front of or behind
  them (`NobodyLeft`). Waiters hear of the end of a loop, except these, those whose
  registration is still in a closed port, and everyone on unix as long as nothing else
  makes `epoll_wait` return, which closing its descriptor does not. The exceptions are what
  the code does wrong, and the run does not report them.
* **sequential**, the requests. A request is parsed the same however it is cut: between two
  reads the url, the list of headers, the header under way and the buffer hold exactly what
  the bytes so far say, and at the end each header is found with its last value. Nothing is
  leaked. All this holds as long as no read goes beyond the headers. Bytes behind the
  headers are left to their reader only if they come in a read of their own, or follow a
  `CONNECT`: otherwise the parser does not stop there, and a body or a second request in the
  same read is parsed into the request before and not put back. Parameters are right
  as long as escapes are only in the last of them: `decode_query` counts an escape as one
  byte and goes on behind the end.

The violations are disagreements of code and documentation:

* `timer_starve`: `api_rbtree_next` skips lists; a due sleep stays asleep as long as
  another task keeps a list of a shorter period alive.
* `pipelining`: `src/README.md:41` and `src/src/demo/src/web_server.c:99` speak of "http
  pipelining", but of two requests in one read the second is lost with the bytes of the
  first (`http_parse.c:381`).

Reached by the models as well, with a note at the hazard but without a run: the loop
waits without a useful limit for idles; a task that signals an event somebody waits for
is never resumed (`api_event_signal` swaps to the waiting task, which goes on to Main); a
second waiter of an event displaces the first; a pass over the timeouts goes on with a timer
whose task has ended; a chunk that is transferred to a file is written twice; a waiter behind
a half-done push is not told of the end of its loop; `EPOLLERR` with an `errno` of 0 ends an
accept with `API__OK`;
data that arrives together with the peer's FIN is not read (`EPOLLRDHUP` is handled
before `EPOLLIN`); a connect that completes at once is never added to epoll; a stream
that is closed while a task sleeps on it leaves that task asleep; `api_timer_terminate` misses lists; an emptied
list may stay in the tree and its null head is read; `scheduler.current` is 0 after
`api_event_wait`; `*transferred` counts the last buffer of every round only; a header
line without a colon leaves a header without a name; on Windows a packet without bytes
erases an earlier error of its stream, and a synchronous read at the end of a file is an
error; an accept on a listener that was closed follows a null pointer.

### Bounds

* Three producers, one of them a task of the loop, and the pop's own push of the stub
  give every pair of half-done pushes; two nodes are enough for a pop to meet a lone
  tail, a half-pushed successor and the stub in every place. Proofs cover any number.
* Four tasks give a call chain of three beside an independent task.
* Two periods give both shapes of a two-list tree (either is the root), which is what
  the walk depends on; three tasks put two timers in one list and a third elsewhere;
  three ticks let a period of two expire while something else happened.
* `Epoch` is large against the period and `Horizon`, like the time of day.
* Two bytes to read in pieces of one or two give a partial read, a partial read of
  what was put back, and putting back on top of it. A write of two bytes into a send
  buffer of one needs two rounds, between which everything else can happen.
* Two tasks are the reader and the writer of a stream, or one that follows the other in
  the same direction, which a stray wakeup or packet needs. Two operations, or three
  requests, are what was left behind beside a new one. A write of two bytes has two rounds.
* Two waiters can be at different steps when the loop notifies; a backlog of two lets
  one connection be turned down and the next be taken.
* The conversations of `sequential` hold each shape of a request: no header, one, two with the
  same name, an empty value, a continuation line, a line without a colon, `CONNECT`,
  absolute and invalid urls, every query of up to four characters, a body,
  and a second request. `BufferSize` is long enough for a read to contain the end of the
  headers and more.
* Event values stop at `MaxValue`. Four chunks leave some to be queued and written behind
  one that was submitted twice; `MaxOutput` bounds how often a handler lands unseen.

### Fairness

* Async: the threads of producers and the loop keep running (weak fairness of their
  steps); the loop is fair in that epoll, which is level-triggered, eventually reports
  a readable eventfd; handlers return.
* Task: strong fairness of `Wake`, since a registered task is woken by a timer or
  event that stays pending while others run, and of `Finish`: callbacks return.
* Stream: the loop goes round while it is not stopped (weak fairness of `LoopStep`);
  neither the peer, nor timers, nor tasks are assumed to do anything.
* Transfer: the source ends, the destination accepts data, asyncs are delivered and aio
  finishes its requests.
* FileStream: aio finishes its requests and the loop delivers wakeups; timers and tasks
  are assumed to do nothing.
* WinStream: the system ends the operations of each kind, and the loop takes the packets
  of each kind: the port is a queue.
* Server: the loop's thread goes on when it can; a listener that is ready, or a packet in
  the port, is not overtaken for ever by other events (strong fairness, because the
  thread leaves and enters its wait in between), `AcceptEx` ends, and the tasks of other
  loops go on with what they began: a push, a close, the return from a call.
  Nothing is assumed to make `epoll_wait` return.
* HttpParse has no liveness property.

Deadlock is not checked where the system may stop: a loop that has ended, a finished
transfer, a bounded clock, a stream whose bounds are used up, a conversation that is over.

## 4. Proofs

| Module | Theorems |
|---|---|
| `AsyncProofs` | of Mpscq: `Invariance`, `TypeCorrect`, `NoWriteToReleased`, `StubOnce`, `Refinement`; `AsyncInvariance`, `NoWakeupLost`, `LastDrain` |
| `TaskProofs` | `Invariance`, `LiveTask`, `CallCompletes`, `NobodyStranded`, `NoDoneTaskKept`; of Event: `EventInvariance` |
| `TimerProofs` | `TimersStayRegistered`, `ListsStayInOrder`, `SleepersNotForgotten`, `SleepsNotEarly` |
| `StreamProofs` | `StreamInvariance`, `WritesCounted`, `ShortWrites`, `BytesInOrder`; of Transfer: `TransferInvariance`, `NothingLeftBehind` |
| `FileStreamProofs` | `FileInvariance`, `ContentAgrees` |
| `WinStreamProofs` | `WinInvariance`, `OpenIsConnected`, `EveryByteAccounted` |
| `ServerProofs` | `ServerInvariance`, `FreedByItsThread` |
| `HttpProofs` | `RequestMemory`, `BodyStaysUnread`, `RequestAsSent` |

Assumptions are those of the modules: the special values (stub, null, Main, nobody) are
different from nodes, tasks and events; lengths, sizes and bounds are natural numbers,
those of a single read or write, of the send buffer, the backlog and the number of
requests not 0; a file is no longer than its bound at the start. HttpParse assumes
`EndsOnce` of every message, and a buffer of at least one byte. Timer assumes the
promises of `OrderedTree`, which TLC checks of the red-black tree for two keys in `timer`
and for twelve in `sequential`, and two things about time (`TimesAssumption`), without which
differences of `uint64_t` mean nothing: the loop runs for less than an `int` of
milliseconds, and no period comes near the time the clock takes to wrap around.
All else is arbitrary: any sets of nodes, producers, tasks, events, periods and waiters,
any amount of data. Each theorem
of the form `Spec => []Inv` follows from `Init => Inv` and from one lemma for each action,
or for each way in which actions end, that the action preserves `Inv`.

**Mpscq.** The links in memory are broken in as many places as there are pushes half
done, so "the list from tail to head" is no invariant. `IInv` instead keeps the order
of exchanges as a history sequence: it starts at `tail` and ends at `head`; an entry
is linked to the next one unless the push of that next one is between exchange and
link; the entry such a push will write to is *in the sequence*, so it was not handed
out. This gives the safety of the late write directly, and the refinement because the
sequence is the abstract queue. The theorem `Refinement` shows that each step is a
step of FifoQueue or a stutter.

**Async.** `AsyncInv` ties the place of the loop's thread to the queue and counter:
outside the drain, a node in the queue implies a non-zero counter or a producer that
has not written yet. The last pop of a drain is the delicate step: it may return
nothing because of a half-done push, whose producer then still owes its write.

**Task.** `IInv` says where each task is: a task not running sleeps and is registered,
or waits in `api_task_exec` for a callee whose parent it is, or is done and about to be
deleted by a caller that has just come back. Callers and callees are tied both ways;
without this a task that ends could return to a caller that went on.

**Timer.** Tasks run in the middle of a pass, so nothing about the current list can be
taken over the call. `TimersRegistered` is what survives: a task with a timer is once in
the list its timer names, nobody else is in any, and a list that is not empty is in the
tree. With it `WalkValid`: the two lists a pass holds stay in the tree, since only the pass
removes lists of its set, and only the one it stands at. `ListsInOrder` needs that the
clock has not gone back since the last timer was appended (`TypeOK`), and that taking a
timer out leaves the others in their order (`Later`).

`SleepersNotForgotten` is about the arithmetic of the wait timeout: a limit is computed from
the heads of the first lists, as a 64-bit difference, of which epoll gets the `int`. The
difference is small if the head of the first list of sleeps was set before `now`
(`FirstSleepPast`), and there is a head since a pass over the sleeps frees the list it
empties and an event takes only timeouts (`SleepListsFull`). A pass that has woken
somebody reads the clock again, one that has not leaves the timers as they were, which is
why `Control` ties `walk.count` to what tasks may have done. `SavedTimer` rests on the same
clause: a task that the pass resumed can cancel only the timer of a task it signals, and only
those of timeouts can be signalled. `SleepsNotEarly` uses
`SleepsPastOnWindows`: there `now` is read after the timeouts, so that every sleep the pass
finds began before it, and the difference does not wrap around.

**Stream.** `StreamInv` says that requests, interest and timers are those of the
suspended operations, and that every event that is still in `batch` has its request:
nothing but the processing of the batch resumes an operation between `epoll_wait` and the
timers. Two lemmas, `ReadResumed` and `WriteResumed`, cover all who resume an operation.
The counters stay within their bounds only because writes are accounted for, so
`WritesAccounted` is proved in the same induction. `ShortWrites` looks at the one place
where a writer stops sleeping, the exit of its loop.

`ReadsInOrder` is inductive beside it. It is about one sequence, the bytes the reader has,
those put back and those in the socket: a read of either kind moves the borders inside of
it, the network extends it by the next byte, and only putting back on top of others cuts
some out of the middle, which leaves the rest in order (`OrderOfRest`). That a read from
the socket goes on where the reader is needs the last clause, that a sleeping reader has
nothing put back.

**Event.** `EventInv` adds to `NoMissedSignal` that a task asleep in a wait is the one
reserved (`SleeperReserved`). It needs to know what the wait leaves behind: the scheduler
may have forgotten who runs (`CurrentRuns`), and a task ends outside of any wait
(`FreedOutside`), so that a task which is created at the place of another is in none.
`displaced` is tied to `reserved` by an equivalence, in both directions: who is displaced
stays so until the wait ends. `SignalsFollowWaits` is inductive as well, since a task that is
reserved is not woken by the loop as long as `lapsed` is false. The
actions of Task are taken from Event's point of view by one lemma each (`EventPostStep`,
`EventSleepStep`...), whatever else Task's own invariant says.

**Transfer.** `InOrder` says that what was written, what is in the writer's hands and what
is queued is what was read. `WriterHolds` ties the hands to the place of the writer: full
exactly while it writes, and nothing queued when it returns. `OneWakeup` is arithmetic:
requests and answers differ by one at most, and nothing is under way without a request. For
a file it is an equation, since a wakeup is passed on as a request and a request as a wakeup:
those under way, of either kind, are the reader's and that of the write. `OutputAgrees`
compares what is in `dst` with what the writer was told. It is inductive with the clause that
a second request, or one that a write leaves behind, comes of submitting again only.
`NothingLeftBehind` is then the sum of the parts when the writer has returned.

**Server.** `FreedByItsThread` is about a counter, and needs to know what is counted:
`RefsCounted` says that `refs` is one for the thread once it has started, one for each
stream and one for the listener, except that on Windows only a listener that is broken is
counted, and a closed one may have been counted off. `EventFindsRequest` is inductive with `OneSystem`:
what epoll may report goes with the interest, which goes with the accept under way; the
processor and `AcceptTry` take both away in one step, in whatever way the accept ends.
`NobodyLeft` is about the moment in which a pop finds nobody: `InLine` says that all in the
line have a push that has begun, so that a line whose first cannot be taken holds a half-done
push, at one of its first two places. Who comes later is `missed` at once.

**FileStream.** A handler writes into a frame, so `RequestsOfCalls` says whose: a request
that is `live` is one of the call that its task is in. `OneRequest` adds, until a stray
wakeup comes, that it is the only one and not done; then the wakeup of a call finds its
own request done, and the call leaves none behind. So only a timeout leaves one, which is
`FrameOutlivesRequest`. `ReadsWithin` and `ResultsRight` follow a read through its rounds:
the offset is within the file and a round without bytes is an end or an error.
`ContentAgrees` is one step from that: each round of a write adds what was done to the
size of the file when aio completes it and to the offset when the call looks at it.

**WinStream.** A packet is taken by the processor that the stream has when it comes, not by
the call that caused it. `CallsReserved` says whom `reserved` names, so whom a packet
resumes; `OperationsOfCalls` that a call has one operation; `LeftBehind` that any other
operation or packet finds the flag of a timeout in the status, which makes the
processor drop it and the next call of that direction refuse, except for a connect. These
four give `WakesItsCall` and `OverlappedFree`. `OpenIsConnected` needs `ConnectTells`: the
packet of a connect says whether the socket is connected. For `EveryByteAccounted` the
operations of a direction are followed one by one (`Came`, `GoesOn`, `Dropped`): the
counters count what packets hold and calls have not returned, which is one packet of one
call, or none.

**HttpParse, memory.** `NothingLeaked` counts allocations, and no callback can be looked at
alone: whether it may store a pointer depends on what is stored already. `Placed` says what
the context must hold in each state of the parser, and holds for any bytes, also behind the
headers; with it a callback finds the header it is about, unless a value comes first behind
the headers. `Tidy` says, until the headers are complete, that the place a callback stores
to is empty, so that no string is lost. Each state of the parser has a lemma (`AtLineKept`,
`InNameKept`, ...) that a byte leaves both, the marked text and the count in order
(`ByteKept`); `ExecuteByteKept` and `EndKept` carry them over a piece, over any number of
bytes by an induction on a set of numbers (`Induction`). What the url and the query are
decoded to does not matter, only that it is text: the decoder's and the query's recursive
functions are shown to exist and to have their types.

**HttpParse, the body.** `ParserInStep` says where the parser is: its state is a function of
how many bytes of the message it has had (`InStep`), and what is left of the stream is the
rest of the messages. `ByteReaches` takes it over one byte: the end of the headers is
reached with the last byte of `Top` and not before, because a line end after a line end is
in no other place (`TopFacts`, `NextPlace`). A piece that goes further sets `past`. If it
does not, the position is the end of `Top`, and what follows it in the stream are the body
and the messages behind (`TurnText`), which is `BodyLeft`.

**HttpParse, the request.** `Gathered` relates what the callbacks have put together to the
bytes still to come: in each state of the parser it says which token of which header is
next, and what the buffer, the header under way and the list must then hold. The parser
calls back only at the end of a text or of a piece, so between the two the buffer lags
behind; the induction is therefore over the frame as it would be if the piece ended here
(`CallBack`), which needs that calling back one text in two parts is calling it back at
once. Each state has a lemma (`StartGathers`, ..., `InValueGathers`, `AfterLineGathers`)
that a byte of the message leads from `Gathered` to `Gathered`, or with the last one to
the whole request (`HeadersDoneWhole`); `ExecuteGathers` carries it over a piece, again by
`Induction`. A value that is continued on the next line is the delicate case: its line end
calls the text back, and only the byte behind tells whether it goes on. `ReturnRequest` says that
what follows leaves url and headers alone, and `LastFound` that the search from the front
of the reversed list finds the value sent last.

The inductive invariants `IInv` of Mpscq and of Task and `AsyncInv`, and what
follows from them at once (`StubOnce`: the stub is never in the queue twice;
`NoDoneTaskKept`: a posted task is freed when it is done), are theorems and not in a run:
the proofs hold for every instance. All other inductive invariants are the invariants of
the runs.

Only model-checked:

* liveness (`EveryNodeHandled`, `TasksEnd`, `SleepersWoken`, `ReturnsUnlessWakeupLost`,
  `AcceptReturns`, `WaitersHeard` and both `CallsReturn`), since fairness and ENABLED are
  outside the prover's reach;
* `SearchTree`, `QueriesRight` and `Balanced`: the tree's operations are recursive, and
  what they do to every tree is an induction over data;
* `ParamsRight` of HttpParse, about what the recursive functions of the query compute,
  which is an induction over data.

## 5. Not modelled, and the plan

Not modelled: memory orders weaker than sequential consistency (the code uses full
barriers); failures of malloc and of system calls other than those named; the machine
context; what `api_async_exec` does after its task ran; asyncs on Windows, which are
messages in the port; the vendored parser's responses, bodies and limit on the size of
headers; filters, which pass calls on, and with them the SSL filter, whose behaviour is
OpenSSL's; sockets, errors and pool, which are single calls of the system.

What could follow: the assumptions of `OrderedTree` proved of `RBTree`; the asyncs of
Windows and the handler of `api_async_exec` beside Async.
