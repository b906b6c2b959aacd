-------------------------------- MODULE Async --------------------------------
(***************************************************************************)
(* How other threads reach a loop (src/api/src/unix/api_async.c): a node   *)
(* is pushed into the loop's queue and the loop's eventfd is written; the  *)
(* loop's thread, woken from epoll_wait by the eventfd, reads it and pops  *)
(* nodes until a pop returns 0.  When the loop ends it closes the eventfd  *)
(* and drains the queue a last time (api_async_terminate).                 *)
(*                                                                         *)
(* The queue is Mpscq itself, with all its interleavings, so a pop may     *)
(* return 0 from a queue that is not empty; what is checked is that this   *)
(* never leaves the loop asleep over a node.                               *)
(*                                                                         *)
(* One producer, Task, stands for the code that runs on the loop's own     *)
(* thread: the callbacks and tasks resumed by handlers and by the other    *)
(* processors of the loop.  It pushes too (api_stream_transfer), but only  *)
(* while the loop is running such code.  All the others are other threads. *)
(***************************************************************************)
EXTENDS Mpscq

CONSTANT Task

ASSUME TaskAssumption == Task \in Producers

VARIABLES
    loop,       \* where the loop's thread is
    readable,   \* the eventfd's counter is not zero
    notify,     \* producers between their push and their eventfd_write
    open        \* the eventfd is open and registered

asyncVars == <<loop, readable, notify, open>>
allVars == <<vars, asyncVars>>

LoopStates ==
    {"wait",    \* in epoll_wait
     "other",   \* in the processor of a stream, in a timer: running tasks
     "read",    \* entering api_async_processor
     "drain",   \* in api_mpscq_pop, or about to call it
     "handle",  \* in async->handler, running tasks
     "gone"}    \* api_loop_run_internal has returned

AsyncTypeOK ==
    /\ TypeOK
    /\ loop \in LoopStates
    /\ readable \in BOOLEAN
    /\ notify \subseteq Producers
    /\ open \in BOOLEAN

(* api_async_init *)
AsyncInit ==
    /\ Init
    /\ loop = "wait"
    /\ readable = FALSE
    /\ notify = {}
    /\ open = TRUE

(* Task runs only when the loop's thread runs tasks. *)
Scheduled(p) == p # Task \/ loop \in {"other", "handle"}

(* Task has left the code of a push and of its eventfd_write. *)
TaskPaused == pc[Task] = "idle" /\ Task \notin notify

-----------------------------------------------------------------------------
(* api_async_post, api_async_wakeup, api_async_exec: push, then write *)

(* the caller must not post to a loop it knows to be gone *)
Post(p, n) ==
    /\ loop # "gone"
    /\ Scheduled(p)
    /\ p \notin notify
    /\ PushCall(p, n)
    /\ UNCHANGED asyncVars

PostSwap(p) ==
    /\ Scheduled(p)
    /\ PushSwap(p)
    /\ UNCHANGED asyncVars

PostLink(p) ==
    /\ Scheduled(p)
    /\ PushLink(p)
    /\ notify' = notify \cup {p}
    /\ UNCHANGED <<loop, readable, open>>

(* Mutation: the eventfd is written only if the loop is seen asleep. *)
EventfdWriteIfAsleep(p) ==
    /\ Scheduled(p)
    /\ p \in notify
    /\ notify' = notify \ {p}
    /\ readable' = (readable \/ (open /\ loop = "wait"))
    /\ UNCHANGED <<vars, loop, open>>

(* eventfd_write: fails once the eventfd is closed *)
EventfdWrite(p) ==
    /\ Scheduled(p)
    /\ p \in notify
    /\ notify' = notify \ {p}
    /\ readable' = (readable \/ open)
    /\ UNCHANGED <<vars, loop, open>>

-----------------------------------------------------------------------------
(* The loop's thread: api_loop_run_internal and api_async_processor *)

(* epoll_wait returns with an event of something else, or times out *)
WaitOther ==
    /\ loop = "wait"
    /\ loop' = "other"
    /\ UNCHANGED <<vars, readable, notify, open>>

OtherDone ==
    /\ loop = "other"
    /\ TaskPaused
    /\ loop' = "wait"
    /\ UNCHANGED <<vars, readable, notify, open>>

(* epoll_wait returns with the eventfd, level-triggered *)
WaitAsync ==
    /\ loop = "wait"
    /\ readable
    /\ loop' = "read"
    /\ UNCHANGED <<vars, readable, notify, open>>

(* eventfd_read resets the counter *)
EventfdRead ==
    /\ loop = "read"
    /\ readable' = FALSE
    /\ loop' = "drain"
    /\ UNCHANGED <<vars, notify, open>>

DrainCall ==
    /\ loop = "drain"
    /\ PopCall
    /\ UNCHANGED asyncVars

(* Mutation: the last drain handles one node only. *)
AfterPopOne ==
    IF pc'[Consumer] # "idle" THEN "drain"
    ELSE IF ~open THEN "gone"
    ELSE IF ret' # Null THEN "handle" ELSE "wait"

(* the rest of the pop; a node goes to its handler, 0 ends the loop *)
AfterPop ==
    IF pc'[Consumer] # "idle" THEN "drain"
    ELSE IF ret' # Null THEN "handle"
    ELSE IF open THEN "wait" ELSE "gone"

DrainStep ==
    /\ loop = "drain"
    /\ Pop
    /\ loop' = AfterPop
    /\ UNCHANGED <<readable, notify, open>>

(* PushSwap and PushLink of the stub, inside pop *)
DrainStub ==
    /\ loop = "drain"
    /\ Push(Consumer)
    /\ UNCHANGED asyncVars

(* Mutation: one node per event. *)
HandlerDoneWaits ==
    /\ loop = "handle"
    /\ TaskPaused
    /\ loop' = IF open THEN "wait" ELSE "drain"
    /\ UNCHANGED <<vars, readable, notify, open>>

(* async->handler(loop, async, events) returns *)
HandlerDone ==
    /\ loop = "handle"
    /\ TaskPaused
    /\ loop' = "drain"
    /\ UNCHANGED <<vars, readable, notify, open>>

(* The epoll descriptor was closed (api_loop_stop) and epoll_wait fails:   *)
(* api_async_terminate closes the eventfd and calls the processor, whose   *)
(* eventfd_read fails.                                                     *)
Terminate ==
    /\ loop = "wait"
    /\ open' = FALSE
    /\ readable' = FALSE
    /\ loop' = "drain"
    /\ UNCHANGED <<vars, notify>>

LoopStep ==
    \/ WaitAsync \/ EventfdRead \/ DrainCall \/ DrainStep \/ DrainStub
    \/ HandlerDone \/ OtherDone

AsyncNext ==
    \/ \E p \in Producers :
          \/ \E n \in Nodes : Post(p, n)
          \/ PostSwap(p) \/ PostLink(p) \/ EventfdWrite(p)
    \/ LoopStep
    \/ WaitOther
    \/ Terminate

AsyncSpec == AsyncInit /\ [][AsyncNext]_allVars

(* Threads and tasks inside a push or before an eventfd_write go on, the   *)
(* loop's thread goes on, handlers return, and epoll_wait reports a ready  *)
(* eventfd sooner or later however many other descriptors are ready: the   *)
(* kernel rotates its ready list.                                          *)
Fairness ==
    /\ \A p \in Producers :
          WF_allVars(PostSwap(p)) /\ WF_allVars(PostLink(p))
              /\ WF_allVars(EventfdWrite(p))
    /\ WF_allVars(LoopStep)
    /\ SF_allVars(WaitAsync)

FairAsyncSpec == AsyncSpec /\ Fairness

-----------------------------------------------------------------------------
(* Properties *)

(* Somebody will still make the eventfd readable, or it is readable. *)
WakeupPending == readable \/ notify # {} \/ Linking # {}

(* The loop never sleeps in epoll_wait over a queued node unless a wakeup  *)
(* is on its way, although a pop may give up on a queue that is not empty. *)
NoLostWakeup ==
    loop = "wait" /\ Items(chain) # <<>> => WakeupPending

(* What makes it inductive: a pop that may give up because a push          *)
(* overlapped it has that push's wakeup still ahead of it, and the         *)
(* consumer is inside a pop only while the processor drains.               *)
AsyncInv ==
    /\ AsyncTypeOK
    /\ IInv
    /\ open /\ raced => WakeupPending
    /\ loop # "drain" => pc[Consumer] = "idle"
    /\ loop \in {"wait", "read", "other"} => open
    /\ loop \in {"wait", "other"} /\ Items(chain) # <<>> => WakeupPending

(* The last drain leaves nothing behind unless a push overlapped its last  *)
(* pop.                                                                    *)
TerminateDrains ==
    [][loop # "gone" /\ loop' = "gone" => Items(chain) = <<>> \/ raced]_allVars

(* Every node pushed to a loop that keeps running is popped by it: none is *)
(* in the queue for ever.                                                  *)
EveryNodeHandled ==
    \A n \in Nodes : []<>(~InChain(n) \/ ~open)
=============================================================================
