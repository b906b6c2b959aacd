-------------------------------- MODULE Task --------------------------------
(***************************************************************************)
(* The cooperative tasks of one loop (src/api/src/api_task.c): coroutines  *)
(* with stacks of their own, switched by api_task_swapcontext, and the     *)
(* ways the loop and its users create, suspend, resume and free them.      *)
(*                                                                         *)
(* Main is the loop's own context: it runs the processors, timers and      *)
(* handlers, and every other task goes back to it when it sleeps.  A step  *)
(* is what a task does between two calls of the scheduler.  `waiting' is   *)
(* the set of tasks registered with whoever will wake them (a stream, a    *)
(* timer, a listener, an async): in this module each is woken by Main, at  *)
(* most once per registration.                                             *)
(***************************************************************************)
EXTENDS Naturals, FiniteSets

CONSTANTS
    Tasks,      \* the memory blocks api_task_create can return
    Main,       \* &scheduler->main
    Null

ASSUME TaskAssumption ==
    /\ Main \notin Tasks
    /\ Null \notin Tasks \cup {Main}

VARIABLES
    current,    \* scheduler->current
    prev,       \* scheduler->prev
    running,    \* the context the processor is executing
    alloc,      \* the tasks that are allocated
    parent,     \* task->parent
    isDone,     \* task->is_done
    isPost,     \* task->is_post
    callee,     \* callee[t]: the task t runs by api_loop_call
    at,         \* at[t]: where t is, see Places
    waiting     \* the tasks somebody is going to wake

vars == <<current, prev, running, alloc, parent, isDone, isPost, callee, at, waiting>>

All == Tasks \cup {Main}

Places ==
    {"code",        \* running user code (Main: running its loop)
     "exec",        \* suspended in api_task_exec, called by api_loop_call
     "returned",    \* api_task_exec has returned, task not yet deleted
     "sleep",       \* suspended in api_task_sleep
     "wakeup",      \* suspended in api_task_wakeup
     "post",        \* suspended in api_task_post
     "done"}        \* suspended in the last swap of api_task_entry_point

TypeOK ==
    /\ current \in All
    /\ prev \in All \cup {Null}
    /\ running \in All
    /\ alloc \subseteq Tasks
    /\ parent \in [Tasks -> All \cup {Null}]
    /\ isDone \in [Tasks -> BOOLEAN]
    /\ isPost \in [Tasks -> BOOLEAN]
    /\ callee \in [All -> Tasks \cup {Null}]
    /\ at \in [All -> Places]
    /\ waiting \subseteq Tasks

(* api_scheduler_init *)
Init ==
    /\ current = Main
    /\ prev = Null
    /\ running = Main
    /\ alloc = {}
    /\ parent = [t \in Tasks |-> Null]
    /\ isDone = [t \in Tasks |-> FALSE]
    /\ isPost = [t \in Tasks |-> FALSE]
    /\ callee = [t \in All |-> Null]
    /\ at = [t \in All |-> "code"]
    /\ waiting = {}

(* Mutation: a posted task is freed before it is done. *)
SwapFreesEarly(from, to, place) ==
    /\ running' = to
    /\ current' = to
    /\ at' = [at EXCEPT ![from] = place,
                        ![to] = IF @ = "exec" THEN "returned" ELSE "code"]
    /\ IF from \in Tasks /\ isPost[from]
       THEN alloc' = alloc \ {from} /\ prev' = Null
       ELSE alloc' = alloc /\ prev' = from

(* api_task_swapcontext(from, to), where `to' comes out of the swap it was *)
(* suspended in: it frees prev, which is `from', if that was posted and is *)
(* done.                                                                   *)
Swap(from, to, place) ==
    /\ running' = to
    /\ current' = to
    /\ at' = [at EXCEPT ![from] = place,
                        ![to] = IF @ = "exec" THEN "returned" ELSE "code"]
    /\ IF from \in Tasks /\ isPost[from] /\ isDone'[from]
       THEN alloc' = alloc \ {from} /\ prev' = Null
       ELSE alloc' = alloc /\ prev' = from

(* api_task_create, what the caller writes into the new task, and the swap *)
(* to it: a fresh context enters api_task_entry_point and frees nothing.   *)
Start(t, by, post, place) ==
    /\ t \notin alloc
    /\ alloc' = alloc \cup {t}
    /\ isDone' = [isDone EXCEPT ![t] = FALSE]
    /\ isPost' = [isPost EXCEPT ![t] = post]
    /\ parent' = [parent EXCEPT ![t] = IF post THEN Main ELSE by]
    /\ running' = t
    /\ current' = t
    /\ prev' = by
    /\ at' = [at EXCEPT ![by] = place, ![t] = "code"]

-----------------------------------------------------------------------------
(* What a running task may do.  The scheduler's idea of who runs is        *)
(* `current'.                                                              *)

InCode(t) == running = t /\ at[t] = "code"

(* api_async_post_handler: api_task_create and api_task_post, on Main *)
Post(t) ==
    /\ InCode(Main)
    /\ Start(t, current, TRUE, "post")
    /\ UNCHANGED <<callee, waiting>>

(* api_loop_call: api_task_create and api_task_exec *)
Call(t, c) ==
    /\ InCode(t)
    /\ Start(c, current, FALSE, "exec")
    /\ callee' = [callee EXCEPT ![t] = c]
    /\ UNCHANGED waiting

(* Mutation: the called task is not deleted. *)
CallReturnKeeps(t) ==
    /\ running = t
    /\ at[t] = "returned"
    /\ at' = [at EXCEPT ![t] = "code"]
    /\ callee' = [callee EXCEPT ![t] = Null]
    /\ UNCHANGED <<current, prev, running, alloc, parent, isDone, isPost, waiting>>

(* ... and api_task_delete, once api_task_exec has returned *)
CallReturn(t) ==
    /\ running = t
    /\ at[t] = "returned"
    /\ alloc' = IF current = callee[t] THEN alloc ELSE alloc \ {callee[t]}
    /\ at' = [at EXCEPT ![t] = "code"]
    /\ callee' = [callee EXCEPT ![t] = Null]
    /\ UNCHANGED <<current, prev, running, parent, isDone, isPost, waiting>>

(* Mutation: a sleeping task goes back to its parent instead of Main. *)
SleepToParent(t) ==
    /\ InCode(t)
    /\ waiting' = waiting \cup {t}
    /\ UNCHANGED <<parent, isDone, isPost, callee>>
    /\ Swap(current, parent[t], "sleep")

(* an operation registers the task and calls api_task_sleep *)
Sleep(t) ==
    /\ InCode(t)
    /\ waiting' = waiting \cup {t}
    /\ UNCHANGED <<parent, isDone, isPost, callee>>
    /\ Swap(current, Main, "sleep")

(* Main calls api_task_wakeup: a processor, a timer, a handler of asyncs *)
Wake(t) ==
    /\ InCode(Main)
    /\ t \in waiting
    /\ waiting' = waiting \ {t}
    /\ UNCHANGED <<parent, isDone, isPost, callee>>
    /\ Swap(current, t, "wakeup")

(* Mutation: a task that ends goes to Main instead of its parent. *)
FinishToMain(t) ==
    /\ InCode(t)
    /\ isDone' = [isDone EXCEPT ![t] = TRUE]
    /\ UNCHANGED <<parent, isPost, callee, waiting>>
    /\ Swap(t, Main, "done")

(* the callback returns: api_task_entry_point *)
Finish(t) ==
    /\ InCode(t)
    /\ isDone' = [isDone EXCEPT ![t] = TRUE]
    /\ UNCHANGED <<parent, isPost, callee, waiting>>
    /\ Swap(t, parent[t], "done")

Next ==
    \/ \E t \in Tasks :
          \/ Post(t) \/ Sleep(t) \/ Wake(t) \/ Finish(t) \/ CallReturn(t)
          \/ \E c \in Tasks : Call(t, c)

Spec == Init /\ [][Next]_vars

(* Callbacks return, the loop wakes everything registered with it, and    *)
(* api_loop_call goes on when it is resumed.                              *)
Fairness ==
    \A t \in Tasks : SF_vars(Finish(t)) /\ SF_vars(Wake(t)) /\ WF_vars(CallReturn(t))

FairSpec == Spec /\ Fairness

-----------------------------------------------------------------------------
(* Properties *)

(* The inductive invariant.  A task that is not running sleeps and is      *)
(* registered for a wakeup, or waits for the task it called, or is done    *)
(* and its caller is about to delete it.                                   *)
RunningPlace ==
    /\ current = running
    /\ running \in alloc \cup {Main}
    /\ running = Main => at[Main] = "code"
    /\ running # Main => /\ at[running] \in {"code", "returned"}
                         /\ at[Main] \in {"wakeup", "post"}
    /\ \A t \in alloc : t # running => at[t] \in {"sleep", "exec", "done"}

WaitersSleep ==
    /\ waiting \subseteq alloc
    /\ \A t \in alloc : t \in waiting <=> at[t] = "sleep"

(* a caller suspended in api_task_exec has a callee that is not done, one  *)
(* that has come back has a callee that is                                 *)
CallersWait ==
    \A t \in alloc :
        /\ at[t] \in {"exec", "returned"} =>
              callee[t] \in alloc /\ parent[callee[t]] = t /\ ~isPost[callee[t]]
        /\ at[t] = "exec" => ~isDone[callee[t]]
        /\ at[t] = "returned" => isDone[callee[t]]

CalleesReturn ==
    \A c \in alloc : ~isPost[c] =>
        /\ parent[c] \in alloc
        /\ callee[parent[c]] = c
        /\ at[parent[c]] \in {"exec", "returned"}

PostedReturnToMain == \A c \in alloc : isPost[c] => parent[c] = Main /\ ~isDone[c]

DoneIsLast == \A t \in alloc : isDone[t] <=> at[t] = "done"

IInv ==
    /\ TypeOK
    /\ RunningPlace
    /\ WaitersSleep
    /\ CallersWait
    /\ CalleesReturn
    /\ PostedReturnToMain
    /\ DoneIsLast

(* The processor only ever runs a context that is allocated and not over. *)
RunsLiveTask == running \in alloc \cup {Main} /\ at[running] # "done"

(* When api_task_exec returns to api_loop_call, the task it ran is done:   *)
(* the api_task_delete that follows frees a stack nobody will run on.      *)
CallSeesDone ==
    \A t \in alloc \cup {Main} :
        at[t] = "returned" => callee[t] \in alloc /\ isDone[callee[t]]

(* Nobody is stranded: every allocated task runs, or somebody is going to  *)
(* resume or to free it.                                                   *)
NoStranded ==
    \A t \in alloc :
        \/ t = running
        \/ t \in waiting
        \/ at[t] = "exec" /\ callee[t] \in alloc /\ parent[callee[t]] = t
        \/ at[t] = "done" /\ running = parent[t] /\ at[parent[t]] = "returned"

(* Memory of done tasks does not pile up: when the loop runs, every        *)
(* posted task that ended is free.                                         *)
PostedFreed == running = Main => \A t \in alloc : ~isDone[t]

(* Every task that was started ends and is freed, and so every             *)
(* api_loop_call returns.                                                  *)
TasksEnd == \A t \in Tasks : t \in alloc ~> t \notin alloc
=============================================================================
