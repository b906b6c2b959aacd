-------------------------------- MODULE Event --------------------------------
(***************************************************************************)
(* Events (src/api/src/unix/api_event.c, the same code on Windows) between *)
(* tasks of one loop, on top of the scheduler of Task.  An event counts    *)
(* signals and remembers one waiting task in `reserved'.  api_event_signal *)
(* resumes that task itself, with api_task_wakeup, whoever calls it.       *)
(***************************************************************************)
EXTENDS Task

CONSTANTS
    Events,
    MaxValue        \* bound on the signals counted per event

ASSUME EventAssumption == MaxValue \in Nat /\ Null \notin Events

VARIABLES
    value,          \* ev->value
    reserved,       \* ev->reserved
    inWait,         \* inWait[t]: the event in whose api_event_wait t sleeps
    displaced,      \* history: the waiters another wait put out of `reserved'
    lapsed          \* history: the loop has woken a task out of a wait

histories == <<displaced, lapsed>>
eventVars == <<value, reserved, inWait, displaced, lapsed>>
allVars == <<vars, eventVars>>

EventInit ==
    /\ Init
    /\ value = [e \in Events |-> 0]
    /\ reserved = [e \in Events |-> Null]
    /\ inWait = [t \in Tasks |-> Null]
    /\ displaced = {}
    /\ lapsed = FALSE

(* t executes its own code, not the rest of an api_event_wait *)
Free(t) == t \in alloc /\ InCode(t) /\ inWait[t] = Null

(* every operation starts from scheduler.current and needs it *)
Operates(t) == Free(t) /\ current # Null

(* Mutation: a signal is counted and wakes nobody. *)
SignalCounts(t, e) ==
    /\ Operates(t)
    /\ value[e] < MaxValue
    /\ value' = [value EXCEPT ![e] = @ + 1]
    /\ UNCHANGED <<vars, reserved, inWait, histories>>

(* api_event_signal.  A wait that timed out leaves `reserved' behind, and  *)
(* the swap may be to a task that is gone: `running' is then no allocated  *)
(* task, and what the processor does is not followed further.              *)
Signal(t, e) ==
    /\ Operates(t)
    /\ value[e] < MaxValue
    /\ value' = [value EXCEPT ![e] = @ + 1]
    /\ reserved' = [reserved EXCEPT ![e] = Null]
    /\ UNCHANGED <<parent, isDone, isPost, callee, waiting, inWait, histories>>
    /\ IF reserved[e] = Null
       THEN UNCHANGED <<current, prev, running, alloc, at>>
       ELSE Swap(current, reserved[e], "wakeup")

(* api_event_wait up to its api_task_sleep, on an event without signals;   *)
(* with a timeout the loop will wake the task too.  `reserved' has room    *)
(* for one task and nothing asks whether it is taken: a second wait        *)
(* displaces the first.                                                    *)
WaitEvent(t, e, timeout) ==
    /\ Operates(t)
    /\ value[e] = 0
    /\ waiting' = IF timeout THEN waiting \cup {t} ELSE waiting
    /\ reserved' = [reserved EXCEPT ![e] = current]
    /\ inWait' = [inWait EXCEPT ![t] = e]
    /\ displaced' = displaced \cup {u \in {reserved[e]} \cap Tasks : inWait[u] = e}
    /\ UNCHANGED <<parent, isDone, isPost, callee, value, lapsed>>
    /\ Swap(current, Main, "sleep")

(* the rest of api_event_wait: scheduler.current = 0, cancel the timeout *)
WaitReturn(t) ==
    /\ t \in alloc
    /\ InCode(t)
    /\ inWait[t] # Null
    /\ current' = Null
    /\ waiting' = waiting \ {t}
    /\ inWait' = [inWait EXCEPT ![t] = Null]
    /\ displaced' = displaced \ {t}
    /\ UNCHANGED <<prev, running, alloc, parent, isDone, isPost, callee, at,
                   value, reserved, lapsed>>

(* a processor or a timer of the loop resumes t, where the timeout of an   *)
(* api_event_wait is one of the timers                                     *)
Resume(t) ==
    /\ Wake(t)
    /\ lapsed' = (lapsed \/ inWait[t] # Null)
    /\ UNCHANGED <<value, reserved, inWait, displaced>>

EventNext ==
    \/ \E t \in Tasks :
          \/ Free(t) /\ Finish(t) /\ UNCHANGED eventVars
          \/ Operates(t) /\ Sleep(t) /\ UNCHANGED eventVars
          \/ Post(t) /\ UNCHANGED eventVars
          \/ Resume(t) \/ WaitReturn(t)
          \/ \E e \in Events :
                \/ Signal(t, e)
                \/ \E timeout \in BOOLEAN : WaitEvent(t, e, timeout)

EventSpec == EventInit /\ [][EventNext]_allVars

-----------------------------------------------------------------------------
(* Properties *)

EventTypeOK ==
    /\ current \in All \cup {Null} /\ running \in All
    /\ alloc \subseteq Tasks /\ at \in [All -> Places]
    /\ isDone \in [Tasks -> BOOLEAN] /\ isPost \in [Tasks -> BOOLEAN]
    /\ parent \in [Tasks -> All \cup {Null}]
    /\ value \in [Events -> 0..MaxValue]
    /\ reserved \in [Events -> Tasks \cup {Null}]
    /\ inWait \in [Tasks -> Events \cup {Null}]
    /\ displaced \subseteq Tasks /\ lapsed \in BOOLEAN

(* The scheduler knows who runs, or nobody, as api_event_wait leaves it,   *)
(* and always knows when it is the loop.                                   *)
CurrentRuns ==
    /\ current \in {running, Null}
    /\ running = Main => current = Main

(* all tasks are posted, and freed in the step in which they end *)
PostedOnly == \A t \in alloc : isPost[t] /\ ~isDone[t] /\ parent[t] = Main

(* A task is not freed in the middle of a wait, so that no new task begins *)
(* in one; and only a task that is in one is remembered as displaced.      *)
FreedOutside ==
    /\ \A t \in Tasks \ alloc : inWait[t] = Null
    /\ \A t \in displaced : inWait[t] # Null

AsleepInWait(t) == inWait[t] # Null /\ at[t] = "sleep"

(* A task asleep in api_event_wait is the one the event has reserved,      *)
(* whatever other signals and timeouts resumed meanwhile, until another    *)
(* task begins to wait for the same event: from then on no signal of it    *)
(* is for the first one, and only a timeout is left to wake it.            *)
SleeperReserved ==
    \A t \in alloc :
        AsleepInWait(t) => (reserved[inWait[t]] = t <=> t \notin displaced)

(* No signal is missed: a task asleep in api_event_wait waits for an event *)
(* without signals, whether the signals came before its wait or during it, *)
(* unless another waiter displaced it.                                     *)
NoMissedSignal ==
    \A t \in alloc :
        AsleepInWait(t) => value[inWait[t]] = 0 \/ t \in displaced

(* As long as no wait has timed out, a reservation is of a live task       *)
(* asleep in a wait for that very event, and what the processor runs is    *)
(* allocated: only a timeout, which leaves `reserved' set, makes a signal  *)
(* resume a task out of something else, or one that is gone.               *)
SignalsFollowWaits ==
    ~lapsed =>
        /\ running \in alloc \cup {Main}
        /\ \A t \in waiting :
              t \in alloc /\ (at[t] = "sleep" \/ inWait[t] # Null)
        /\ \A e \in Events : reserved[e] # Null =>
              reserved[e] \in alloc /\ AsleepInWait(reserved[e]) /\ inWait[reserved[e]] = e

(* What makes api_event_signal find the task that waits, although it only  *)
(* looks at `reserved', which a timeout leaves behind and a second waiter  *)
(* overwrites.                                                             *)
EventInv ==
    /\ EventTypeOK
    /\ CurrentRuns
    /\ PostedOnly
    /\ FreedOutside
    /\ SleeperReserved
    /\ NoMissedSignal
    /\ SignalsFollowWaits
=============================================================================
