-------------------------------- MODULE Timer --------------------------------
(***************************************************************************)
(* The timers of a loop (src/api/src/api_timer.c) and the loop around them *)
(* (api_loop_run_internal, unix and Windows).                              *)
(*                                                                         *)
(* A loop has three sets of timers: sleeps, idles and timeouts.  A set is  *)
(* a red-black tree of lists, one list per period, each list in the order  *)
(* in which its timers were set.  Every round of the loop passes over the  *)
(* sleeps, waits for events, passes over the idles if there was none, and  *)
(* passes over the timeouts.  A pass wakes tasks while it walks, and what  *)
(* these do changes the very set it is walking over.                       *)
(*                                                                         *)
(* A task has at most one timer, a local variable of the function it       *)
(* sleeps in, so a timer is named by its task.  Times are uint64_t, scaled *)
(* down to numbers modulo Word, and an int holds a quarter of its bits.    *)
(***************************************************************************)
EXTENDS OrderedTree, Sequences

Word == 65536           \* uint64_t
IntRange == 256         \* int

CONSTANTS
    Tasks,
    Nobody,         \* no task, no timer
    Epoch,          \* what api_time_current returns at the start
    Horizon,        \* bound on the time that passes
    Platforms       \* "unix": unix/api_loop.c, "win": win/api_loop.c

ASSUME TimerAssumption ==
    /\ Nobody \notin Tasks
    /\ Epoch \in Nat \ {0}
    /\ Horizon \in Nat
    /\ Platforms \subseteq {"unix", "win"}

(* The loop runs for less time than the int of epoll_wait holds, and no    *)
(* timer is set for nearly as long as the clock takes to wrap around.      *)
ASSUME TimesAssumption ==
    /\ Horizon < IntRange \div 2
    /\ \A p \in Keys : p <= Word - IntRange

Kinds == {"sleep", "idle", "timeout"}

VARIABLES
    platform,       \* the platform the loop runs on
    clock,          \* api_time_current()
    now,            \* base.now
    last,           \* base.last_activity
    tree,           \* tree[k]: the root of set k
    list,           \* list[k][p]: the timers of set k with period p
    issued,         \* issued[t]: timer->issued, 0 when t has no timer
    period,         \* period[t]: timer->list->value, Null when t has no timer
    place,          \* place[t]: where t is, see Places
    running,        \* the task that runs, or Nobody: the loop runs
    phase,          \* where the loop is
    walk,           \* the locals of the pass under way
    deadline        \* when epoll_wait times out, or Never

vars == <<platform, clock, now, last, tree, list, issued, period, place, running, phase,
          walk, deadline>>

Places ==
    Kinds           \* suspended, with a timer in this set
    \cup {"wait",   \* suspended without a timer, until an event
          "run",
          "out"}    \* over, or suspended where nobody resumes it

Phases ==
    Kinds                                       \* api_timer_process
    \cup {"wait", "event", "lastEvent"}        \* epoll_wait, processors
    \cup {"endIdle", "endSleep", "endTimeout", "gone"}   \* api_loop_cleanup
    \cup {"crashed",                           \* follows a null head
           "astray"}                            \* reads a dead stack frame

(* the set a phase passes over, and the phase after it *)
KindOf ==
    [f \in {"sleep", "idle", "timeout", "endIdle", "endSleep", "endTimeout"} |->
        CASE f \in {"sleep", "endSleep"} -> "sleep"
          [] f \in {"idle", "endIdle"} -> "idle"
          [] f \in {"timeout", "endTimeout"} -> "timeout"]

Passing == phase \in DOMAIN KindOf
Ending == phase \in {"endIdle", "endSleep", "endTimeout"}

-----------------------------------------------------------------------------
(* Arithmetic of uint64_t and int *)

Never == -1
Forever == Word - 1                     \* (uint64_t)-1

Sub(a, b) == (a - b) % Word

(* the timeout argument of epoll_wait, an int of which every negative value *)
(* means no timeout, and of GetQueuedCompletionStatus, a DWORD of which     *)
(* only the largest does                                                    *)
ToMilliseconds(x) ==
    LET ms == x % IntRange
    IN  IF \/ platform = "unix" /\ ms >= IntRange \div 2
           \/ ms = IntRange - 1
        THEN Never ELSE ms

Least(a, b) == IF a <= b THEN a ELSE b

-----------------------------------------------------------------------------
(* api_timers_nearest_event; the first list must have a head *)
NearestEvent(k) ==
    IF TreeFirst(tree[k]) = Null THEN Forever
    ELSE Sub(now, issued[Head(list[k][TreeFirst(tree[k])])])

(* Mutation: the sleeps are forgotten. *)
WaitTimeoutNoSleeps == Least(NearestEvent("idle"), NearestEvent("timeout"))

(* api_loop_calculate_wait_timeout *)
WaitTimeout ==
    Least(NearestEvent("sleep"), Least(NearestEvent("idle"), NearestEvent("timeout")))

HeadMissing == \E k \in Kinds : TreeFirst(tree[k]) # Null /\ list[k][TreeFirst(tree[k])] = <<>>

Position(s, t) == CHOOSE i \in 1..Len(s) : s[i] = t

(* the timer behind t in its list, or Nobody *)
Behind(s, t) ==
    IF Position(s, t) < Len(s) THEN s[Position(s, t) + 1] ELSE Nobody

Front(s) == IF s = <<>> THEN Nobody ELSE s[1]

(* t is taken out of its list *)
Without(s, t) ==
    [i \in 1..(Len(s) - 1) |-> s[IF i < Position(s, t) THEN i ELSE i + 1]]

(* api_rbtree_remove of a list that has become empty *)
Prune(tr, s, p) == IF s = <<>> THEN TreeRemove(tr, p) ELSE tr

(* the locals of a pass when it comes to list p of set k *)
Visit(k, p, tr, fresh, count) ==
    [list |-> p,
     next |-> IF p = Null THEN Null ELSE TreeNext(tr, p),
     timer |-> IF p = Null THEN Nobody ELSE Front(list[k][p]),
     fresh |-> fresh,
     count |-> count]

Walks ==
    [list : Keys \cup {Null}, next : Keys \cup {Null}, timer : Tasks \cup {Nobody},
     fresh : SUBSET Tasks, count : {0, 1}]

NoWalk == [list |-> Null, next |-> Null, timer |-> Nobody, fresh |-> {}, count |-> 0]

(* the start of api_timer_process or api_timer_terminate *)
StartPass(f) ==
    /\ phase' = f
    /\ walk' = Visit(KindOf[f], TreeFirst(tree[KindOf[f]]), tree[KindOf[f]], {}, 0)

(* api_loop_run_internal up to its first round *)
Init ==
    /\ platform \in Platforms
    /\ clock = Epoch
    /\ now = Epoch
    /\ last = Epoch
    /\ tree = [k \in Kinds |-> NewTree]
    /\ list = [k \in Kinds |-> [p \in Keys |-> <<>>]]
    /\ issued = [t \in Tasks |-> 0]
    /\ period = [t \in Tasks |-> Null]
    /\ place = [t \in Tasks |-> "wait"]
    /\ running = Nobody
    /\ phase = "sleep"
    /\ walk = NoWalk
    /\ deadline = Never

-----------------------------------------------------------------------------
(* What a running task does until it suspends itself *)

(* Mutation: a timer is put at the head of its list. *)
SetTimerAtHead(t, k, p) ==
    /\ tree' = [tree EXCEPT ![k] = IF TreeSearch(@, p) = Null THEN TreeInsert(@, p) ELSE @]
    /\ list' = [list EXCEPT ![k][p] = <<t>> \o @]
    /\ issued' = [issued EXCEPT ![t] = IF k = "idle" THEN 0 ELSE clock]
    /\ period' = [period EXCEPT ![t] = p]
    /\ walk' = IF Passing /\ KindOf[phase] = k
               THEN [walk EXCEPT !.fresh = @ \cup {t}] ELSE walk

(* api_timer_set on a fresh timer, and api_timer_add; version numbers only *)
(* tell the timers set during the pass under way from older ones           *)
SetTimer(t, k, p) ==
    /\ tree' = [tree EXCEPT ![k] = IF TreeSearch(@, p) = Null THEN TreeInsert(@, p) ELSE @]
    /\ list' = [list EXCEPT ![k][p] = Append(@, t)]
    /\ issued' = [issued EXCEPT ![t] = IF k = "idle" THEN 0 ELSE clock]
    /\ period' = [period EXCEPT ![t] = p]
    /\ walk' = IF Passing /\ KindOf[phase] = k
               THEN [walk EXCEPT !.fresh = @ \cup {t}] ELSE walk

(* api_loop_sleep, api_loop_idle, or a wait for an event with a timeout    *)
(* (api_stream_read and _write, api_event_wait, api_tcp_accept...)         *)
Suspend(t, k, p) ==
    /\ running = t
    /\ SetTimer(t, k, p)
    /\ place' = [place EXCEPT ![t] = k]
    /\ running' = Nobody
    /\ UNCHANGED <<platform, clock, now, last, phase, deadline>>

(* a wait for an event without a timeout *)
SuspendUntimed(t) ==
    /\ running = t
    /\ place' = [place EXCEPT ![t] = "wait"]
    /\ running' = Nobody
    /\ UNCHANGED <<platform, clock, now, last, tree, list, issued, period, phase, walk, deadline>>

(* the timer goes away with the stack frame it is in *)
DropTimer(t) ==
    /\ issued' = [issued EXCEPT ![t] = 0]
    /\ period' = [period EXCEPT ![t] = Null]

(* Mutation: an empty list is freed during a pass, too. *)
ArrivePrunes(t) ==
    /\ place[t] \in {"wait", "timeout"}
    /\ DropTimer(t)
    /\ IF place[t] = "wait"
       THEN UNCHANGED <<tree, list>>
       ELSE LET p == period[t]
                s == Without(list["timeout"][p], t)
            IN  /\ list' = [list EXCEPT !["timeout"][p] = s]
                /\ tree' = [tree EXCEPT !["timeout"] = Prune(@, s, p)]

(* The event t waits for comes: t calls api_timeout_exec with 0.  While    *)
(* the timeouts are passed over, an empty list stays.                      *)
Arrive(t) ==
    /\ place[t] \in {"wait", "timeout"}
    /\ DropTimer(t)
    /\ IF place[t] = "wait"
       THEN UNCHANGED <<tree, list>>
       ELSE LET p == period[t]
                s == Without(list["timeout"][p], t)
                processing == Passing /\ KindOf[phase] = "timeout"
            IN  /\ list' = [list EXCEPT !["timeout"][p] = s]
                /\ tree' = IF processing THEN tree
                           ELSE [tree EXCEPT !["timeout"] = Prune(@, s, p)]

(* t calls api_event_signal, which resumes the task u that waits.  t stays *)
(* suspended in it, and u, which has no scheduler.current any more, can    *)
(* only end: see Event.  The pass under way may have saved u's timer.      *)
Signal(t, u) ==
    /\ running = t
    /\ Arrive(u)
    /\ place' = [place EXCEPT ![t] = "out", ![u] = "out"]
    /\ running' = Nobody
    /\ UNCHANGED <<platform, clock, now, last, phase, walk, deadline>>

-----------------------------------------------------------------------------
(* Passes of the loop *)

LoopRuns == running = Nobody

(* `elapsed' in api_timer_process, TRUE in api_timer_terminate *)
Due(t) ==
    \/ Ending
    \/ phase = "sleep" /\ Sub(now, issued[t]) >= walk.list
    \/ phase \in {"idle", "timeout"} /\ Sub(now, last) >= walk.list

(* timers set during the pass are skipped, but not by api_timer_terminate *)
Skipped(t) == ~Ending /\ t \in walk.fresh

CurrentList == list[KindOf[phase]][walk.list]

(* the pass has saved in `temp' a timer that is in its list no more *)
Stale ==
    Passing /\ walk.timer # Nobody
        /\ ~\E i \in 1..Len(CurrentList) : CurrentList[i] = walk.timer

InPass == LoopRuns /\ Passing /\ ~Stale

PassSkip ==
    /\ InPass
    /\ walk.timer # Nobody
    /\ Skipped(walk.timer)
    /\ walk' = [walk EXCEPT !.timer = Behind(CurrentList, walk.timer)]
    /\ UNCHANGED <<platform, clock, now, last, tree, list, issued, period, place, running,
                   phase, deadline>>

(* take the timer off its list and wake its task *)
PassWake ==
    /\ InPass
    /\ walk.timer # Nobody
    /\ ~Skipped(walk.timer)
    /\ Due(walk.timer)
    /\ list' = [list EXCEPT ![KindOf[phase]][walk.list] = Without(@, walk.timer)]
    /\ place' = [place EXCEPT ![walk.timer] = "run"]
    /\ running' = walk.timer
    /\ DropTimer(walk.timer)
    /\ walk' = [walk EXCEPT !.timer = Behind(CurrentList, walk.timer),
                            !.count = 1]
    /\ UNCHANGED <<platform, clock, now, last, tree, phase, deadline>>

(* the rest of the list is still pending, or there is no rest *)
PassList ==
    /\ InPass
    /\ walk.list # Null
    /\ walk.timer # Nobody => ~Skipped(walk.timer) /\ ~Due(walk.timer)
    /\ LET k == KindOf[phase]
           tr == Prune(tree[k], CurrentList, walk.list)
       IN  /\ tree' = [tree EXCEPT ![k] = tr]
           /\ walk' = Visit(k, walk.next, tr, walk.fresh, walk.count)
    /\ UNCHANGED <<platform, clock, now, last, list, issued, period, place, running, phase,
                   deadline>>

(* `timer = temp', in a frame that is gone: what the loop then reads there *)
(* is undefined and not followed                                           *)
PassAstray ==
    /\ LoopRuns
    /\ Stale
    /\ phase' = "astray"
    /\ UNCHANGED <<platform, clock, now, last, tree, list, issued, period, place, running,
                   walk, deadline>>

PassOver == InPass /\ walk.list = Null

ReadClock == now' = clock /\ last' = clock

(* the sleeps are done: epoll_wait is called *)
EnterWait ==
    /\ PassOver
    /\ phase = "sleep"
    /\ IF walk.count > 0 THEN ReadClock ELSE UNCHANGED <<now, last>>
    /\ walk' = NoWalk
    /\ UNCHANGED <<platform, clock, tree, list, issued, period, place, running>>
    /\ IF HeadMissing
       THEN phase' = "crashed" /\ deadline' = Never
       ELSE LET ms == ToMilliseconds(WaitTimeout')
            IN  /\ phase' = "wait"
                /\ deadline' = IF ms = Never THEN Never ELSE clock + ms

(* epoll_wait returns 0: the idles are next *)
TimedOut ==
    /\ phase = "wait"
    /\ deadline # Never /\ clock >= deadline
    /\ now' = clock
    /\ deadline' = Never
    /\ StartPass("idle")
    /\ UNCHANGED <<platform, clock, last, tree, list, issued, period, place, running>>

(* epoll_wait returns events *)
EventsCame ==
    /\ phase = "wait"
    /\ now' = clock
    /\ deadline' = Never
    /\ phase' = "event"
    /\ UNCHANGED <<platform, clock, last, tree, list, issued, period, place, running, walk>>

(* a processor resumes a task; Windows returns one event at a time *)
Event(t) ==
    /\ phase = "event" /\ LoopRuns
    /\ Arrive(t)
    /\ running' = t
    /\ place' = [place EXCEPT ![t] = "run"]
    /\ phase' = IF platform = "win" THEN "lastEvent" ELSE "event"
    /\ UNCHANGED <<platform, clock, now, last, walk, deadline>>

(* the last processor has returned: the timeouts are next *)
EventsDone ==
    /\ phase \in {"event", "lastEvent"} /\ LoopRuns
    /\ ReadClock
    /\ StartPass("timeout")
    /\ UNCHANGED <<platform, clock, tree, list, issued, period, place, running, deadline>>

IdlesDone ==
    /\ PassOver
    /\ phase = "idle"
    /\ IF walk.count > 0 THEN ReadClock ELSE UNCHANGED <<now, last>>
    /\ StartPass("timeout")
    /\ UNCHANGED <<platform, clock, tree, list, issued, period, place, running, deadline>>

(* Mutation: `now' is from before the timeouts. *)
TimeoutsDoneStale ==
    /\ PassOver
    /\ phase = "timeout"
    /\ StartPass("sleep")
    /\ UNCHANGED <<platform, clock, now, last, tree, list, issued, period, place, running,
                   deadline>>

(* the timeouts are done: the next round *)
TimeoutsDone ==
    /\ PassOver
    /\ phase = "timeout"
    /\ now' = IF platform = "win" THEN clock ELSE now
    /\ StartPass("sleep")
    /\ UNCHANGED <<platform, clock, last, tree, list, issued, period, place, running, deadline>>

(* epoll_wait is interrupted by a signal *)
Interrupted ==
    /\ phase = "wait"
    /\ platform = "unix"
    /\ now' = clock
    /\ deadline' = Never
    /\ StartPass("sleep")
    /\ UNCHANGED <<platform, clock, last, tree, list, issued, period, place, running>>

(* the loop was stopped: api_loop_cleanup *)
Stopped ==
    /\ phase = "wait"
    /\ now' = clock
    /\ deadline' = Never
    /\ StartPass("endIdle")
    /\ UNCHANGED <<platform, clock, last, tree, list, issued, period, place, running>>

EndPassDone ==
    /\ PassOver
    /\ \/ phase = "endIdle" /\ StartPass("endSleep")
       \/ phase = "endSleep" /\ StartPass("endTimeout")
       \/ phase = "endTimeout" /\ phase' = "gone" /\ walk' = NoWalk
    /\ UNCHANGED <<platform, clock, now, last, tree, list, issued, period, place, running,
                   deadline>>

Tick ==
    /\ phase = "wait" \/ ~LoopRuns
    /\ clock < Epoch + Horizon
    /\ clock' = clock + 1
    /\ UNCHANGED <<platform, now, last, tree, list, issued, period, place, running,
                   phase, walk, deadline>>

TaskStep ==
    \E t \in Tasks :
        \/ \E k \in Kinds, p \in Keys : Suspend(t, k, p)
        \/ SuspendUntimed(t)
        \/ \E u \in Tasks : Signal(t, u)

LoopStep ==
    \/ PassSkip \/ PassWake \/ PassList \/ PassAstray
    \/ EnterWait \/ TimedOut \/ EventsCame \/ EventsDone \/ IdlesDone
    \/ TimeoutsDone \/ Interrupted \/ Stopped \/ EndPassDone
    \/ \E t \in Tasks : Event(t)

Next == TaskStep \/ LoopStep \/ Tick

Spec == Init /\ [][Next]_vars

-----------------------------------------------------------------------------
(* Properties *)

TypeOK ==
    /\ clock \in Epoch..(Epoch + Horizon)
    /\ now \in Epoch..clock
    /\ last \in Epoch..now
    /\ platform \in Platforms
    /\ tree \in [Kinds -> Trees]
    /\ list \in [Kinds -> [Keys -> Seq(Tasks)]]
    /\ issued \in [Tasks -> {0} \cup Epoch..clock]
    /\ period \in [Tasks -> Keys \cup {Null}]
    /\ place \in [Tasks -> Places]
    /\ running \in Tasks \cup {Nobody}
    /\ phase \in Phases
    /\ walk \in Walks
    /\ deadline = Never \/ deadline \in Nat

InTree(k, p) == TreeSearch(tree[k], p) = p

(* A task suspended with a timer is in the one list of its set and period, *)
(* once, and that list is in the tree where the loop will find it; nobody  *)
(* else is in a list.  So whoever wakes a task, a pass or an event, leaves *)
(* no pointer to the timer on its stack in the trees and lists; the pass   *)
(* under way may hold one, see SavedTimer.                                 *)
TimersRegistered ==
    /\ \A t \in Tasks : place[t] \in Kinds => period[t] \in Keys
    /\ \A k \in Kinds, p \in Keys :
        /\ \A i, j \in DOMAIN list[k][p] : list[k][p][i] = list[k][p][j] => i = j
        /\ \A t \in Tasks :
              (\E i \in DOMAIN list[k][p] : list[k][p][i] = t)
                  <=> place[t] = k /\ period[t] = p
        /\ list[k][p] # <<>> => InTree(k, p)

(* The lists a pass holds on to, the current one and the next, are not     *)
(* freed while tasks run and set or cancel timers of the set; the next one *)
(* is not the one that the pass may free itself.                           *)
WalkValid ==
    Passing =>
        /\ \A p \in {walk.list, walk.next} \ {Null} : InTree(KindOf[phase], p)
        /\ walk.next # Null => walk.list # Null /\ walk.list < walk.next
        /\ walk.list = Null => walk.timer = Nobody

(* The timer that a pass goes on with was saved before a task ran.  It is  *)
(* still in its list whatever that task did, but for one thing: in a pass  *)
(* over the timeouts the task may have signalled the very task that timer  *)
(* belongs to, which then cancels it and ends.  No other pass, and no pass *)
(* that has woken nobody, goes astray.                                     *)
SavedTimer ==
    /\ Stale => KindOf[phase] = "timeout"
    /\ Stale \/ phase = "astray" =>
          walk.count = 1 /\ walk.timer # Nobody /\ place[walk.timer] = "out"

(* A task runs only where the loop has resumed it, and a pass that resumed *)
(* none has set no timer and has not counted one.                          *)
Control ==
    /\ \A t \in Tasks : place[t] = "run" <=> running = t
    /\ ~LoopRuns => (Passing /\ walk.count = 1) \/ phase \in {"event", "lastEvent"}
    /\ Passing /\ walk.count = 0 => walk.fresh = {}

(* Of the timers that are set, the idle ones have no time of issue.        *)
IdlesUntimed ==
    \A t \in Tasks : place[t] \in Kinds => (issued[t] = 0 <=> place[t] = "idle")

(* A list of sleeps is empty only between the pass that empties it and     *)
(* that pass's api_rbtree_remove, so the first one has a head.             *)
SleepListsFull ==
    \A p \in Held(tree["sleep"]) :
        list["sleep"][p] = <<>> =>
            phase \in {"sleep", "endSleep"} /\ walk.list = p /\ walk.count = 1

(* A pass over the sleeps that wakes nobody leaves a first timer that was  *)
(* set before `now'.                                                       *)
FirstSleepPast ==
    LET p == TreeFirst(tree["sleep"])
    IN  phase = "sleep" /\ walk.count = 0 /\ p # Null =>
            \/ walk.list = p /\ walk.timer = Head(list["sleep"][p])
            \/ issued[Head(list["sleep"][p])] <= now

(* On Windows `now' is read after the tasks have run, so a pass finds only *)
(* sleeps that began before it.                                            *)
SleepsPastOnWindows ==
    platform = "win" /\ phase = "sleep" =>
        \A t \in Tasks \ walk.fresh : place[t] = "sleep" => issued[t] <= now

(* What a pass of api_timer_process rests on when it goes on after a task  *)
(* has run: the timers of the suspended tasks, and only those, are in their*)
(* lists, and the lists it still has to visit are in the tree; and what    *)
(* breaks the rest of it, the timer it saved.                              *)
TimerInv ==
    /\ TypeOK
    /\ TimersRegistered
    /\ WalkValid
    /\ SavedTimer
    /\ Control
    /\ IdlesUntimed
    /\ SleepListsFull
    /\ FirstSleepPast
    /\ SleepsPastOnWindows

(* A list is in the order of expiry, whatever order the tasks are woken    *)
(* and set their timers again in, so a pass may stop at the first timer of *)
(* a list that is not due.                                                 *)
ListsInOrder ==
    \A k \in Kinds, p \in Keys : \A i, j \in 1..Len(list[k][p]) :
        i < j => issued[list[k][p][i]] <= issued[list[k][p][j]]

(* The loop never waits for events without a time limit while a task is in *)
(* api_loop_sleep.                                                         *)
SleepersWaitedFor ==
    phase = "wait" /\ (\E t \in Tasks : place[t] = "sleep") => deadline # Never

EndsEarly(t) ==
    /\ phase = "sleep" /\ place[t] = "sleep" /\ place'[t] = "run"
    /\ clock - issued[t] < period[t]

(* A task is not woken from api_loop_sleep before its period is over: not  *)
(* on Windows, where the loop reads the clock after the timeouts have run  *)
(* tasks, and on unix only when the sleep began after the loop's reading   *)
(* of the clock, so that value - issued wraps around.                      *)
SleepNotEarly ==
    [][\A t \in Tasks : EndsEarly(t) => platform = "unix" /\ issued[t] > now]_vars

(* When the loop starts to wait for events, every sleep that was over when *)
(* the round began has ended.                                              *)
DueSleepersWoken ==
    [][\A t \in Tasks :
          phase = "sleep" /\ phase' = "wait" /\ place[t] = "sleep"
                  /\ t \notin walk.fresh
              => now - issued[t] < period[t]]_vars
=============================================================================
