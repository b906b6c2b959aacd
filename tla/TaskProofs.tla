----------------------------- MODULE TaskProofs -----------------------------
(***************************************************************************)
(* Proofs about the scheduler of Task, for any number of tasks and any     *)
(* depth of nested calls, and about the events between its tasks.          *)
(***************************************************************************)
EXTENDS Event, TLAPS

LEMMA InitIInv == Init => IInv
    BY TaskAssumption
       DEF Init, IInv, TypeOK, RunningPlace, WaitersSleep, CallersWait,
           CalleesReturn, PostedReturnToMain, DoneIsLast, All, Places

LEMMA PostStep ==
    ASSUME IInv, NEW t \in Tasks, Post(t)
    PROVE  IInv'
<1> USE TaskAssumption DEF IInv, All
<1>1. TypeOK'
    BY DEF TypeOK, RunningPlace, Places, Post, Start
<1>2. /\ running = Main /\ t # Main /\ t \notin alloc
      /\ running' = t /\ current' = t /\ alloc' = alloc \cup {t}
      /\ at'[Main] = "post" /\ at'[t] = "code"
      /\ \A u \in alloc : at'[u] = at[u] /\ parent'[u] = parent[u]
      /\ UNCHANGED <<callee, waiting>> /\ parent'[t] = Main
    BY DEF TypeOK, RunningPlace, Post, Start, InCode
<1>3. /\ \A u \in alloc : (isDone'[u] <=> isDone[u]) /\ (isPost'[u] <=> isPost[u])
      /\ ~isDone'[t] /\ isPost'[t]
    BY <1>2 DEF TypeOK, Post, Start
<1>4. RunningPlace' /\ WaitersSleep'
    BY <1>2 DEF RunningPlace, WaitersSleep
<1>5. CallersWait'
    BY <1>2, <1>3 DEF CallersWait
<1>6. CalleesReturn' /\ PostedReturnToMain' /\ DoneIsLast'
    BY <1>2, <1>3 DEF CalleesReturn, PostedReturnToMain, DoneIsLast
<1> QED
    BY <1>1, <1>4, <1>5, <1>6

LEMMA CallStep ==
    ASSUME IInv, NEW t \in Tasks, NEW c \in Tasks, Call(t, c)
    PROVE  IInv'
<1> USE TaskAssumption DEF IInv, All
<1>1. TypeOK'
    BY DEF TypeOK, RunningPlace, Places, Call, Start
<1>2. /\ running = t /\ t \in alloc /\ at[t] = "code" /\ c \notin alloc /\ c # t
      /\ running' = c /\ current' = c /\ alloc' = alloc \cup {c}
      /\ at'[t] = "exec" /\ at'[c] = "code" /\ at'[Main] = at[Main]
      /\ \A u \in alloc \ {t} : at'[u] = at[u] /\ callee'[u] = callee[u]
      /\ \A u \in alloc : parent'[u] = parent[u]
      /\ parent'[c] = t /\ callee'[t] = c /\ UNCHANGED waiting
    BY DEF TypeOK, RunningPlace, Call, Start, InCode
<1>3. /\ \A u \in alloc : (isDone'[u] <=> isDone[u]) /\ (isPost'[u] <=> isPost[u])
      /\ ~isDone'[c] /\ ~isPost'[c]
    BY <1>2 DEF TypeOK, Call, Start
<1>4. RunningPlace' /\ WaitersSleep'
    BY <1>2 DEF RunningPlace, WaitersSleep
<1>5. CallersWait'
    BY <1>2, <1>3 DEF CallersWait
<1>6. CalleesReturn'
    BY <1>2, <1>3 DEF CalleesReturn
<1>7. PostedReturnToMain' /\ DoneIsLast'
    BY <1>2, <1>3 DEF PostedReturnToMain, DoneIsLast
<1> QED
    BY <1>1, <1>4, <1>5, <1>6, <1>7

LEMMA CallReturnStep ==
    ASSUME IInv, NEW t \in Tasks, CallReturn(t)
    PROVE  IInv'
<1> USE TaskAssumption DEF IInv, All
<1> DEFINE c == callee[t]
<1>1. TypeOK'
    BY DEF TypeOK, Places, CallReturn
<1>2. /\ running = t /\ t \in alloc /\ at[t] = "returned"
      /\ running' = t /\ current' = t /\ UNCHANGED <<parent, isDone, isPost, waiting>>
      /\ at'[t] = "code" /\ at'[Main] = at[Main]
      /\ \A u \in alloc \ {t} : at'[u] = at[u] /\ callee'[u] = callee[u]
    BY DEF TypeOK, RunningPlace, CallReturn
<1>3. /\ c \in alloc /\ parent[c] = t /\ ~isPost[c] /\ isDone[c] /\ at[c] = "done"
      /\ c # t
    BY <1>2 DEF CallersWait, DoneIsLast
<1>4. alloc' = alloc \ {c}
    BY <1>2, <1>3 DEF CallReturn, RunningPlace
<1>5. \A u \in alloc \ {c} : ~isPost[u] => parent[u] # t /\ parent[u] # c
    BY <1>3 DEF CalleesReturn
<1>6. \A u \in alloc \ {t} : at[u] \in {"exec", "returned"} => callee[u] # c
    BY <1>3 DEF CallersWait
<1> HIDE DEF c
<1>7. RunningPlace' /\ WaitersSleep'
    BY <1>2, <1>3, <1>4 DEF RunningPlace, WaitersSleep
<1>8. CallersWait'
    BY <1>2, <1>3, <1>4, <1>6 DEF CallersWait
<1>9. CalleesReturn'
    BY <1>2, <1>3, <1>4, <1>5 DEF CalleesReturn
<1>10. PostedReturnToMain' /\ DoneIsLast'
    BY <1>2, <1>3, <1>4 DEF PostedReturnToMain, DoneIsLast
<1> QED
    BY <1>1, <1>7, <1>8, <1>9, <1>10

LEMMA SleepStep ==
    ASSUME IInv, NEW t \in Tasks, Sleep(t)
    PROVE  IInv'
<1> USE TaskAssumption DEF IInv, All
<1>1. /\ current = t /\ running = t /\ t \in alloc /\ at[t] = "code" /\ ~isDone[t]
      /\ at[Main] \in {"wakeup", "post"}
    BY DEF RunningPlace, DoneIsLast, Sleep, InCode
<1>2. /\ alloc' = alloc /\ prev' = t /\ running' = Main /\ current' = Main
      /\ waiting' = waiting \cup {t} /\ UNCHANGED <<parent, isDone, isPost, callee>>
      /\ at' = [at EXCEPT ![t] = "sleep", ![Main] = "code"]
    BY <1>1 DEF Sleep, Swap, TypeOK
<1>3. TypeOK'
    BY <1>1, <1>2 DEF TypeOK, Places
<1>4. /\ at'[t] = "sleep" /\ at'[Main] = "code"
      /\ \A u \in alloc \ {t} : at'[u] = at[u]
    BY <1>1, <1>2 DEF TypeOK
<1>5. RunningPlace' /\ WaitersSleep'
    BY <1>1, <1>2, <1>4 DEF RunningPlace, WaitersSleep
<1>6. CallersWait'
    BY <1>1, <1>2, <1>4 DEF CallersWait
<1>7. \A u \in alloc : ~isPost[u] => parent[u] # t
    BY <1>1 DEF CalleesReturn
<1>8. CalleesReturn'
  <2> SUFFICES ASSUME NEW c \in alloc, ~isPost[c]
               PROVE  /\ parent[c] \in alloc /\ callee[parent[c]] = c
                      /\ at'[parent[c]] \in {"exec", "returned"}
    BY <1>2 DEF CalleesReturn
  <2>1. /\ parent[c] \in alloc \ {t} /\ callee[parent[c]] = c
        /\ at[parent[c]] \in {"exec", "returned"}
    BY <1>7 DEF CalleesReturn
  <2> QED
    BY <1>4, <2>1
<1>9. PostedReturnToMain' /\ DoneIsLast'
    BY <1>1, <1>2, <1>4 DEF PostedReturnToMain, DoneIsLast
<1> QED
    BY <1>3, <1>5, <1>6, <1>8, <1>9

LEMMA WakeStep ==
    ASSUME IInv, NEW t \in Tasks, Wake(t)
    PROVE  IInv'
<1> USE TaskAssumption DEF IInv, All
<1>1. /\ current = Main /\ running = Main /\ t \in alloc /\ at[t] = "sleep" /\ t # Main
    BY DEF RunningPlace, WaitersSleep, Wake, InCode
<1>2. /\ alloc' = alloc /\ prev' = Main /\ running' = t /\ current' = t
      /\ waiting' = waiting \ {t} /\ UNCHANGED <<parent, isDone, isPost, callee>>
      /\ at' = [at EXCEPT ![Main] = "wakeup", ![t] = "code"]
    BY <1>1 DEF Wake, Swap, TypeOK
<1>3. TypeOK'
    BY <1>1, <1>2 DEF TypeOK, Places
<1>4. /\ at'[Main] = "wakeup" /\ at'[t] = "code"
      /\ \A u \in alloc \ {t} : at'[u] = at[u]
    BY <1>1, <1>2 DEF TypeOK
<1>5. RunningPlace' /\ WaitersSleep'
    BY <1>1, <1>2, <1>4 DEF RunningPlace, WaitersSleep
<1>6. CallersWait'
    BY <1>1, <1>2, <1>4 DEF CallersWait
<1>7. \A u \in alloc : ~isPost[u] => parent[u] # t
    BY <1>1 DEF CalleesReturn
<1>8. CalleesReturn'
  <2> SUFFICES ASSUME NEW c \in alloc, ~isPost[c]
               PROVE  /\ parent[c] \in alloc /\ callee[parent[c]] = c
                      /\ at'[parent[c]] \in {"exec", "returned"}
    BY <1>2 DEF CalleesReturn
  <2>1. /\ parent[c] \in alloc \ {t} /\ callee[parent[c]] = c
        /\ at[parent[c]] \in {"exec", "returned"}
    BY <1>7 DEF CalleesReturn
  <2> QED
    BY <1>4, <2>1
<1>9. PostedReturnToMain' /\ DoneIsLast'
    BY <1>1, <1>2, <1>4 DEF PostedReturnToMain, DoneIsLast
<1> QED
    BY <1>3, <1>5, <1>6, <1>8, <1>9

(* The task ends: a posted one is freed by Main, a called one goes back   *)
(* to its caller.                                                         *)
LEMMA FinishStep ==
    ASSUME IInv, NEW t \in Tasks, Finish(t)
    PROVE  IInv'
<1> USE TaskAssumption DEF IInv, All
<1>1. /\ current = t /\ running = t /\ t \in alloc /\ at[t] = "code" /\ ~isDone[t]
      /\ at[Main] \in {"wakeup", "post"}
      /\ UNCHANGED <<parent, isPost, callee, waiting>>
    BY DEF RunningPlace, DoneIsLast, Finish, InCode
<1>2. isDone'[t] /\ \A u \in alloc \ {t} : isDone'[u] <=> isDone[u]
    BY <1>1 DEF TypeOK, Finish
<1>3. CASE isPost[t]
  <2>1. /\ parent[t] = Main /\ alloc' = alloc \ {t} /\ prev' = Null
        /\ running' = Main /\ current' = Main
        /\ at' = [at EXCEPT ![t] = "done", ![Main] = "code"]
    BY <1>1, <1>2, <1>3 DEF PostedReturnToMain, Finish, Swap, TypeOK
  <2>2. TypeOK'
    BY <1>1, <2>1 DEF TypeOK, Places, Finish
  <2>3. at'[Main] = "code" /\ \A u \in alloc \ {t} : at'[u] = at[u]
    BY <1>1, <2>1 DEF TypeOK
  <2>4. RunningPlace' /\ WaitersSleep'
    BY <1>1, <2>1, <2>3 DEF RunningPlace, WaitersSleep
  <2>5. \A u \in alloc : at[u] \in {"exec", "returned"} => callee[u] # t
    BY <1>3 DEF CallersWait
  <2>6. CallersWait'
    <3> SUFFICES ASSUME NEW u \in alloc \ {t}
                 PROVE  /\ at[u] \in {"exec", "returned"} =>
                              /\ callee[u] \in alloc \ {t}
                              /\ parent[callee[u]] = u /\ ~isPost[callee[u]]
                        /\ at[u] = "exec" => ~isDone'[callee[u]]
                        /\ at[u] = "returned" => isDone'[callee[u]]
      BY <1>1, <2>1, <2>3 DEF CallersWait
    <3>1. at[u] \in {"exec", "returned"} => callee[u] \in alloc \ {t}
      BY <2>5 DEF CallersWait
    <3> QED
      BY <1>2, <3>1 DEF CallersWait
  <2>7. \A u \in alloc : ~isPost[u] => parent[u] # t
    BY <1>1 DEF CalleesReturn
  <2>8. CalleesReturn'
    <3> SUFFICES ASSUME NEW c \in alloc \ {t}, ~isPost[c]
                 PROVE  /\ parent[c] \in alloc \ {t} /\ callee[parent[c]] = c
                        /\ at'[parent[c]] \in {"exec", "returned"}
      BY <1>1, <2>1 DEF CalleesReturn
    <3>1. /\ parent[c] \in alloc \ {t} /\ callee[parent[c]] = c
          /\ at[parent[c]] \in {"exec", "returned"}
      BY <2>7 DEF CalleesReturn
    <3> QED
      BY <2>3, <3>1
  <2>9. PostedReturnToMain' /\ DoneIsLast'
    BY <1>1, <1>2, <2>1, <2>3 DEF PostedReturnToMain, DoneIsLast
  <2> QED
    BY <2>2, <2>4, <2>6, <2>8, <2>9
<1>4. CASE ~isPost[t]
  <2> DEFINE p == parent[t]
  <2>1. p \in alloc /\ p # t /\ at[p] = "exec" /\ callee[p] = t
    BY <1>1, <1>4 DEF CalleesReturn, CallersWait
  <2>2. /\ alloc' = alloc /\ prev' = t /\ running' = p /\ current' = p
        /\ at' = [at EXCEPT ![t] = "done", ![p] = "returned"]
    BY <1>1, <1>4, <2>1 DEF Finish, Swap, TypeOK
  <2>3. TypeOK'
    BY <1>1, <2>1, <2>2 DEF TypeOK, Places, Finish
  <2>4. /\ at'[p] = "returned" /\ at'[t] = "done" /\ at'[Main] = at[Main]
        /\ \A u \in alloc \ {t, p} : at'[u] = at[u]
    BY <1>1, <2>1, <2>2 DEF TypeOK
  <2>5. \A u \in alloc : at[u] \in {"exec", "returned"} /\ callee[u] = t => u = p
    BY DEF CallersWait
  <2>6. RunningPlace' /\ WaitersSleep'
    BY <1>1, <2>1, <2>2, <2>4 DEF RunningPlace, WaitersSleep
  <2> HIDE DEF p
  <2>7. CallersWait'
    <3> SUFFICES ASSUME NEW u \in alloc
                 PROVE  /\ at'[u] \in {"exec", "returned"} =>
                              callee[u] \in alloc /\ parent[callee[u]] = u
                              /\ ~isPost[callee[u]]
                        /\ at'[u] = "exec" => ~isDone'[callee[u]]
                        /\ at'[u] = "returned" => isDone'[callee[u]]
      BY <1>1, <2>2 DEF CallersWait
    <3>1. CASE u = p
      BY <1>2, <1>4, <2>1, <2>4, <3>1 DEF CallersWait, p
    <3>2. CASE u = t
      BY <2>1, <2>4, <3>2
    <3>3. CASE u \notin {p, t}
      <4>1. at'[u] = at[u]
        BY <2>4, <3>3
      <4>2. at[u] \in {"exec", "returned"} => callee[u] \in alloc \ {t}
        BY <2>5, <3>3 DEF CallersWait
      <4> QED
        BY <1>2, <4>1, <4>2 DEF CallersWait
    <3> QED
      BY <3>1, <3>2, <3>3
  <2>8. \A u \in alloc : ~isPost[u] => parent[u] # t
    BY <1>1 DEF CalleesReturn
  <2>9. CalleesReturn'
    <3> SUFFICES ASSUME NEW c \in alloc, ~isPost[c]
                 PROVE  /\ parent[c] \in alloc /\ callee[parent[c]] = c
                        /\ at'[parent[c]] \in {"exec", "returned"}
      BY <1>1, <2>2 DEF CalleesReturn
    <3>1. /\ parent[c] \in alloc /\ parent[c] # t /\ callee[parent[c]] = c
          /\ at[parent[c]] \in {"exec", "returned"}
      BY <2>8 DEF CalleesReturn
    <3> QED
      BY <2>4, <3>1
  <2>10. PostedReturnToMain'
    BY <1>1, <1>2, <1>4, <2>2 DEF PostedReturnToMain
  <2>11. DoneIsLast'
    BY <1>1, <1>2, <2>1, <2>2, <2>4 DEF DoneIsLast
  <2> QED
    BY <2>3, <2>6, <2>7, <2>9, <2>10, <2>11
<1> QED
    BY <1>3, <1>4

LEMMA StepIInv == IInv /\ [Next]_vars => IInv'
<1> SUFFICES ASSUME IInv, [Next]_vars PROVE IInv'
    OBVIOUS
<1>1. CASE UNCHANGED vars
    BY <1>1 DEF vars, IInv, TypeOK, RunningPlace, WaitersSleep, CallersWait,
           CalleesReturn, PostedReturnToMain, DoneIsLast
<1> QED
    BY <1>1, PostStep, CallStep, CallReturnStep, SleepStep, WakeStep, FinishStep DEF Next

(* A task that is not running is registered for a wakeup, or waits for the *)
(* task it called, or is done and about to be deleted by its caller.       *)
THEOREM Invariance == Spec => []IInv
    BY InitIInv, StepIInv, PTL DEF Spec

(* The scheduler never runs a freed or finished context. *)
THEOREM LiveTask == Spec => []RunsLiveTask
<1>1. IInv => RunsLiveTask
    BY DEF IInv, RunningPlace, RunsLiveTask
<1> QED
    BY <1>1, Invariance, PTL

(* api_loop_call deletes its task only when the task is done. *)
THEOREM CallCompletes == Spec => []CallSeesDone
<1>1. IInv => CallSeesDone
  <2> SUFFICES ASSUME IInv, NEW t \in alloc \cup {Main}, at[t] = "returned"
               PROVE  callee[t] \in alloc /\ isDone[callee[t]]
    BY DEF CallSeesDone
  <2>1. t \in alloc
    BY DEF IInv, RunningPlace
  <2> QED
    BY <2>1 DEF IInv, CallersWait
<1> QED
    BY <1>1, Invariance, PTL

(* No task is left suspended with nobody to resume it. *)
THEOREM NobodyStranded == Spec => []NoStranded
<1>1. IInv => NoStranded
  <2> SUFFICES ASSUME IInv, NEW t \in alloc, t # running, t \notin waiting
               PROVE  \/ at[t] = "exec" /\ callee[t] \in alloc /\ parent[callee[t]] = t
                      \/ at[t] = "done" /\ running = parent[t]
                            /\ at[parent[t]] = "returned"
    BY DEF NoStranded
  <2>1. at[t] \in {"exec", "done"}
    BY DEF IInv, RunningPlace, WaitersSleep
  <2>2. CASE at[t] = "exec"
    BY <2>2 DEF IInv, CallersWait
  <2>3. CASE at[t] = "done"
    <3>1. isDone[t] /\ ~isPost[t]
      BY <2>3 DEF IInv, DoneIsLast, PostedReturnToMain
    <3>2. /\ parent[t] \in alloc /\ callee[parent[t]] = t
          /\ at[parent[t]] \in {"exec", "returned"}
      BY <3>1 DEF IInv, CalleesReturn
    <3>3. at[parent[t]] = "returned"
      BY <3>1, <3>2 DEF IInv, CallersWait
    <3> QED
      BY <2>3, <3>2, <3>3 DEF IInv, RunningPlace
  <2> QED
    BY <2>1, <2>2, <2>3
<1> QED
    BY <1>1, Invariance, PTL

(* Posted tasks that ended are freed before the loop goes on. *)
THEOREM NoDoneTaskKept == Spec => []PostedFreed
<1>1. IInv => PostedFreed
  <2> SUFFICES ASSUME IInv, running = Main, NEW t \in alloc, isDone[t]
               PROVE  FALSE
    BY DEF PostedFreed
  <2>1. ~isPost[t]
    BY DEF IInv, PostedReturnToMain
  <2>2. /\ parent[t] \in alloc /\ callee[parent[t]] = t
        /\ at[parent[t]] \in {"exec", "returned"}
    BY <2>1 DEF IInv, CalleesReturn
  <2>3. at[parent[t]] = "returned"
    BY <2>2 DEF IInv, CallersWait
  <2> QED
    BY <2>2, <2>3, TaskAssumption DEF IInv, RunningPlace, TypeOK
<1> QED
    BY <1>1, Invariance, PTL

-----------------------------------------------------------------------------
(* Events *)

LEMMA EventInitInv == EventInit => EventInv
<1> SUFFICES ASSUME EventInit PROVE EventInv
    OBVIOUS
<1> USE TaskAssumption, EventAssumption DEF EventInit, Init
<1>1. EventTypeOK
  <2>1. /\ current \in All \cup {Null} /\ running \in All
        /\ alloc \subseteq Tasks /\ at \in [All -> Places]
        /\ parent \in [Tasks -> All \cup {Null}]
      BY DEF All, Places
  <2>2. isDone \in [Tasks -> BOOLEAN] /\ isPost \in [Tasks -> BOOLEAN]
      OBVIOUS
  <2>3. value \in [Events -> 0..MaxValue]
      OBVIOUS
  <2>4. /\ reserved \in [Events -> Tasks \cup {Null}]
        /\ inWait \in [Tasks -> Events \cup {Null}]
      OBVIOUS
  <2>5. displaced \subseteq Tasks /\ lapsed \in BOOLEAN
      OBVIOUS
  <2> QED
      BY <2>1, <2>2, <2>3, <2>4, <2>5 DEF EventTypeOK
<1>2. CurrentRuns /\ PostedOnly /\ FreedOutside
    BY DEF CurrentRuns, PostedOnly, FreedOutside
<1>3. SleeperReserved /\ NoMissedSignal
    BY DEF SleeperReserved, NoMissedSignal
<1>4. SignalsFollowWaits
    BY DEF SignalsFollowWaits
<1> QED
    BY <1>1, <1>2, <1>3, <1>4 DEF EventInv

(* The step of a swap between contexts neither of which ends: a sleeper of *)
(* an event stays one unless it is resumed.                                *)
LEMMA EventSwap ==
    ASSUME EventInv, NEW from \in All, NEW to \in All, NEW place \in Places,
           Swap(from, to, place), from \in Tasks => from \in alloc,
           UNCHANGED <<parent, isDone, isPost>>
    PROVE  /\ running' = to /\ current' = to /\ alloc' = alloc /\ at' \in [All -> Places]
           /\ \A t \in All : t # from /\ t # to => at'[t] = at[t]
           /\ from # to => at'[from] = place
           /\ at'[to] \in {"returned", "code"}
<1> USE TaskAssumption DEF EventInv, EventTypeOK
<1>1. /\ running' = to /\ current' = to
      /\ at' = [at EXCEPT ![from] = place, ![to] = IF @ = "exec" THEN "returned" ELSE "code"]
    BY DEF Swap
<1>2. alloc' = alloc
  <2>1. from \in Tasks => ~isDone'[from]
      BY DEF PostedOnly
  <2> QED
      BY <2>1 DEF Swap
<1> QED
    BY <1>1, <1>2 DEF Places

LEMMA EventFinishStep ==
    ASSUME EventInv, NEW t \in Tasks, Free(t), Finish(t), UNCHANGED eventVars
    PROVE  EventInv'
<1> USE TaskAssumption, EventAssumption DEF EventInv, EventTypeOK
<1>1. /\ t \in alloc /\ running = t /\ at[t] = "code" /\ inWait[t] = Null
      /\ parent[t] = Main /\ isPost[t] /\ Main \in All /\ t # Main
    BY DEF Free, InCode, PostedOnly, All
<1>2. isDone' = [isDone EXCEPT ![t] = TRUE] /\ isDone'[t]
    BY DEF Finish
<1>3. /\ running' = Main /\ current' = Main /\ alloc' = alloc \ {t}
      /\ at' = [at EXCEPT ![t] = "done", ![Main] = IF @ = "exec" THEN "returned" ELSE "code"]
      /\ UNCHANGED <<parent, isPost, waiting, value, reserved, inWait, displaced, lapsed>>
    BY <1>1, <1>2 DEF Finish, Swap, eventVars
<1>4. /\ at' \in [All -> Places] /\ isDone' \in [Tasks -> BOOLEAN]
      /\ \A u \in alloc' : at'[u] = at[u] /\ isDone'[u] = isDone[u]
    BY <1>1, <1>2, <1>3 DEF Places, All
<1>5. EventTypeOK' /\ CurrentRuns'
    BY <1>1, <1>3, <1>4 DEF CurrentRuns
<1>6. PostedOnly' /\ FreedOutside'
    BY <1>1, <1>3, <1>4 DEF PostedOnly, FreedOutside
<1>7. SleeperReserved'
    BY <1>3, <1>4 DEF SleeperReserved, AsleepInWait
<1>8. NoMissedSignal'
    BY <1>3, <1>4 DEF NoMissedSignal, AsleepInWait
<1>9. SignalsFollowWaits'
    BY <1>1, <1>3, <1>4 DEF SignalsFollowWaits, AsleepInWait
<1> QED
    BY <1>5, <1>6, <1>7, <1>8, <1>9

LEMMA EventSleepStep ==
    ASSUME EventInv, NEW t \in Tasks, Operates(t), Sleep(t), UNCHANGED eventVars
    PROVE  EventInv'
<1> USE TaskAssumption, EventAssumption DEF EventInv, EventTypeOK
<1>1. /\ t \in alloc /\ current = t /\ inWait[t] = Null /\ t # Main
      /\ t \in All /\ Main \in All
    BY DEF Operates, Free, InCode, CurrentRuns, All
<1>2. /\ Swap(t, Main, "sleep") /\ UNCHANGED <<parent, isDone, isPost>>
      /\ UNCHANGED <<value, reserved, inWait, displaced, lapsed>> /\ "sleep" \in Places
      /\ waiting' = waiting \cup {t}
    BY <1>1 DEF Sleep, eventVars, Places
<1>3. /\ running' = Main /\ current' = Main /\ alloc' = alloc /\ at' \in [All -> Places]
      /\ \A u \in All : u # t /\ u # Main => at'[u] = at[u]
      /\ at'[t] = "sleep"
    BY <1>1, <1>2, EventSwap
<1>4. EventTypeOK' /\ CurrentRuns' /\ PostedOnly' /\ FreedOutside'
    BY <1>2, <1>3 DEF CurrentRuns, PostedOnly, FreedOutside, All
<1>5. SleeperReserved' /\ NoMissedSignal'
    BY <1>1, <1>2, <1>3 DEF SleeperReserved, NoMissedSignal, AsleepInWait, All
<1>6. SignalsFollowWaits'
    BY <1>1, <1>2, <1>3 DEF SignalsFollowWaits, AsleepInWait, All
<1> QED
    BY <1>4, <1>5, <1>6

LEMMA EventPostStep ==
    ASSUME EventInv, NEW t \in Tasks, Post(t), UNCHANGED eventVars
    PROVE  EventInv'
<1> USE TaskAssumption, EventAssumption DEF EventInv, EventTypeOK
<1>1. /\ current = Main /\ t \notin alloc /\ t # Main /\ t \in All /\ Main \in All
      /\ inWait[t] = Null
    BY DEF Post, Start, InCode, CurrentRuns, FreedOutside, All
<1>2. /\ alloc' = alloc \cup {t} /\ running' = t /\ current' = t
      /\ isDone' = [isDone EXCEPT ![t] = FALSE] /\ isPost' = [isPost EXCEPT ![t] = TRUE]
      /\ parent' = [parent EXCEPT ![t] = Main]
      /\ at' = [at EXCEPT ![Main] = "post", ![t] = "code"]
      /\ UNCHANGED <<waiting, value, reserved, inWait, displaced, lapsed>>
    BY <1>1 DEF Post, Start, eventVars
<1>3. EventTypeOK'
    BY <1>1, <1>2 DEF Places, All
<1>4. CurrentRuns' /\ PostedOnly' /\ FreedOutside'
    BY <1>1, <1>2 DEF CurrentRuns, PostedOnly, FreedOutside
<1>5. SleeperReserved' /\ NoMissedSignal'
    BY <1>1, <1>2 DEF SleeperReserved, NoMissedSignal, AsleepInWait, All
<1>6. SignalsFollowWaits'
    BY <1>1, <1>2 DEF SignalsFollowWaits, AsleepInWait, All
<1> QED
    BY <1>3, <1>4, <1>5, <1>6

LEMMA EventResumeStep ==
    ASSUME EventInv, NEW t \in Tasks, Resume(t)
    PROVE  EventInv'
<1> USE TaskAssumption, EventAssumption DEF EventInv, EventTypeOK
<1>1. current = Main /\ t # Main /\ t \in All /\ Main \in All /\ Main \notin Tasks
    BY DEF Resume, Wake, InCode, CurrentRuns, All
<1>2. /\ Swap(Main, t, "wakeup") /\ UNCHANGED <<parent, isDone, isPost>>
      /\ UNCHANGED <<value, reserved, inWait, displaced>> /\ "wakeup" \in Places
      /\ t \in waiting /\ waiting' = waiting \ {t}
      /\ lapsed' = (lapsed \/ inWait[t] # Null)
    BY <1>1 DEF Resume, Wake, Places
<1>3. /\ running' = t /\ current' = t /\ alloc' = alloc /\ at' \in [All -> Places]
      /\ \A u \in All : u # t /\ u # Main => at'[u] = at[u]
      /\ at'[t] \in {"returned", "code"}
    BY <1>1, <1>2, EventSwap
<1>4. EventTypeOK' /\ CurrentRuns' /\ PostedOnly' /\ FreedOutside'
    BY <1>1, <1>2, <1>3 DEF CurrentRuns, PostedOnly, FreedOutside, All
<1>5. SleeperReserved' /\ NoMissedSignal'
    BY <1>1, <1>2, <1>3 DEF SleeperReserved, NoMissedSignal, AsleepInWait, All
<1>6. SignalsFollowWaits'
    BY <1>1, <1>2, <1>3 DEF SignalsFollowWaits, AsleepInWait, All
<1> QED
    BY <1>4, <1>5, <1>6

LEMMA WaitReturnStep ==
    ASSUME EventInv, NEW t \in Tasks, WaitReturn(t)
    PROVE  EventInv'
<1> USE TaskAssumption, EventAssumption DEF EventInv, EventTypeOK
<1>1. /\ t \in alloc /\ running = t /\ t # Main /\ at[t] = "code"
      /\ current' = Null /\ inWait' = [inWait EXCEPT ![t] = Null]
      /\ waiting' = waiting \ {t} /\ displaced' = displaced \ {t}
      /\ UNCHANGED <<running, alloc, parent, isDone, isPost, at, value, reserved, lapsed>>
    BY DEF WaitReturn, InCode
<1>2. EventTypeOK' /\ CurrentRuns' /\ PostedOnly' /\ FreedOutside'
    BY <1>1 DEF CurrentRuns, PostedOnly, FreedOutside
<1>3. SleeperReserved' /\ NoMissedSignal'
    BY <1>1 DEF SleeperReserved, NoMissedSignal, AsleepInWait
<1>4. SignalsFollowWaits'
    BY <1>1 DEF SignalsFollowWaits, AsleepInWait
<1> QED
    BY <1>2, <1>3, <1>4

(* The signal resumes whoever is reserved: a sleeper of this event who is  *)
(* left asleep is displaced.                                               *)
LEMMA SignalStep ==
    ASSUME EventInv, NEW t \in Tasks, NEW e \in Events, Signal(t, e)
    PROVE  EventInv'
<1> USE TaskAssumption, EventAssumption DEF EventInv, EventTypeOK
<1>1. /\ t \in alloc /\ current = t /\ running = t /\ inWait[t] = Null /\ t # Main
      /\ at[t] = "code" /\ t \in All /\ value[e] < MaxValue
    BY DEF Signal, Operates, Free, InCode, CurrentRuns, All
<1>2. /\ value' = [value EXCEPT ![e] = @ + 1] /\ reserved' = [reserved EXCEPT ![e] = Null]
      /\ UNCHANGED <<parent, isDone, isPost, waiting, inWait, displaced, lapsed>>
      /\ value' \in [Events -> 0..MaxValue]
    BY <1>1 DEF Signal, histories
<1>3. CASE reserved[e] = Null
  <2>1. UNCHANGED <<current, running, alloc, at>>
      BY <1>3 DEF Signal
  <2>2. \A u \in alloc : AsleepInWait(u) => inWait[u] # e \/ u \in displaced
      BY <1>3 DEF SleeperReserved, AsleepInWait
  <2>3. EventTypeOK' /\ CurrentRuns' /\ PostedOnly' /\ FreedOutside'
      BY <1>2, <2>1 DEF CurrentRuns, PostedOnly, FreedOutside
  <2>4. SleeperReserved' /\ NoMissedSignal'
      BY <1>2, <2>1, <2>2 DEF SleeperReserved, NoMissedSignal, AsleepInWait
  <2>5. SignalsFollowWaits'
      BY <1>2, <2>1 DEF SignalsFollowWaits, AsleepInWait
  <2> QED
      BY <2>3, <2>4, <2>5
<1>4. CASE reserved[e] # Null
  <2> DEFINE to == reserved[e]
  <2>1. to \in Tasks /\ to \in All /\ to # Main /\ "wakeup" \in Places
      BY <1>4 DEF All, Places
  <2>2. Swap(t, to, "wakeup")
      BY <1>1, <1>4 DEF Signal
  <2> HIDE DEF to
  <2>3. /\ running' = to /\ current' = to /\ alloc' = alloc /\ at' \in [All -> Places]
        /\ \A u \in All : u # t /\ u # to => at'[u] = at[u]
        /\ t # to => at'[t] = "wakeup"
        /\ at'[to] \in {"returned", "code"}
      BY <1>1, <1>2, <2>1, <2>2, EventSwap
  <2>4. \A u \in alloc : AsleepInWait(u)' =>
            AsleepInWait(u) /\ u # to /\ (inWait[u] # e \/ u \in displaced)
    <3> SUFFICES ASSUME NEW u \in alloc, inWait[u] # Null, at'[u] = "sleep"
                 PROVE  /\ inWait[u] # Null /\ at[u] = "sleep" /\ u # to
                        /\ inWait[u] # e \/ u \in displaced
        BY <1>2 DEF AsleepInWait
    <3>1. u # t /\ u # to /\ at[u] = "sleep"
        BY <1>1, <2>1, <2>3 DEF All
    <3> QED
        BY <3>1 DEF SleeperReserved, AsleepInWait, to
  <2>5. EventTypeOK' /\ CurrentRuns' /\ PostedOnly' /\ FreedOutside'
      BY <1>2, <2>1, <2>3 DEF CurrentRuns, PostedOnly, FreedOutside
  <2>6. SleeperReserved' /\ NoMissedSignal'
      BY <1>2, <2>3, <2>4 DEF SleeperReserved, NoMissedSignal
  <2>7. SignalsFollowWaits'
    <3> SUFFICES ASSUME ~lapsed PROVE SignalsFollowWaits'
        BY <1>2 DEF SignalsFollowWaits
    <3>1. to \in alloc /\ inWait[to] = e
        BY <1>4 DEF SignalsFollowWaits, to
    <3>2. \A u \in waiting : u \in alloc /\ (at'[u] = "sleep" \/ inWait[u] # Null)
        BY <1>1, <1>2, <2>1, <2>3, <3>1 DEF SignalsFollowWaits, All
    <3>3. \A f \in Events : reserved'[f] # Null =>
              /\ f # e /\ reserved'[f] = reserved[f] /\ reserved[f] \in alloc
              /\ AsleepInWait(reserved[f]) /\ inWait[reserved[f]] = f
        BY <1>2 DEF SignalsFollowWaits
    <3>4. \A f \in Events : reserved'[f] # Null =>
              reserved[f] # t /\ reserved[f] # to /\ at'[reserved[f]] = "sleep"
        BY <1>1, <2>1, <2>3, <3>1, <3>3 DEF AsleepInWait, All
    <3> QED
        BY <1>2, <2>3, <3>1, <3>2, <3>3, <3>4 DEF SignalsFollowWaits, AsleepInWait
  <2> QED
      BY <2>5, <2>6, <2>7
<1> QED
    BY <1>3, <1>4

(* A wait takes the reservation, and remembers whose it was.               *)
LEMMA WaitEventStep ==
    ASSUME EventInv, NEW t \in Tasks, NEW e \in Events, NEW timeout \in BOOLEAN,
           WaitEvent(t, e, timeout)
    PROVE  EventInv'
<1> USE TaskAssumption, EventAssumption DEF EventInv, EventTypeOK
<1>1. /\ t \in alloc /\ current = t /\ running = t /\ inWait[t] = Null /\ t # Main
      /\ at[t] = "code" /\ t \in All /\ Main \in All /\ value[e] = 0
    BY DEF WaitEvent, Operates, Free, InCode, CurrentRuns, All
<1>2. /\ reserved' = [reserved EXCEPT ![e] = t] /\ inWait' = [inWait EXCEPT ![t] = e]
      /\ displaced' = displaced \cup {u \in {reserved[e]} \cap Tasks : inWait[u] = e}
      /\ waiting' \subseteq waiting \cup {t} /\ lapsed' = lapsed
      /\ Swap(t, Main, "sleep") /\ UNCHANGED <<parent, isDone, isPost, value>>
      /\ "sleep" \in Places
    BY <1>1 DEF WaitEvent, Places
<1>3. /\ running' = Main /\ current' = Main /\ alloc' = alloc /\ at' \in [All -> Places]
      /\ \A u \in All : u # t /\ u # Main => at'[u] = at[u]
      /\ at'[t] = "sleep"
    BY <1>1, <1>2, EventSwap
<1>4. EventTypeOK' /\ CurrentRuns' /\ PostedOnly'
    BY <1>1, <1>2, <1>3 DEF CurrentRuns, PostedOnly, All
<1>5. FreedOutside'
    BY <1>1, <1>2, <1>3 DEF FreedOutside
<1>6. t \notin displaced
    BY <1>1 DEF FreedOutside
<1>7. SleeperReserved' /\ NoMissedSignal'
  <2> SUFFICES ASSUME NEW u \in alloc, inWait'[u] # Null, at'[u] = "sleep"
               PROVE  /\ reserved'[inWait'[u]] = u <=> u \notin displaced'
                      /\ value[inWait'[u]] = 0 \/ u \in displaced'
      BY <1>2, <1>3 DEF SleeperReserved, NoMissedSignal, AsleepInWait
  <2>2. CASE u = t
      BY <1>1, <1>2, <1>6, <2>2
  <2>3. CASE u # t
    <3>1. inWait'[u] = inWait[u] /\ at[u] = "sleep"
        BY <1>1, <1>2, <1>3, <2>3 DEF All
    <3>2. /\ reserved[inWait[u]] = u <=> u \notin displaced
          /\ value[inWait[u]] = 0 \/ u \in displaced
        BY <3>1 DEF SleeperReserved, NoMissedSignal, AsleepInWait
    <3>3. CASE inWait[u] = e
        BY <1>1, <1>2, <2>3, <3>1, <3>2, <3>3
    <3>4. CASE inWait[u] # e
        BY <1>1, <1>2, <2>3, <3>1, <3>2, <3>4
    <3> QED
        BY <3>3, <3>4
  <2> QED
      BY <2>2, <2>3
<1>8. SignalsFollowWaits'
    BY <1>1, <1>2, <1>3 DEF SignalsFollowWaits, AsleepInWait, All
<1> QED
    BY <1>4, <1>5, <1>7, <1>8

LEMMA StepEventInv == EventInv /\ [EventNext]_allVars => EventInv'
<1> SUFFICES ASSUME EventInv, [EventNext]_allVars PROVE EventInv'
    OBVIOUS
<1>1. CASE UNCHANGED allVars
    BY <1>1 DEF allVars, vars, eventVars, EventInv, EventTypeOK, CurrentRuns, PostedOnly,
           FreedOutside, SleeperReserved, NoMissedSignal, SignalsFollowWaits, AsleepInWait
<1>2. CASE EventNext
    BY <1>2, EventFinishStep, EventSleepStep, EventPostStep, EventResumeStep, WaitReturnStep,
       SignalStep, WaitEventStep DEF EventNext
<1> QED
    BY <1>1, <1>2

(* For any number of tasks and events: a signal finds the task that waits  *)
(* for it, and no task sleeps in a wait for an event that has signals,     *)
(* unless another task's wait took its place.                              *)
THEOREM EventInvariance == EventSpec => []EventInv
<1> QED
    BY EventInitInv, StepEventInv, PTL DEF EventSpec
=============================================================================
