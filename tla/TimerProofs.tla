------------------------------ MODULE TimerProofs ------------------------------
(***************************************************************************)
(* Proofs about Timer: the timers of a loop stay registered while passes   *)
(* wake tasks and tasks set timers, for any number of tasks and periods    *)
(* and any tree that keeps the promises of OrderedTree.                    *)
(***************************************************************************)
EXTENDS Timer, TLAPS

-----------------------------------------------------------------------------
(* Facts about the data *)

LEMMA KindOfFacts ==
    /\ DOMAIN KindOf = {"sleep", "idle", "timeout", "endIdle", "endSleep", "endTimeout"}
    /\ \A f \in DOMAIN KindOf : KindOf[f] \in Kinds
    /\ KindOf["sleep"] = "sleep" /\ KindOf["endSleep"] = "sleep"
    /\ KindOf["idle"] = "idle" /\ KindOf["endIdle"] = "idle"
    /\ KindOf["timeout"] = "timeout" /\ KindOf["endTimeout"] = "timeout"
BY DEF KindOf, Kinds

NoRepeats(s) == \A i, j \in DOMAIN s : s[i] = s[j] => i = j
Within(s, t) == \E i \in DOMAIN s : s[i] = t

(* Later(s, w): what is in w is in s, in the same order.                   *)
Later(s, w) ==
    \A i, j \in DOMAIN w : i < j =>
        \E x, y \in DOMAIN s : x < y /\ s[x] = w[i] /\ s[y] = w[j]

(* Taking a timer out of its list. *)
LEMMA WithoutFacts ==
    ASSUME NEW s \in Seq(Tasks), NoRepeats(s), NEW t, Within(s, t)
    PROVE  /\ Without(s, t) \in Seq(Tasks)
           /\ NoRepeats(Without(s, t))
           /\ \A u : Within(Without(s, t), u) <=> u # t /\ Within(s, u)
           /\ Later(s, Without(s, t))
           /\ Position(s, t) \in 1..Len(s) /\ s[Position(s, t)] = t
<1> DEFINE w == Without(s, t)
<1> DEFINE n == Position(s, t)
<1>1. n \in 1..Len(s) /\ s[n] = t
  BY DEF Within, Position
<1>2. /\ Len(s) - 1 \in Nat
      /\ \A i \in 1..(Len(s) - 1) : (IF i < n THEN i ELSE i + 1) \in 1..Len(s)
      /\ \A i \in 1..Len(s) : s[i] \in Tasks
  BY <1>1
<1>3. w = [i \in 1..(Len(s) - 1) |-> s[IF i < n THEN i ELSE i + 1]]
  BY DEF Without
<1> HIDE DEF n, w
<1>4. w \in Seq(Tasks) /\ Len(w) = Len(s) - 1
  <2>1. w \in [1..(Len(s) - 1) -> Tasks]
    BY <1>2, <1>3
  <2> QED
    BY <1>2, <2>1
<1>5. DOMAIN w = 1..(Len(s) - 1) /\ DOMAIN s = 1..Len(s)
  BY <1>4
<1>6. \A i \in DOMAIN w : w[i] = s[IF i < n THEN i ELSE i + 1]
  BY <1>3, <1>5
<1>7. NoRepeats(w)
  BY <1>1, <1>2, <1>5, <1>6 DEF NoRepeats
<1>8. ASSUME NEW u, Within(w, u) PROVE u # t /\ Within(s, u)
  <2>1. PICK i \in DOMAIN w : w[i] = u
    BY <1>8 DEF Within
  <2>2. s[IF i < n THEN i ELSE i + 1] = u /\ (IF i < n THEN i ELSE i + 1) # n
    BY <1>1, <1>5, <1>6, <2>1
  <2> QED
    BY <1>1, <1>2, <1>5, <2>2 DEF NoRepeats, Within
<1>9. ASSUME NEW u, u # t, Within(s, u) PROVE Within(w, u)
  <2>1. PICK i \in DOMAIN s : s[i] = u
    BY <1>9 DEF Within
  <2>2. i # n /\ i \in 1..Len(s)
    BY <1>1, <1>5, <1>9, <2>1
  <2>3. CASE i < n
    <3>1. i \in DOMAIN w /\ w[i] = u
      BY <1>1, <1>5, <1>6, <2>1, <2>2, <2>3
    <3> QED
      BY <3>1 DEF Within
  <2>4. CASE i > n
    <3>1. i - 1 \in DOMAIN w /\ ~(i - 1 < n) /\ (i - 1) + 1 = i
      BY <1>1, <1>5, <2>2, <2>4
    <3>2. w[i - 1] = u
      BY <1>6, <2>1, <3>1
    <3> QED
      BY <3>1, <3>2 DEF Within
  <2> QED
    BY <1>1, <2>2, <2>3, <2>4
<1>10. Later(s, w)
  <2> SUFFICES ASSUME NEW i \in DOMAIN w, NEW j \in DOMAIN w, i < j
               PROVE  \E x, y \in DOMAIN s : x < y /\ s[x] = w[i] /\ s[y] = w[j]
    BY DEF Later
  <2>1. (IF i < n THEN i ELSE i + 1) < (IF j < n THEN j ELSE j + 1)
    BY <1>1, <1>5
  <2> QED
    BY <1>2, <1>5, <1>6, <2>1
<1> QED
  BY <1>1, <1>4, <1>7, <1>8, <1>9, <1>10 DEF n, w

(* Adding a timer at the end of a list. *)
LEMMA AppendFacts ==
    ASSUME NEW s \in Seq(Tasks), NoRepeats(s), NEW t \in Tasks, ~Within(s, t)
    PROVE  /\ Append(s, t) \in Seq(Tasks)
           /\ NoRepeats(Append(s, t))
           /\ \A u : Within(Append(s, t), u) <=> u = t \/ Within(s, u)
           /\ DOMAIN Append(s, t) = 1..(Len(s) + 1)
           /\ Append(s, t)[Len(s) + 1] = t
           /\ \A i \in 1..Len(s) : Append(s, t)[i] = s[i]
<1>1. /\ Append(s, t) \in Seq(Tasks)
      /\ DOMAIN s = 1..Len(s) /\ Len(s) \in Nat
      /\ DOMAIN Append(s, t) = 1..(Len(s) + 1)
      /\ Append(s, t)[Len(s) + 1] = t
      /\ \A i \in 1..Len(s) : Append(s, t)[i] = s[i]
  OBVIOUS
<1>2. NoRepeats(Append(s, t))
  BY <1>1 DEF NoRepeats, Within
<1>3. \A u : Within(Append(s, t), u) <=> u = t \/ Within(s, u)
  <2> TAKE u
  <2>1. CASE u = t
    BY <1>1, <2>1 DEF Within
  <2>2. CASE u # t
    BY <1>1, <2>2 DEF Within
  <2> QED
    BY <2>1, <2>2
<1> QED
  BY <1>1, <1>2, <1>3

(* The locals of a pass when it comes to a list of the tree. *)
VisitOf(v, k, p, tr, fresh, count) ==
    /\ v \in Walks
    /\ v.list = p /\ v.fresh = fresh /\ v.count = count
    /\ p = Null => v.timer = Nobody /\ v.next = Null
    /\ p # Null => v.timer = Front(list[k][p])
    /\ v.next # Null => p # Null /\ v.next \in Held(tr) /\ p < v.next

LEMMA VisitFacts ==
    ASSUME TypeOK, NEW k \in Kinds, NEW tr \in Trees, NEW p, p = Null \/ p \in Held(tr),
           NEW fresh, fresh \subseteq Tasks, NEW count \in {0, 1}
    PROVE  VisitOf(Visit(k, p, tr, fresh, count), k, p, tr, fresh, count)
<1> USE DEF VisitOf
<1>1. CASE p = Null
  BY <1>1 DEF Visit, Walks
<1>2. CASE p # Null
  <2>1. p \in Held(tr) /\ p \in Keys /\ list[k][p] \in Seq(Tasks)
    BY <1>2 DEF Held, TypeOK
  <2>2. Front(list[k][p]) \in Tasks \cup {Nobody}
    BY <2>1 DEF Front
  <2>3. TreeNext(tr, p) # Null => TreeNext(tr, p) \in Held(tr) /\ p < TreeNext(tr, p)
    BY <2>1, NextAssumption, KeysAssumption DEF Held
  <2>4. TreeNext(tr, p) \in Keys \cup {Null}
    BY <2>3 DEF Held
  <2> QED
    BY <1>2, <2>1, <2>2, <2>3, <2>4 DEF Visit, Walks
<1> QED
  BY <1>1, <1>2

LEMMA FirstHeld ==
    ASSUME NEW tr \in Trees
    PROVE  /\ TreeFirst(tr) \in Held(tr) \cup {Null}
           /\ TreeFirst(tr) = Null => Held(tr) = {}
           /\ TreeFirst(tr) # Null => TreeFirst(tr) \in Held(tr) /\ TreeFirst(tr) \in Keys
BY FirstAssumption, KeysAssumption DEF Held, Null

LEMMA HeldIsSearch ==
    ASSUME NEW tr \in Trees, NEW p \in Keys
    PROVE  /\ p \in Held(tr) <=> TreeSearch(tr, p) = p
           /\ p \in Held(tr) <=> TreeSearch(tr, p) # Null
BY SearchAssumption, KeysAssumption DEF Held, Null

(* Freeing an empty list. *)
LEMMA PruneFacts ==
    ASSUME NEW tr \in Trees, NEW s, NEW p \in Held(tr)
    PROVE  /\ Prune(tr, s, p) \in Trees
           /\ Held(Prune(tr, s, p)) = IF s = <<>> THEN Held(tr) \ {p} ELSE Held(tr)
BY RemoveAssumption DEF Prune

-----------------------------------------------------------------------------
(* What the steps do to the lists *)

LEMMA InTreeHeld ==
    ASSUME TypeOK, NEW k \in Kinds, NEW p \in Keys
    PROVE  InTree(k, p) <=> p \in Held(tree[k])
BY HeldIsSearch, tree[k] \in Trees DEF InTree, TypeOK

LEMMA Registered ==
    ASSUME TypeOK, TimersRegistered, NEW k \in Kinds, NEW p \in Keys
    PROVE  /\ list[k] \in [Keys -> Seq(Tasks)] /\ list[k][p] \in Seq(Tasks)
           /\ NoRepeats(list[k][p])
           /\ \A t \in Tasks : Within(list[k][p], t) <=> place[t] = k /\ period[t] = p
           /\ list[k][p] # <<>> => p \in Held(tree[k])
BY InTreeHeld DEF TypeOK, TimersRegistered, NoRepeats, Within

LEMMA TimerPlaced ==
    ASSUME TypeOK, TimersRegistered, NEW t \in Tasks, place[t] \in Kinds
    PROVE  /\ period[t] \in Keys
           /\ Within(list[place[t]][period[t]], t)
           /\ period[t] \in Held(tree[place[t]])
<1>1. period[t] \in Keys
  BY DEF TimersRegistered
<1>2. Within(list[place[t]][period[t]], t)
  BY <1>1, Registered
<1>3. list[place[t]][period[t]] # <<>>
  BY <1>2 DEF Within
<1> QED
  BY <1>1, <1>2, <1>3, Registered

(* What setting a timer changes, and what it leaves alone. *)
TimerSet(t, k, p) ==
    /\ tree' \in [Kinds -> Trees]
    /\ Held(tree'[k]) = Held(tree[k]) \cup {p}
    /\ \A j \in Kinds \ {k} : tree'[j] = tree[j]
    /\ list' \in [Kinds -> [Keys -> Seq(Tasks)]]
    /\ list'[k][p] = Append(list[k][p], t)
    /\ \A j \in Kinds, q \in Keys : j # k \/ q # p => list'[j][q] = list[j][q]
    /\ issued'[t] = (IF k = "idle" THEN 0 ELSE clock) /\ period'[t] = p
    /\ \A u \in Tasks \ {t} : issued'[u] = issued[u] /\ period'[u] = period[u]
    /\ issued' \in [Tasks -> {0} \cup Epoch..clock]
    /\ period' \in [Tasks -> Keys \cup {Null}]
    /\ walk' \in Walks
    /\ walk'.list = walk.list /\ walk'.next = walk.next
    /\ walk'.timer = walk.timer /\ walk'.count = walk.count
    /\ walk'.fresh = IF Passing /\ KindOf[phase] = k THEN walk.fresh \cup {t}
                     ELSE walk.fresh

LEMMA SetTimerEffect ==
    ASSUME TypeOK, NEW t \in Tasks, NEW k \in Kinds, NEW p \in Keys, SetTimer(t, k, p)
    PROVE  TimerSet(t, k, p)
<1> USE DEF TimerSet
<1>1. /\ tree \in [Kinds -> Trees] /\ list \in [Kinds -> [Keys -> Seq(Tasks)]]
      /\ tree[k] \in Trees /\ list[k][p] \in Seq(Tasks)
  BY DEF TypeOK
<1> DEFINE tr == IF TreeSearch(tree[k], p) = Null THEN TreeInsert(tree[k], p) ELSE tree[k]
<1>2. tr \in Trees /\ Held(tr) = Held(tree[k]) \cup {p}
  <2>1. CASE p \in Held(tree[k])
    BY <1>1, <2>1, HeldIsSearch
  <2>2. CASE p \notin Held(tree[k])
    BY <1>1, <2>2, HeldIsSearch, InsertAssumption
  <2> QED
    BY <2>1, <2>2
<1>3. tree' = [tree EXCEPT ![k] = tr]
  BY DEF SetTimer
<1> HIDE DEF tr
<1>4. /\ tree' \in [Kinds -> Trees]
      /\ Held(tree'[k]) = Held(tree[k]) \cup {p}
      /\ \A j \in Kinds \ {k} : tree'[j] = tree[j]
  BY <1>1, <1>2, <1>3
<1>5. /\ list' \in [Kinds -> [Keys -> Seq(Tasks)]]
      /\ list'[k][p] = Append(list[k][p], t)
      /\ \A j \in Kinds, q \in Keys : j # k \/ q # p => list'[j][q] = list[j][q]
  BY <1>1 DEF SetTimer
<1>6. /\ issued'[t] = (IF k = "idle" THEN 0 ELSE clock) /\ period'[t] = p
      /\ \A u \in Tasks \ {t} : issued'[u] = issued[u] /\ period'[u] = period[u]
      /\ issued' \in [Tasks -> {0} \cup Epoch..clock]
      /\ period' \in [Tasks -> Keys \cup {Null}]
  BY TimerAssumption DEF SetTimer, TypeOK
<1>7. /\ walk' \in Walks
      /\ walk'.list = walk.list /\ walk'.next = walk.next
      /\ walk'.timer = walk.timer /\ walk'.count = walk.count
      /\ walk'.fresh = IF Passing /\ KindOf[phase] = k THEN walk.fresh \cup {t}
                       ELSE walk.fresh
  BY DEF SetTimer, TypeOK, Walks
<1> QED
  BY <1>4, <1>5, <1>6, <1>7

TakenOut(t, k, p) ==
    /\ list' \in [Kinds -> [Keys -> Seq(Tasks)]]
    /\ list'[k][p] = Without(list[k][p], t)
    /\ \A j \in Kinds, q \in Keys : j # k \/ q # p => list'[j][q] = list[j][q]
    /\ \A j \in Kinds, q \in Keys :
          /\ NoRepeats(list'[j][q])
          /\ \A u \in Tasks : Within(list'[j][q], u) <=> u # t /\ Within(list[j][q], u)
          /\ Later(list[j][q], list'[j][q])

(* Taking timer t out of its list; the rest keeps its order. *)
LEMMA TakeOut ==
    ASSUME TypeOK, TimersRegistered, NEW t \in Tasks, NEW k \in Kinds, NEW p \in Keys,
           place[t] = k, period[t] = p,
           list' = [list EXCEPT ![k][p] = Without(@, t)]
    PROVE  TakenOut(t, k, p)
<1> USE DEF TakenOut
<1>1. Without(list[k][p], t) \in Seq(Tasks)
  BY Registered, WithoutFacts
<1>2. /\ list' \in [Kinds -> [Keys -> Seq(Tasks)]]
      /\ list'[k][p] = Without(list[k][p], t)
      /\ \A j \in Kinds, q \in Keys : j # k \/ q # p => list'[j][q] = list[j][q]
  BY <1>1 DEF TypeOK
<1>3. ASSUME NEW j \in Kinds, NEW q \in Keys
      PROVE  /\ NoRepeats(list'[j][q])
             /\ \A u \in Tasks : Within(list'[j][q], u) <=> u # t /\ Within(list[j][q], u)
             /\ Later(list[j][q], list'[j][q])
  <2>1. CASE j = k /\ q = p
    BY <1>2, <2>1, Registered, WithoutFacts
  <2>2. CASE j # k \/ q # p
    <3>1. NoRepeats(list[j][q]) /\ ~Within(list[j][q], t)
      BY <2>2, Registered
    <3>2. Later(list[j][q], list[j][q])
      BY DEF Later
    <3> QED
      BY <1>2, <2>2, <3>1, <3>2
  <2> QED
    BY <2>1, <2>2
<1> QED
  BY <1>2, <1>3

(* What the arrival of an event changes. *)
Arrived(t) ==
    /\ place[t] \in {"wait", "timeout"}
    /\ tree' \in [Kinds -> Trees]
    /\ \A k \in Kinds \ {"timeout"} : tree'[k] = tree[k] /\ list'[k] = list[k]
    /\ Passing => tree'[KindOf[phase]] = tree[KindOf[phase]]
    /\ list' \in [Kinds -> [Keys -> Seq(Tasks)]]
    /\ \A k \in Kinds, p \in Keys :
          /\ NoRepeats(list'[k][p])
          /\ \A u \in Tasks : Within(list'[k][p], u) <=> u # t /\ Within(list[k][p], u)
          /\ Later(list[k][p], list'[k][p])
          /\ list'[k][p] # <<>> => p \in Held(tree'[k])
    /\ issued'[t] = 0 /\ period'[t] = Null
    /\ \A u \in Tasks \ {t} : issued'[u] = issued[u] /\ period'[u] = period[u]
    /\ issued' \in [Tasks -> {0} \cup Epoch..clock]
    /\ period' \in [Tasks -> Keys \cup {Null}]

LEMMA ArriveEffect ==
    ASSUME TypeOK, TimersRegistered, NEW t \in Tasks, Arrive(t)
    PROVE  Arrived(t)
<1> USE DEF Arrived
<1>1. /\ place[t] \in {"wait", "timeout"}
      /\ issued'[t] = 0 /\ period'[t] = Null
      /\ \A u \in Tasks \ {t} : issued'[u] = issued[u] /\ period'[u] = period[u]
      /\ issued' \in [Tasks -> {0} \cup Epoch..clock]
      /\ period' \in [Tasks -> Keys \cup {Null}]
  BY DEF Arrive, DropTimer, TypeOK
<1>2. /\ tree' \in [Kinds -> Trees]
      /\ \A k \in Kinds \ {"timeout"} : tree'[k] = tree[k] /\ list'[k] = list[k]
      /\ Passing => tree'[KindOf[phase]] = tree[KindOf[phase]]
      /\ list' \in [Kinds -> [Keys -> Seq(Tasks)]]
      /\ \A k \in Kinds, p \in Keys :
            /\ NoRepeats(list'[k][p])
            /\ \A u \in Tasks : Within(list'[k][p], u) <=> u # t /\ Within(list[k][p], u)
            /\ Later(list[k][p], list'[k][p])
            /\ list'[k][p] # <<>> => p \in Held(tree'[k])
  <2>1. CASE place[t] = "wait"
    <3>1. tree' = tree /\ list' = list
      BY <2>1 DEF Arrive
    <3>2. \A k \in Kinds, p \in Keys : ~Within(list[k][p], t)
      BY <2>1, Registered DEF Kinds
    <3>3. \A k \in Kinds, p \in Keys : Later(list[k][p], list[k][p])
      BY DEF Later
    <3>4. tree \in [Kinds -> Trees] /\ list \in [Kinds -> [Keys -> Seq(Tasks)]]
      BY DEF TypeOK
    <3> QED
      BY <3>1, <3>2, <3>3, <3>4, Registered
  <2>2. CASE place[t] = "timeout"
    <3> DEFINE p == period[t]
    <3> DEFINE s == Without(list["timeout"][p], t)
    <3> DEFINE processing == Passing /\ KindOf[phase] = "timeout"
    <3>1. /\ list' = [list EXCEPT !["timeout"][p] = Without(@, t)]
          /\ tree' = IF processing THEN tree
                     ELSE [tree EXCEPT !["timeout"] = Prune(@, s, p)]
      BY <2>2 DEF Arrive
    <3>2. "timeout" \in Kinds /\ p \in Keys /\ p \in Held(tree["timeout"])
      BY <2>2, TimerPlaced DEF Kinds
    <3> HIDE DEF p, s, processing
    <3>3. /\ list' \in [Kinds -> [Keys -> Seq(Tasks)]]
          /\ list'["timeout"][p] = s
          /\ \A k \in Kinds, q \in Keys : k # "timeout" \/ q # p => list'[k][q] = list[k][q]
          /\ \A k \in Kinds, q \in Keys :
                /\ NoRepeats(list'[k][q])
                /\ \A u \in Tasks : Within(list'[k][q], u) <=> u # t /\ Within(list[k][q], u)
                /\ Later(list[k][q], list'[k][q])
      <4>1. TakenOut(t, "timeout", p)
        BY <2>2, <3>1, <3>2, TakeOut DEF p
      <4> QED
        BY <4>1 DEF TakenOut, s
    <3>4. Prune(tree["timeout"], s, p) \in Trees
          /\ Held(Prune(tree["timeout"], s, p))
                = (IF s = <<>> THEN Held(tree["timeout"]) \ {p} ELSE Held(tree["timeout"]))
      BY <3>2, PruneFacts DEF TypeOK
    <3>5. /\ tree' \in [Kinds -> Trees]
          /\ \A k \in Kinds \ {"timeout"} : tree'[k] = tree[k]
          /\ tree'["timeout"] = tree["timeout"]
                \/ tree'["timeout"] = Prune(tree["timeout"], s, p)
      BY <3>1, <3>2, <3>4 DEF TypeOK
    <3>6. \A k \in Kinds \ {"timeout"} : list'[k] = list[k]
      BY <3>1 DEF TypeOK
    <3>7. ASSUME Passing PROVE tree'[KindOf[phase]] = tree[KindOf[phase]]
      <4>1. KindOf[phase] \in Kinds
        BY <3>7, KindOfFacts DEF Passing
      <4>2. CASE KindOf[phase] = "timeout"
        BY <3>1, <3>7, <4>2 DEF processing
      <4> QED
        BY <3>5, <4>1, <4>2
    <3>8. ASSUME NEW k \in Kinds, NEW q \in Keys, list'[k][q] # <<>>
          PROVE  q \in Held(tree'[k])
      <4>1. CASE k # "timeout"
        BY <3>5, <3>6, <3>8, <4>1, Registered
      <4>2. CASE k = "timeout" /\ q = p
        BY <3>2, <3>3, <3>4, <3>5, <3>8, <4>2
      <4>3. CASE k = "timeout" /\ q # p
        <5>1. q \in Held(tree["timeout"])
          BY <3>3, <3>8, <4>3, Registered
        <5> QED
          BY <3>4, <3>5, <4>3, <5>1
      <4> QED
        BY <4>1, <4>2, <4>3
    <3> QED
      BY <3>3, <3>5, <3>6, <3>7, <3>8
  <2> QED
    BY <1>1, <2>1, <2>2
<1> QED
  BY <1>1, <1>2

(* What PassWake does: the pass's timer is in the current list. *)
LEMMA WakeEffect ==
    ASSUME TypeOK, TimersRegistered, WalkValid, PassWake
    PROVE  LET t == walk.timer
               k == KindOf[phase]
               p == walk.list
           IN  /\ t \in Tasks /\ k \in Kinds /\ p \in Keys
               /\ place[t] = k /\ period[t] = p
               /\ running = Nobody /\ running' = t
               /\ place' \in [Tasks -> Places] /\ place'[t] = "run"
               /\ \A u \in Tasks \ {t} : place'[u] = place[u]
               /\ issued'[t] = 0 /\ period'[t] = Null
               /\ \A u \in Tasks \ {t} : issued'[u] = issued[u] /\ period'[u] = period[u]
               /\ issued' \in [Tasks -> {0} \cup Epoch..clock]
               /\ period' \in [Tasks -> Keys \cup {Null}]
               /\ list' = [list EXCEPT ![k][p] = Without(@, t)]
               /\ walk' \in Walks
               /\ walk'.list = p /\ walk'.next = walk.next /\ walk'.fresh = walk.fresh
               /\ walk'.count = 1
               /\ tree' = tree /\ phase' = phase /\ Passing
<1> DEFINE t == walk.timer
<1> DEFINE k == KindOf[phase]
<1> DEFINE p == walk.list
<1>1. /\ t \in Tasks /\ k \in Kinds /\ p \in Keys /\ Within(list[k][p], t) /\ Passing
      /\ running = Nobody
  <2>1. Passing /\ t # Nobody /\ running = Nobody /\ Within(CurrentList, t)
    BY DEF PassWake, InPass, Stale, LoopRuns, Within
  <2>2. p # Null
    BY <2>1 DEF WalkValid
  <2> QED
    BY <2>1, <2>2, KindOfFacts DEF TypeOK, Walks, CurrentList, Passing
<1>2. place[t] = k /\ period[t] = p
  BY <1>1, Registered
<1>3. Behind(list[k][p], t) \in Tasks \cup {Nobody}
  <2>1. list[k][p] \in Seq(Tasks) /\ Position(list[k][p], t) \in 1..Len(list[k][p])
    BY <1>1, Registered, WithoutFacts
  <2> QED
    BY <2>1 DEF Behind
<1>4. /\ walk' \in Walks
      /\ walk'.list = p /\ walk'.next = walk.next /\ walk'.fresh = walk.fresh
      /\ walk'.count = 1
  <2>1. walk' = [walk EXCEPT !.timer = Behind(list[k][p], t), !.count = 1]
    BY DEF PassWake, CurrentList
  <2> QED
    BY <1>3, <2>1 DEF TypeOK, Walks
<1>5. /\ issued'[t] = 0 /\ period'[t] = Null
      /\ \A u \in Tasks \ {t} : issued'[u] = issued[u] /\ period'[u] = period[u]
      /\ issued' \in [Tasks -> {0} \cup Epoch..clock]
      /\ period' \in [Tasks -> Keys \cup {Null}]
  BY <1>1 DEF PassWake, DropTimer, TypeOK
<1>6. /\ place' \in [Tasks -> Places] /\ place'[t] = "run"
      /\ \A u \in Tasks \ {t} : place'[u] = place[u]
  BY <1>1 DEF PassWake, TypeOK, Places
<1>7. /\ running' = t
      /\ list' = [list EXCEPT ![k][p] = Without(@, t)]
      /\ tree' = tree /\ phase' = phase
  BY DEF PassWake
<1> QED
  BY <1>1, <1>2, <1>4, <1>5, <1>6, <1>7

(* What PassList does: an empty list goes, and the pass goes on. *)
LEMMA ListEffect ==
    ASSUME TypeOK, WalkValid, PassList
    PROVE  LET k == KindOf[phase]
               p == walk.list
           IN  /\ k \in Kinds /\ p \in Keys /\ p \in Held(tree[k])
               /\ running = Nobody /\ Passing /\ phase' = phase
               /\ tree' \in [Kinds -> Trees]
               /\ Held(tree'[k]) = (IF list[k][p] = <<>> THEN Held(tree[k]) \ {p}
                                    ELSE Held(tree[k]))
               /\ list[k][p] # <<>> => tree' = tree
               /\ \A j \in Kinds \ {k} : tree'[j] = tree[j]
               /\ walk' \in Walks
               /\ walk'.list = walk.next /\ walk'.fresh = walk.fresh
               /\ walk'.count = walk.count
               /\ walk'.list = Null => walk'.timer = Nobody
               /\ walk'.list # Null => walk'.list \in Held(tree'[k])
               /\ walk'.next # Null =>
                     walk'.list # Null /\ walk'.list < walk'.next
                         /\ walk'.next \in Held(tree'[k])
<1> DEFINE k == KindOf[phase]
<1> DEFINE p == walk.list
<1> DEFINE tr == Prune(tree[k], CurrentList, p)
<1>1. Passing /\ running = Nobody /\ p # Null /\ phase' = phase
  BY DEF PassList, InPass, LoopRuns
<1>2. k \in Kinds /\ p \in Keys /\ p \in Held(tree[k]) /\ tree[k] \in Trees
  <2>1. k \in Kinds /\ p \in Keys
    BY <1>1, KindOfFacts DEF TypeOK, Walks, Passing
  <2>2. InTree(k, p)
    BY <1>1 DEF WalkValid
  <2> QED
    BY <2>1, <2>2, InTreeHeld DEF TypeOK
<1>3. tr \in Trees /\ Held(tr) = (IF list[k][p] = <<>> THEN Held(tree[k]) \ {p}
                                  ELSE Held(tree[k]))
      /\ (list[k][p] # <<>> => tr = tree[k])
  <2>1. CurrentList = list[k][p]
    BY DEF CurrentList
  <2> QED
    BY <1>2, <2>1, PruneFacts DEF Prune
<1>4. walk.next \in Held(tr) \cup {Null}
  <2>1. ASSUME walk.next # Null PROVE walk.next \in Held(tree[k]) /\ walk.next # p
    <3>1. walk.next \in Keys /\ InTree(k, walk.next) /\ p < walk.next
      BY <1>1, <2>1 DEF WalkValid, TypeOK, Walks
    <3>2. walk.next \in Held(tree[k])
      BY <1>2, <3>1, InTreeHeld
    <3>3. p \in Nat /\ walk.next \in Nat
      BY <1>2, <3>1, KeysAssumption
    <3> HIDE DEF p, k
    <3>4. walk.next # p
      BY <3>1, <3>3
    <3> QED
      BY <3>2, <3>4
  <2> QED
    BY <1>3, <2>1
<1>5. tree' = [tree EXCEPT ![k] = tr] /\ walk' = Visit(k, walk.next, tr, walk.fresh, walk.count)
  BY DEF PassList
<1> HIDE DEF tr, k, p
<1>6. /\ walk' \in Walks
      /\ walk'.list = walk.next /\ walk'.fresh = walk.fresh /\ walk'.count = walk.count
      /\ walk'.list = Null => walk'.timer = Nobody
      /\ walk'.list # Null => walk'.list \in Held(tr)
      /\ walk'.next # Null => walk'.list # Null /\ walk'.list < walk'.next
                                 /\ walk'.next \in Held(tr)
  <2>1. /\ list[k] \in [Keys -> Seq(Tasks)] /\ walk.fresh \in SUBSET Tasks
        /\ walk.count \in {0, 1}
    BY <1>2 DEF TypeOK, Walks
  <2>2. walk' = Visit(k, walk.next, tr, walk.fresh, walk.count)
    BY <1>5
  <2>3. k \in Kinds /\ tr \in Trees /\ walk.next \in Held(tr) \cup {Null}
    BY <1>2, <1>3, <1>4
  <2>4. VisitOf(walk', k, walk.next, tr, walk.fresh, walk.count)
    BY <2>1, <2>2, <2>3, VisitFacts
  <2> QED
    BY <2>3, <2>4 DEF VisitOf
<1>7. /\ tree' \in [Kinds -> Trees] /\ tree'[k] = tr
      /\ \A j \in Kinds \ {k} : tree'[j] = tree[j]
      /\ tr = tree[k] => tree' = tree
  BY <1>2, <1>3, <1>5 DEF TypeOK
<1>8. /\ Held(tree'[k]) = (IF list[k][p] = <<>> THEN Held(tree[k]) \ {p} ELSE Held(tree[k]))
      /\ list[k][p] # <<>> => tree' = tree
  BY <1>3, <1>7
<1>9. /\ walk'.list # Null => walk'.list \in Held(tree'[k])
      /\ walk'.next # Null => walk'.list # Null /\ walk'.list < walk'.next
                                 /\ walk'.next \in Held(tree'[k])
  BY <1>6, <1>7
<1> QED
  BY <1>1, <1>2, <1>6, <1>7, <1>8, <1>9 DEF k, p

(* The other steps of a pass: one timer passed over, and its start. *)
LEMMA SkipEffect ==
    ASSUME TypeOK, WalkValid, PassSkip
    PROVE  /\ walk' \in Walks
           /\ walk'.list = walk.list /\ walk'.next = walk.next
           /\ walk'.fresh = walk.fresh /\ walk'.count = walk.count
           /\ walk.timer \in walk.fresh /\ walk.timer # Nobody
           /\ running = Nobody /\ Passing
<1>1. /\ Passing /\ running = Nobody /\ walk.timer # Nobody /\ walk.timer \in walk.fresh
      /\ Within(CurrentList, walk.timer)
  BY DEF PassSkip, InPass, Stale, LoopRuns, Skipped, Within
<1>2. Behind(CurrentList, walk.timer) \in Tasks \cup {Nobody}
  <2> DEFINE s == CurrentList
  <2>1. walk.list # Null
    BY <1>1 DEF WalkValid
  <2>2. s \in Seq(Tasks)
    BY <1>1, <2>1, KindOfFacts DEF CurrentList, TypeOK, Walks, Passing
  <2> HIDE DEF s
  <2>3. Position(s, walk.timer) \in 1..Len(s)
    BY <1>1, <2>2 DEF Within, Position, s
  <2> QED
    BY <2>2, <2>3 DEF Behind, s
<1> QED
  BY <1>1, <1>2 DEF PassSkip, TypeOK, Walks

LEMMA StartEffect ==
    ASSUME TypeOK, NEW f \in DOMAIN KindOf, StartPass(f)
    PROVE  LET k == KindOf[f]
           IN  /\ k \in Kinds /\ tree[k] \in Trees
               /\ phase' = f
               /\ VisitOf(walk', k, TreeFirst(tree[k]), tree[k], {}, 0)
<1>1. KindOf[f] \in Kinds /\ tree[KindOf[f]] \in Trees
  BY KindOfFacts DEF TypeOK
<1>2. TreeFirst(tree[KindOf[f]]) = Null \/ TreeFirst(tree[KindOf[f]]) \in Held(tree[KindOf[f]])
  BY <1>1, FirstHeld
<1>3. /\ phase' = f
      /\ walk' = Visit(KindOf[f], TreeFirst(tree[KindOf[f]]), tree[KindOf[f]], {}, 0)
  BY DEF StartPass
<1>4. {} \subseteq Tasks /\ 0 \in {0, 1}
  OBVIOUS
<1>5. VisitOf(walk', KindOf[f], TreeFirst(tree[KindOf[f]]), tree[KindOf[f]], {}, 0)
  BY <1>1, <1>2, <1>3, <1>4, VisitFacts
<1> QED
  BY <1>1, <1>3, <1>5

(* The times epoll_wait is called with. *)
Near(k, n) ==
    IF TreeFirst(tree[k]) = Null THEN Forever
    ELSE Sub(n, issued[Head(list[k][TreeFirst(tree[k])])])

LEMMA SubFacts ==
    ASSUME NEW a \in Nat, NEW b \in Nat
    PROVE  /\ Sub(a, b) \in Nat
           /\ b <= a /\ a - b < Word => Sub(a, b) = a - b
           /\ a < b /\ b - a < Word => Sub(a, b) = a - b + Word
BY DEF Sub, Word

LEMMA NearFacts ==
    ASSUME TypeOK, ~HeadMissing, NEW k \in Kinds, NEW n \in Nat
    PROVE  Near(k, n) \in Nat
<1>1. CASE TreeFirst(tree[k]) = Null
  BY <1>1 DEF Near, Forever, Word
<1>2. CASE TreeFirst(tree[k]) # Null
  <2>1. TreeFirst(tree[k]) \in Keys
    BY <1>2, FirstHeld DEF TypeOK
  <2>2. /\ list[k][TreeFirst(tree[k])] \in Seq(Tasks)
        /\ list[k][TreeFirst(tree[k])] # <<>>
    BY <1>2, <2>1 DEF TypeOK, HeadMissing
  <2>3. Head(list[k][TreeFirst(tree[k])]) \in Tasks
    BY <2>2
  <2>4. issued[Head(list[k][TreeFirst(tree[k])])] \in Nat
    <3>1. \A t \in Tasks : issued[t] \in Nat
      BY TimerAssumption DEF TypeOK
    <3> QED
      BY <2>3, <3>1
  <2>5. \A b \in Nat : Sub(n, b) \in Nat
    BY SubFacts
  <2> QED
    BY <1>2, <2>4, <2>5 DEF Near
<1> QED
  BY <1>1, <1>2

LEMMA EnterWaitEffect ==
    ASSUME TypeOK, EnterWait
    PROVE  /\ now' = (IF walk.count > 0 THEN clock ELSE now)
           /\ last' = (IF walk.count > 0 THEN clock ELSE last)
           /\ walk' = NoWalk /\ walk' \in Walks
           /\ \/ phase' = "crashed" /\ deadline' = Never
              \/ /\ phase' = "wait" /\ ~HeadMissing
                 /\ LET x == Least(Near("sleep", now'),
                                   Least(Near("idle", now'), Near("timeout", now')))
                    IN  /\ x \in Nat
                        /\ deadline' = (IF ToMilliseconds(x) = Never THEN Never
                                        ELSE clock + ToMilliseconds(x))
                        /\ deadline' = Never \/ deadline' \in Nat
<1>1. /\ now' = (IF walk.count > 0 THEN clock ELSE now)
      /\ last' = (IF walk.count > 0 THEN clock ELSE last)
  BY DEF EnterWait, ReadClock
<1>2. walk' = NoWalk /\ walk' \in Walks
  BY DEF EnterWait, NoWalk, Walks
<1>3. CASE HeadMissing
  BY <1>1, <1>2, <1>3 DEF EnterWait
<1>4. CASE ~HeadMissing
  <2> DEFINE x == Least(Near("sleep", now'), Least(Near("idle", now'), Near("timeout", now')))
  <2>1. now' \in Nat /\ clock \in Nat
    BY <1>1, TimerAssumption DEF TypeOK
  <2>2. /\ Near("sleep", now') \in Nat /\ Near("idle", now') \in Nat
        /\ Near("timeout", now') \in Nat
    BY <1>4, <2>1, NearFacts DEF Kinds
  <2>3. x \in Nat
    BY <2>2 DEF Least
  <2>4. WaitTimeout' = x
    BY DEF EnterWait, WaitTimeout, NearestEvent, Near
  <2> HIDE DEF x
  <2>5. /\ phase' = "wait"
        /\ deadline' = (IF ToMilliseconds(x) = Never THEN Never
                        ELSE clock + ToMilliseconds(x))
    BY <1>4, <2>4 DEF EnterWait
  <2>6. ToMilliseconds(x) = Never \/ ToMilliseconds(x) \in Nat
    BY <2>3 DEF ToMilliseconds, IntRange
  <2>7. deadline' = Never \/ deadline' \in Nat
    BY <2>1, <2>5, <2>6
  <2> QED
    BY <1>1, <1>2, <1>4, <2>3, <2>5, <2>7 DEF x
<1> QED
  BY <1>3, <1>4

-----------------------------------------------------------------------------
(* Type correctness *)

Untouched == UNCHANGED <<platform, clock, tree, list, issued, period, place, running>>

(* The steps of the loop that only start another phase. *)
LEMMA QuietType ==
    ASSUME TypeOK, Untouched, now' \in Epoch..clock, last' \in Epoch..now',
           phase' \in Phases, walk' \in Walks, deadline' = Never \/ deadline' \in Nat
    PROVE  TypeOK'
BY DEF TypeOK, Untouched

LEMMA StartType ==
    ASSUME TypeOK, Untouched, now' \in {now, clock}, last' \in {last, now'},
           deadline' \in {deadline, Never}, NEW f \in DOMAIN KindOf, StartPass(f)
    PROVE  TypeOK'
<1>1. walk' \in Walks /\ phase' = f
  BY StartEffect DEF VisitOf
<1>2. f \in Phases
  BY KindOfFacts DEF Phases, Kinds
<1>3. now' \in Epoch..clock /\ last' \in Epoch..now'
  BY TimerAssumption DEF TypeOK
<1>4. deadline' = Never \/ deadline' \in Nat
  BY DEF TypeOK
<1> QED
  BY <1>1, <1>2, <1>3, <1>4, QuietType

LEMMA TypeStep ==
    ASSUME TypeOK, TimersRegistered, WalkValid, [Next]_vars
    PROVE  TypeOK'
<1>1. ASSUME NEW t \in Tasks, NEW k \in Kinds, NEW p \in Keys, Suspend(t, k, p)
      PROVE  TypeOK'
  <2>1. place' \in [Tasks -> Places] /\ running' = Nobody
    BY <1>1 DEF Suspend, TypeOK, Places
  <2>2. UNCHANGED <<platform, clock, now, last, phase, deadline>> /\ SetTimer(t, k, p)
    BY <1>1 DEF Suspend
  <2>3. TimerSet(t, k, p)
    BY <2>2, SetTimerEffect
  <2> QED
    BY <2>1, <2>2, <2>3 DEF TypeOK, TimerSet
<1>2. ASSUME NEW t \in Tasks, SuspendUntimed(t) PROVE TypeOK'
  BY <1>2 DEF SuspendUntimed, TypeOK, Places
<1>3. ASSUME NEW t \in Tasks, NEW u \in Tasks, Signal(t, u) PROVE TypeOK'
  <2>1. place' \in [Tasks -> Places] /\ running' = Nobody
    BY <1>3 DEF Signal, TypeOK, Places
  <2>2. UNCHANGED <<platform, clock, now, last, phase, walk, deadline>> /\ Arrive(u)
    BY <1>3 DEF Signal
  <2>3. Arrived(u)
    BY <2>2, ArriveEffect
  <2> QED
    BY <2>1, <2>2, <2>3 DEF TypeOK, Arrived
<1>4. ASSUME NEW t \in Tasks, Event(t) PROVE TypeOK'
  <2>1. place' \in [Tasks -> Places] /\ running' = t /\ phase' \in Phases
    BY <1>4 DEF Event, TypeOK, Places, Phases
  <2>2. UNCHANGED <<platform, clock, now, last, walk, deadline>> /\ Arrive(t)
    BY <1>4 DEF Event
  <2>3. Arrived(t)
    BY <2>2, ArriveEffect
  <2> QED
    BY <2>1, <2>2, <2>3 DEF TypeOK, Arrived
<1>5. CASE PassSkip
  BY <1>5, SkipEffect DEF PassSkip, TypeOK
<1>6. CASE PassWake
  <2>1. list' \in [Kinds -> [Keys -> Seq(Tasks)]]
    BY <1>6, WakeEffect, TakeOut DEF TakenOut
  <2>2. UNCHANGED <<platform, clock, now, last, tree, phase, deadline>>
    BY <1>6 DEF PassWake
  <2> QED
    BY <1>6, <2>1, <2>2, WakeEffect DEF TypeOK
<1>7. CASE PassList
  BY <1>7, ListEffect DEF PassList, TypeOK
<1>8. CASE EnterWait
  <2>1. Untouched
    BY <1>8 DEF EnterWait, Untouched
  <2>2. now' \in Epoch..clock /\ last' \in Epoch..now'
    BY <1>8, EnterWaitEffect, TimerAssumption DEF TypeOK
  <2>3. /\ walk' \in Walks
        /\ phase' \in Phases
        /\ deadline' = Never \/ deadline' \in Nat
    BY <1>8, EnterWaitEffect DEF Phases
  <2> QED
    BY <2>1, <2>2, <2>3, QuietType
<1>9. CASE TimedOut
  BY <1>9, StartType, KindOfFacts DEF TimedOut, Untouched
<1>10. CASE EventsCame
  BY <1>10, TimerAssumption DEF EventsCame, TypeOK, Phases
<1>11. CASE EventsDone
  BY <1>11, StartType, KindOfFacts DEF EventsDone, ReadClock, Untouched
<1>12. CASE IdlesDone
  BY <1>12, StartType, KindOfFacts DEF IdlesDone, ReadClock, Untouched
<1>13. CASE TimeoutsDone
  BY <1>13, StartType, KindOfFacts DEF TimeoutsDone, Untouched
<1>14. CASE Interrupted
  BY <1>14, StartType, KindOfFacts DEF Interrupted, Untouched
<1>15. CASE Stopped
  BY <1>15, StartType, KindOfFacts DEF Stopped, Untouched
<1>16. CASE EndPassDone
  <2>1. Untouched /\ now' = now /\ last' = last /\ deadline' = deadline
    BY <1>16 DEF EndPassDone, Untouched
  <2>2. CASE StartPass("endSleep") \/ StartPass("endTimeout")
    BY <2>1, <2>2, StartType, KindOfFacts
  <2>3. CASE phase' = "gone" /\ walk' = NoWalk
    BY <2>1, <2>3, QuietType DEF TypeOK, Phases, NoWalk, Walks
  <2> QED
    BY <1>16, <2>2, <2>3 DEF EndPassDone
<1>17. CASE Tick
  BY <1>17, TimerAssumption DEF Tick, TypeOK
<1>18. CASE UNCHANGED vars
  BY <1>18 DEF vars, TypeOK
<1>19. CASE PassAstray
  BY <1>19 DEF PassAstray, TypeOK, Phases
<1> QED
  BY <1>1, <1>2, <1>3, <1>4, <1>5, <1>6, <1>7, <1>8, <1>9, <1>10, <1>11, <1>12, <1>13,
     <1>14, <1>15, <1>16, <1>17, <1>18, <1>19 DEF Next, TaskStep, LoopStep

-----------------------------------------------------------------------------
(* The timers in their lists *)

QuietData == UNCHANGED <<tree, list, issued, period, place, running>>

(* Every step leaves the timers alone but those that run tasks, and those  *)
(* of a pass that wake a task or free a list.                              *)
LEMMA Steps ==
    ASSUME [Next]_vars
    PROVE  \/ \E t \in Tasks, k \in Kinds, p \in Keys : Suspend(t, k, p)
           \/ \E t \in Tasks : SuspendUntimed(t)
           \/ \E t, u \in Tasks : Signal(t, u)
           \/ \E t \in Tasks : Event(t)
           \/ PassWake
           \/ PassList
           \/ QuietData
BY DEF Next, TaskStep, LoopStep, vars, QuietData, PassSkip, EnterWait, TimedOut, EventsCame,
       EventsDone, IdlesDone, TimeoutsDone, Interrupted, Stopped, EndPassDone, Tick,
       PassAstray

LEMMA RegisteredNext ==
    ASSUME TypeOK', \A t \in Tasks : place'[t] \in Kinds => period'[t] \in Keys,
           \A k \in Kinds, p \in Keys :
              /\ NoRepeats(list'[k][p])
              /\ \A t \in Tasks :
                    Within(list'[k][p], t) <=> place'[t] = k /\ period'[t] = p
              /\ list'[k][p] # <<>> => p \in Held(tree'[k])
    PROVE  TimersRegistered'
<1>1. ASSUME NEW k \in Kinds, NEW p \in Keys
      PROVE  InTree(k, p)' <=> p \in Held(tree'[k])
  BY HeldIsSearch, tree'[k] \in Trees DEF InTree, TypeOK
<1> QED
  BY <1>1 DEF TimersRegistered, NoRepeats, Within

LEMMA RegisteredStep ==
    ASSUME TypeOK, TimersRegistered, WalkValid, Control, TypeOK', [Next]_vars
    PROVE  TimersRegistered'
<1>1. ASSUME NEW t \in Tasks, NEW k \in Kinds, NEW p \in Keys, Suspend(t, k, p)
      PROVE  TimersRegistered'
  <2>1. /\ SetTimer(t, k, p)
        /\ place' = [place EXCEPT ![t] = k]
        /\ place \in [Tasks -> Places] /\ place[t] = "run"
    BY <1>1 DEF Suspend, TypeOK, Control
  <2>5. TimerSet(t, k, p)
    BY <2>1, SetTimerEffect
  <2>2. \A j \in Kinds, q \in Keys : ~Within(list[j][q], t)
    BY <2>1, Registered DEF Kinds
  <2>3. ASSUME NEW u \in Tasks, place'[u] \in Kinds PROVE period'[u] \in Keys
    <3>1. period'[t] = p /\ (u # t => period'[u] = period[u])
      BY <2>5 DEF TimerSet
    <3>2. u # t => place'[u] = place[u]
      BY <2>1
    <3> QED
      BY <2>3, <3>1, <3>2, TimerPlaced
  <2>4. ASSUME NEW j \in Kinds, NEW q \in Keys
        PROVE  /\ NoRepeats(list'[j][q])
               /\ \A u \in Tasks : Within(list'[j][q], u) <=> place'[u] = j /\ period'[u] = q
               /\ list'[j][q] # <<>> => q \in Held(tree'[j])
    <3>1. /\ \A u \in Tasks \ {t} : place'[u] = place[u] /\ period'[u] = period[u]
          /\ place'[t] = k /\ period'[t] = p
      BY <2>1, <2>5 DEF TimerSet
    <3>2. CASE j = k /\ q = p
      <4>1. list'[k][p] = Append(list[k][p], t) /\ p \in Held(tree'[k])
        BY <2>5 DEF TimerSet
      <4>2. /\ NoRepeats(list'[k][p])
            /\ \A u : Within(list'[k][p], u) <=> u = t \/ Within(list[k][p], u)
        BY <2>2, <4>1, Registered, AppendFacts
      <4>3. \A u \in Tasks : Within(list'[k][p], u) <=> place'[u] = k /\ period'[u] = p
        BY <3>1, <4>2, Registered
      <4> QED
        BY <3>2, <4>1, <4>2, <4>3
    <3>3. CASE j # k \/ q # p
      <4>1. list'[j][q] = list[j][q] /\ Held(tree[j]) \subseteq Held(tree'[j])
        <5>1. list'[j][q] = list[j][q]
          BY <3>3, <2>5 DEF TimerSet
        <5>2. CASE j = k
          BY <2>5, <5>1, <5>2 DEF TimerSet
        <5>3. CASE j # k
          BY <2>5, <5>1, <5>3 DEF TimerSet
        <5> QED
          BY <5>2, <5>3
      <4>2. \A u \in Tasks : Within(list[j][q], u) <=> place'[u] = j /\ period'[u] = q
        <5> TAKE u \in Tasks
        <5>1. Within(list[j][q], u) <=> place[u] = j /\ period[u] = q
          BY Registered
        <5>2. CASE u = t
          BY <2>2, <3>1, <3>3, <5>2
        <5>3. CASE u # t
          BY <3>1, <5>1, <5>3
        <5> QED
          BY <5>2, <5>3
      <4> QED
        BY <4>1, <4>2, Registered
    <3> QED
      BY <3>2, <3>3
  <2> QED
    BY <2>3, <2>4, RegisteredNext
<1>2. ASSUME NEW t \in Tasks, SuspendUntimed(t) PROVE TimersRegistered'
  <2>1. /\ UNCHANGED <<tree, list, period>> /\ place' = [place EXCEPT ![t] = "wait"]
        /\ place \in [Tasks -> Places] /\ place[t] = "run"
    BY <1>2 DEF SuspendUntimed, TypeOK, Control
  <2>2. \A u \in Tasks, k \in Kinds : place'[u] = k <=> place[u] = k
    BY <2>1 DEF Kinds
  <2>3. \A u \in Tasks : place'[u] \in Kinds => period'[u] \in Keys
    BY <2>1, <2>2 DEF TimersRegistered
  <2> QED
    BY <2>1, <2>2, <2>3, Registered, RegisteredNext
<1>3. ASSUME NEW u \in Tasks, Arrive(u), place' \in [Tasks -> Places],
             place'[u] \in {"run", "out"},
             \A t \in Tasks \ {u} : place'[t] = place[t]
                 \/ (place[t] \notin Kinds /\ place'[t] \notin Kinds)
      PROVE  TimersRegistered'
  <2>1. "run" \notin Kinds /\ "out" \notin Kinds
    BY DEF Kinds
  <2>4. Arrived(u)
    BY <1>3, ArriveEffect
  <2>2. ASSUME NEW t \in Tasks, place'[t] \in Kinds PROVE period'[t] \in Keys
    <3>1. t # u
      BY <1>3, <2>1, <2>2
    <3>2. period'[t] = period[t]
      BY <2>4, <3>1 DEF Arrived
    <3>3. place[t] \in Kinds
      BY <1>3, <2>2, <3>1
    <3> QED
      BY <3>2, <3>3, TimerPlaced
  <2>3. ASSUME NEW k \in Kinds, NEW p \in Keys
        PROVE  /\ NoRepeats(list'[k][p])
               /\ \A t \in Tasks : Within(list'[k][p], t) <=> place'[t] = k /\ period'[t] = p
               /\ list'[k][p] # <<>> => p \in Held(tree'[k])
    <3>1. /\ NoRepeats(list'[k][p])
          /\ list'[k][p] # <<>> => p \in Held(tree'[k])
      BY <2>4 DEF Arrived
    <3>2. ASSUME NEW t \in Tasks
          PROVE  Within(list'[k][p], t) <=> place'[t] = k /\ period'[t] = p
      <4>1. Within(list'[k][p], t) <=> t # u /\ Within(list[k][p], t)
        BY <2>4 DEF Arrived
      <4>2. CASE t = u
        BY <1>3, <2>1, <4>1, <4>2
      <4>3. CASE t # u
        <5>1. period'[t] = period[t]
          BY <2>4, <4>3 DEF Arrived
        <5>2. place'[t] = k <=> place[t] = k
          BY <1>3, <4>3
        <5>3. Within(list[k][p], t) <=> place[t] = k /\ period[t] = p
          BY Registered
        <5> QED
          BY <4>1, <4>3, <5>1, <5>2, <5>3
      <4> QED
        BY <4>2, <4>3
    <3> QED
      BY <3>1, <3>2
  <2> QED
    BY <2>2, <2>3, RegisteredNext
<1>4. ASSUME NEW t \in Tasks, NEW u \in Tasks, Signal(t, u) PROVE TimersRegistered'
  <2>1. /\ Arrive(u) /\ place' = [place EXCEPT ![t] = "out", ![u] = "out"]
        /\ place \in [Tasks -> Places] /\ place[t] = "run"
    BY <1>4 DEF Signal, TypeOK, Control
  <2>2. place' \in [Tasks -> Places]
    BY DEF TypeOK
  <2> QED
    BY <1>3, <2>1, <2>2 DEF Kinds
<1>5. ASSUME NEW t \in Tasks, Event(t) PROVE TimersRegistered'
  <2>1. /\ Arrive(t) /\ place' = [place EXCEPT ![t] = "run"]
        /\ place \in [Tasks -> Places]
    BY <1>5 DEF Event, TypeOK
  <2>2. place' \in [Tasks -> Places]
    BY DEF TypeOK
  <2> QED
    BY <1>3, <2>1, <2>2
<1>6. CASE PassWake
  <2> DEFINE t == walk.timer
  <2> DEFINE k == KindOf[phase]
  <2> DEFINE p == walk.list
  <2>1. /\ t \in Tasks /\ k \in Kinds /\ p \in Keys
        /\ place[t] = k /\ period[t] = p
        /\ place'[t] = "run" /\ period'[t] = Null
        /\ \A u \in Tasks \ {t} : place'[u] = place[u] /\ period'[u] = period[u]
        /\ list' = [list EXCEPT ![k][p] = Without(@, t)]
        /\ tree' = tree
    BY <1>6, WakeEffect
  <2> HIDE DEF t, k, p
  <2>5. TakenOut(t, k, p)
    BY <2>1, TakeOut
  <2>2. "run" \notin Kinds
    BY DEF Kinds
  <2>3. \A u \in Tasks : place'[u] \in Kinds => period'[u] \in Keys
    BY <2>1, <2>2 DEF TimersRegistered
  <2>4. ASSUME NEW j \in Kinds, NEW q \in Keys
        PROVE  /\ NoRepeats(list'[j][q])
               /\ \A u \in Tasks : Within(list'[j][q], u) <=> place'[u] = j /\ period'[u] = q
               /\ list'[j][q] # <<>> => q \in Held(tree'[j])
    <3>1. /\ NoRepeats(list'[j][q])
          /\ \A u \in Tasks : Within(list'[j][q], u) <=> u # t /\ Within(list[j][q], u)
          /\ j # k \/ q # p => list'[j][q] = list[j][q]
      BY <2>5 DEF TakenOut
    <3>2. \A u \in Tasks : Within(list'[j][q], u) <=> place'[u] = j /\ period'[u] = q
      <4> TAKE u \in Tasks
      <4>1. Within(list[j][q], u) <=> place[u] = j /\ period[u] = q
        BY Registered
      <4> QED
        BY <2>1, <2>2, <3>1, <4>1
    <3>3. list'[j][q] # <<>> => q \in Held(tree'[j])
      <4>1. CASE j # k \/ q # p
        BY <2>1, <3>1, <4>1, Registered
      <4>2. CASE j = k /\ q = p
        BY <2>1, <4>2, TimerPlaced
      <4> QED
        BY <4>1, <4>2
    <3> QED
      BY <3>1, <3>2, <3>3
  <2> QED
    BY <2>3, <2>4, RegisteredNext
<1>7. CASE PassList
  <2> DEFINE k == KindOf[phase]
  <2> DEFINE p == walk.list
  <2>1. /\ k \in Kinds /\ p \in Keys
        /\ Held(tree'[k]) = (IF list[k][p] = <<>> THEN Held(tree[k]) \ {p} ELSE Held(tree[k]))
        /\ \A j \in Kinds \ {k} : tree'[j] = tree[j]
    BY <1>7, ListEffect
  <2>2. UNCHANGED <<list, place, period>>
    BY <1>7 DEF PassList
  <2> HIDE DEF k, p
  <2>3. ASSUME NEW j \in Kinds, NEW q \in Keys, list'[j][q] # <<>>
        PROVE  q \in Held(tree'[j])
    BY <2>1, <2>2, <2>3, Registered
  <2>4. \A u \in Tasks : place'[u] \in Kinds => period'[u] \in Keys
    BY <2>2 DEF TimersRegistered
  <2> QED
    BY <2>2, <2>3, <2>4, Registered, RegisteredNext
<1>8. CASE QuietData
  BY <1>8 DEF QuietData, TimersRegistered, InTree
<1> QED
  BY <1>1, <1>2, <1>4, <1>5, <1>6, <1>7, <1>8, Steps

-----------------------------------------------------------------------------
(* The pass under way *)

(* The pass, if there is one, is over. *)
Between == LoopRuns /\ (Passing => walk.list = Null)

LEMMA AllSteps ==
    ASSUME Control, [Next]_vars
    PROVE  \/ \E t \in Tasks, k \in Kinds, p \in Keys : Suspend(t, k, p)
           \/ \E t \in Tasks : SuspendUntimed(t)
           \/ \E t, u \in Tasks : Signal(t, u)
           \/ \E t \in Tasks : Event(t)
           \/ PassSkip
           \/ PassWake
           \/ PassList
           \/ PassAstray
           \/ EnterWait
           \/ QuietData /\ Between /\ \E f \in DOMAIN KindOf : StartPass(f)
           \/ QuietData /\ Between /\ phase' \in {"event", "gone"}
           \/ QuietData /\ UNCHANGED <<now, phase, walk, deadline>>
<1>1. phase = "wait" => LoopRuns /\ ~Passing
  BY KindOfFacts DEF Control, Passing
<1>2. TimedOut \/ Interrupted \/ Stopped
        => QuietData /\ Between /\ \E f \in DOMAIN KindOf : StartPass(f)
  BY <1>1, KindOfFacts DEF TimedOut, Interrupted, Stopped, QuietData, Between
<1>3. EventsDone => QuietData /\ Between /\ \E f \in DOMAIN KindOf : StartPass(f)
  BY KindOfFacts DEF EventsDone, QuietData, Between, Passing
<1>4. IdlesDone \/ TimeoutsDone
        => QuietData /\ Between /\ \E f \in DOMAIN KindOf : StartPass(f)
  BY KindOfFacts DEF IdlesDone, TimeoutsDone, QuietData, PassOver, InPass, Between
<1>5. EndPassDone
        => /\ QuietData /\ Between
           /\ phase' = "gone" \/ \E f \in DOMAIN KindOf : StartPass(f)
  BY KindOfFacts DEF EndPassDone, QuietData, PassOver, InPass, Between
<1>6. EventsCame => QuietData /\ Between /\ phase' = "event"
  BY <1>1 DEF EventsCame, QuietData, Between
<1>7. Tick \/ UNCHANGED vars => QuietData /\ UNCHANGED <<now, phase, walk, deadline>>
  BY DEF Tick, vars, QuietData
<1> QED
  BY <1>2, <1>3, <1>4, <1>5, <1>6, <1>7 DEF Next, TaskStep, LoopStep

NotPassing == {"wait", "event", "lastEvent", "gone", "crashed", "astray"}

LEMMA WalkNext ==
    ASSUME TypeOK',
           phase' \in DOMAIN KindOf =>
               /\ walk'.list # Null => walk'.list \in Held(tree'[KindOf[phase']])
               /\ walk'.next # Null =>
                     /\ walk'.next \in Held(tree'[KindOf[phase']])
                     /\ walk'.list # Null /\ walk'.list < walk'.next
               /\ walk'.list = Null => walk'.timer = Nobody
    PROVE  WalkValid'
<1>1. ASSUME NEW k \in Kinds, NEW p \in Keys
      PROVE  InTree(k, p)' <=> p \in Held(tree'[k])
  BY HeldIsSearch, tree'[k] \in Trees DEF InTree, TypeOK
<1>2. \A k \in Kinds : \A p \in Held(tree'[k]) : InTree(k, p)'
  BY <1>1 DEF Held
<1> QED
  BY <1>2, KindOfFacts DEF WalkValid, Passing

LEMMA WalkHeld ==
    ASSUME TypeOK, WalkValid, Passing
    PROVE  /\ KindOf[phase] \in Kinds
           /\ walk.list # Null => walk.list \in Held(tree[KindOf[phase]])
           /\ walk.next # Null =>
                 /\ walk.next \in Held(tree[KindOf[phase]])
                 /\ walk.list # Null /\ walk.list < walk.next
           /\ walk.list = Null => walk.timer = Nobody
<1>1. KindOf[phase] \in Kinds
  BY KindOfFacts DEF Passing
<1>2. walk.list \in Keys \cup {Null} /\ walk.next \in Keys \cup {Null}
  BY DEF TypeOK, Walks
<1> QED
  BY <1>1, <1>2, InTreeHeld DEF WalkValid

LEMMA WalkStep ==
    ASSUME TypeOK, TimersRegistered, WalkValid, Control, TypeOK', [Next]_vars
    PROVE  WalkValid'
<1>1. ASSUME NEW t \in Tasks, NEW k \in Kinds, NEW p \in Keys, Suspend(t, k, p)
      PROVE  WalkValid'
  <2>1. phase' = phase /\ TimerSet(t, k, p)
    BY <1>1, SetTimerEffect DEF Suspend
  <2>2. \A j \in Kinds : Held(tree[j]) \subseteq Held(tree'[j])
    <3> TAKE j \in Kinds
    <3>1. j = k \/ tree'[j] = tree[j]
      BY <2>1 DEF TimerSet
    <3> QED
      BY <2>1, <3>1 DEF TimerSet
  <2>3. walk'.list = walk.list /\ walk'.next = walk.next /\ walk'.timer = walk.timer
    BY <2>1 DEF TimerSet
  <2> QED
    BY <2>1, <2>2, <2>3, WalkHeld, WalkNext DEF Passing
<1>2. ASSUME UNCHANGED <<tree, phase, walk>> PROVE WalkValid'
  BY <1>2 DEF WalkValid, Passing, InTree
<1>3. ASSUME NEW u \in Tasks, Arrive(u), UNCHANGED <<phase, walk>> PROVE WalkValid'
  <2>1. Passing => tree'[KindOf[phase]] = tree[KindOf[phase]]
    BY <1>3, ArriveEffect DEF Arrived
  <2> QED
    BY <1>3, <2>1, WalkHeld, WalkNext DEF Passing
<1>4. CASE phase' \in NotPassing
  BY <1>4, KindOfFacts DEF WalkValid, Passing, NotPassing
<1>5. CASE PassSkip
  <2>1. UNCHANGED <<tree, phase>>
    BY <1>5 DEF PassSkip
  <2> QED
    BY <1>5, <2>1, SkipEffect, WalkHeld, WalkNext DEF Passing
<1>6. CASE PassWake
  <2>1. /\ UNCHANGED <<tree, phase>> /\ Passing
        /\ walk'.list = walk.list /\ walk'.next = walk.next /\ walk.list \in Keys
    BY <1>6, WakeEffect
  <2> QED
    BY <2>1, WalkHeld, WalkNext, KeysAssumption DEF Passing, Null
<1>7. CASE PassList
  BY <1>7, ListEffect, WalkNext DEF Passing
<1>8. ASSUME NEW f \in DOMAIN KindOf, StartPass(f), tree' = tree PROVE WalkValid'
  <2>1. /\ phase' = f
        /\ VisitOf(walk', KindOf[f], TreeFirst(tree[KindOf[f]]), tree[KindOf[f]], {}, 0)
        /\ tree[KindOf[f]] \in Trees
    BY <1>8, StartEffect
  <2>2. TreeFirst(tree[KindOf[f]]) # Null => TreeFirst(tree[KindOf[f]]) \in Held(tree[KindOf[f]])
    BY <2>1, FirstHeld
  <2> QED
    BY <1>8, <2>1, <2>2, WalkNext DEF VisitOf
<1> QED
  <2>1. \A t \in Tasks : SuspendUntimed(t) => UNCHANGED <<tree, phase, walk>>
    BY DEF SuspendUntimed
  <2>2. \A t, u \in Tasks : Signal(t, u) => Arrive(u) /\ UNCHANGED <<phase, walk>>
    BY DEF Signal
  <2>3. \A t \in Tasks : Event(t) => phase' \in NotPassing
    BY DEF Event, NotPassing
  <2>4. EnterWait => phase' \in NotPassing
    BY DEF EnterWait, NotPassing
  <2>5. phase' \in {"event", "gone"} => phase' \in NotPassing
    BY DEF NotPassing
  <2>6. QuietData => tree' = tree
    BY DEF QuietData
  <2>7. PassAstray => phase' \in NotPassing
    BY DEF PassAstray, NotPassing
  <2> QED
    BY <1>1, <1>2, <1>3, <1>4, <1>5, <1>6, <1>7, <1>8, <2>1, <2>2, <2>3, <2>4, <2>5, <2>6, <2>7,
       AllSteps

LEMMA ControlStep ==
    ASSUME TypeOK, TimersRegistered, WalkValid, Control, [Next]_vars
    PROVE  Control'
<1>1. ASSUME NEW t \in Tasks, NEW k \in Kinds, NEW p \in Keys, Suspend(t, k, p)
      PROVE  Control'
  <2>1. /\ running = t /\ running' = Nobody /\ phase' = phase
        /\ place' = [place EXCEPT ![t] = k] /\ TimerSet(t, k, p)
    BY <1>1, SetTimerEffect DEF Suspend
  <2>2. \A u \in Tasks : place'[u] # "run" /\ running' # u
    BY <2>1, TimerAssumption DEF Control, TypeOK, Kinds
  <2>3. Passing => walk'.count = 1
    BY <2>1, KindOfFacts, TimerAssumption DEF TimerSet, Control, LoopRuns, Passing
  <2>4. phase' = phase /\ running' = Nobody
    BY <2>1
  <2>5. \A u \in Tasks : place'[u] = "run" <=> running' = u
    BY <2>2
  <2>6. Passing' => walk'.count # 0
    BY <2>3, <2>4 DEF Passing
  <2> QED
    BY <2>4, <2>5, <2>6 DEF Control, LoopRuns
<1>2. ASSUME NEW t \in Tasks, SuspendUntimed(t) PROVE Control'
  <2>1. /\ running = t /\ running' = Nobody /\ phase' = phase /\ walk' = walk
        /\ place' = [place EXCEPT ![t] = "wait"]
    BY <1>2 DEF SuspendUntimed
  <2> QED
    BY <2>1, TimerAssumption DEF Control, TypeOK, LoopRuns, Passing
<1>3. ASSUME NEW t \in Tasks, NEW u \in Tasks, Signal(t, u) PROVE Control'
  <2>1. /\ running = t /\ running' = Nobody /\ phase' = phase /\ walk' = walk
        /\ place' = [place EXCEPT ![t] = "out", ![u] = "out"]
    BY <1>3 DEF Signal
  <2> QED
    BY <2>1, TimerAssumption DEF Control, TypeOK, LoopRuns, Passing
<1>4. ASSUME NEW t \in Tasks, Event(t) PROVE Control'
  <2>1. /\ running = Nobody /\ running' = t /\ phase' \in {"event", "lastEvent"}
        /\ place' = [place EXCEPT ![t] = "run"]
    BY <1>4 DEF Event, LoopRuns
  <2>2. \A u \in Tasks : place'[u] = "run" <=> running' = u
    BY <2>1, TimerAssumption DEF Control, TypeOK
  <2> QED
    BY <2>1, <2>2, KindOfFacts DEF Control, Passing
<1>5. CASE PassSkip
  <2>1. UNCHANGED <<place, running, phase>>
    BY <1>5 DEF PassSkip
  <2> QED
    BY <1>5, <2>1, SkipEffect DEF Control, LoopRuns, Passing
<1>6. CASE PassWake
  <2>1. /\ running = Nobody /\ running' = walk.timer /\ walk.timer \in Tasks
        /\ place'[walk.timer] = "run"
        /\ \A u \in Tasks \ {walk.timer} : place'[u] = place[u]
        /\ Passing /\ phase' = phase /\ walk'.count = 1
    BY <1>6, WakeEffect
  <2>2. \A u \in Tasks : place'[u] = "run" <=> running' = u
    BY <2>1, TimerAssumption DEF Control
  <2>3. Passing' /\ walk'.count = 1
    BY <2>1 DEF Passing
  <2>4. walk'.count # 0
    BY <2>3
  <2> QED
    BY <2>2, <2>3, <2>4 DEF Control
<1>7. CASE PassList
  <2>1. UNCHANGED <<place, running, phase>>
    BY <1>7 DEF PassList
  <2> QED
    BY <1>7, <2>1, ListEffect DEF Control, LoopRuns, Passing
<1>8. ASSUME UNCHANGED <<place, running>>, LoopRuns,
             phase' \in DOMAIN KindOf /\ walk'.count = 0 => walk'.fresh = {}
      PROVE  Control'
  BY <1>8 DEF Control, LoopRuns, Passing
<1>9. CASE EnterWait
  <2>1. phase' \in {"wait", "crashed"} /\ LoopRuns /\ UNCHANGED <<place, running>>
    BY <1>9 DEF EnterWait, PassOver, InPass
  <2> QED
    BY <1>8, <2>1, KindOfFacts
<1>10. ASSUME QuietData, Between, NEW f \in DOMAIN KindOf, StartPass(f) PROVE Control'
  <2>1. walk'.fresh = {}
    BY <1>10, StartEffect DEF VisitOf
  <2> QED
    BY <1>8, <1>10, <2>1 DEF QuietData, Between
<1>11. ASSUME QuietData, Between, phase' \in {"event", "gone"} PROVE Control'
  BY <1>8, <1>11, KindOfFacts DEF QuietData, Between
<1>12. ASSUME QuietData, UNCHANGED <<phase, walk>> PROVE Control'
  BY <1>12 DEF QuietData, Control, LoopRuns, Passing
<1>13. CASE PassAstray
  BY <1>8, <1>13, KindOfFacts DEF PassAstray
<1> QED
  BY <1>1, <1>2, <1>3, <1>4, <1>5, <1>6, <1>7, <1>9, <1>10, <1>11, <1>12, <1>13, AllSteps

(* The timer saved by the pass *)
LEMMA FrontFacts ==
    ASSUME NEW s \in Seq(Tasks), Front(s) # Nobody
    PROVE  Within(s, Front(s))
BY DEF Front, Within

LEMMA BehindFacts ==
    ASSUME NEW s \in Seq(Tasks), NoRepeats(s), NEW t, Within(s, t), Behind(s, t) # Nobody
    PROVE  Within(s, Behind(s, t)) /\ Behind(s, t) # t
<1>1. Position(s, t) \in 1..Len(s) /\ s[Position(s, t)] = t
  BY WithoutFacts
<1> HIDE DEF Position
<1>2. Position(s, t) + 1 \in DOMAIN s /\ Behind(s, t) = s[Position(s, t) + 1]
  BY <1>1 DEF Behind
<1> QED
  BY <1>1, <1>2 DEF Within, NoRepeats

(* a pass that holds a timer still in its list has not gone astray *)
LEMMA HoldsNext ==
    ASSUME phase' # "astray",
           phase' \in DOMAIN KindOf /\ walk'.timer # Nobody =>
               Within(list'[KindOf[phase']][walk'.list], walk'.timer)
    PROVE  SavedTimer'
BY DEF SavedTimer, Stale, Passing, CurrentList, Within

LEMMA HoldsNow ==
    ASSUME TypeOK, WalkValid, Passing, walk.timer # Nobody
    PROVE  /\ KindOf[phase] \in Kinds /\ walk.list \in Keys
           /\ Stale <=> ~Within(list[KindOf[phase]][walk.list], walk.timer)
           /\ walk.timer \in Tasks
<1>1. KindOf[phase] \in Kinds /\ walk.list \in Keys /\ walk.timer \in Tasks
  BY KindOfFacts DEF TypeOK, Walks, WalkValid, Passing
<1>2. list[KindOf[phase]][walk.list] \in Seq(Tasks)
  BY <1>1 DEF TypeOK
<1> QED
  BY <1>1, <1>2 DEF Stale, Within, CurrentList

LEMMA SavedStep ==
    ASSUME TypeOK, TimersRegistered, WalkValid, Control, SavedTimer, TypeOK', WalkValid',
           [Next]_vars
    PROVE  SavedTimer'
<1> DEFINE k == KindOf[phase]
<1> DEFINE s == list[k][walk.list]
<1>0. Passing => phase # "astray"
  BY KindOfFacts DEF Passing
<1>1. ASSUME ~LoopRuns, UNCHANGED phase, walk'.timer = walk.timer,
             walk'.list = walk.list, walk'.count = walk.count,
             \A u \in Tasks : place[u] = "out" => place'[u] = "out",
             Passing /\ walk.timer # Nobody /\ Within(s, walk.timer) =>
                 \/ Within(list'[k][walk.list], walk.timer)
                 \/ k = "timeout" /\ place'[walk.timer] = "out"
      PROVE  SavedTimer'
  <2>1. phase # "astray"
    BY <1>1 DEF Control, Passing, KindOf
  <2>2. CASE Passing /\ walk.timer # Nobody
    <3>1. /\ walk.timer \in Tasks /\ walk.list \in Keys /\ k \in Kinds
          /\ Stale <=> ~Within(s, walk.timer)
      BY <2>2, HoldsNow
    <3>2. walk.count = 1
      BY <1>1, <2>2, KindOfFacts DEF Control, Passing
    <3>3. \/ Within(list'[k][walk.list], walk.timer)
          \/ k = "timeout" /\ place'[walk.timer] = "out"
      BY <1>1, <2>2, <3>1 DEF SavedTimer
    <3>4. CASE Within(list'[k][walk.list], walk.timer)
      BY <1>1, <2>1, <3>4, HoldsNext
    <3>5. CASE k = "timeout" /\ place'[walk.timer] = "out"
      BY <1>1, <2>1, <2>2, <3>2, <3>5 DEF SavedTimer, Stale, Passing
    <3> QED
      BY <3>3, <3>4, <3>5
  <2>3. CASE ~(Passing /\ walk.timer # Nobody)
    BY <1>1, <2>1, <2>3, HoldsNext DEF Passing
  <2> QED
    BY <2>2, <2>3
<1>2. ASSUME NEW t \in Tasks, NEW j \in Kinds, NEW p \in Keys, Suspend(t, j, p)
      PROVE  SavedTimer'
  <2>1. /\ running = t /\ ~LoopRuns /\ phase' = phase /\ TimerSet(t, j, p)
        /\ place' = [place EXCEPT ![t] = j] /\ place[t] = "run"
    BY <1>2, SetTimerEffect, TimerAssumption DEF Suspend, LoopRuns, Control
  <2>2. \A u \in Tasks : place[u] = "out" => place'[u] = "out"
    BY <2>1 DEF TypeOK
  <2>3. ASSUME Passing, walk.timer # Nobody, Within(s, walk.timer)
        PROVE  Within(list'[k][walk.list], walk.timer)
    <3>1. k \in Kinds /\ walk.list \in Keys
      BY <2>3, HoldsNow
    <3>2. CASE k = j /\ walk.list = p
      <4>1. NoRepeats(s) /\ s \in Seq(Tasks) /\ ~Within(s, t)
        BY <2>1, <3>1, Registered DEF Kinds
      <4>2. list'[k][walk.list] = Append(s, t)
        BY <2>1, <3>2 DEF TimerSet
      <4>3. \A u : Within(Append(s, t), u) <=> u = t \/ Within(s, u)
        BY <4>1, AppendFacts
      <4> QED
        BY <2>3, <4>2, <4>3
    <3>3. CASE ~(k = j /\ walk.list = p)
      BY <2>1, <2>3, <3>1, <3>3 DEF TimerSet
    <3> QED
      BY <3>2, <3>3
  <2>4. /\ walk'.timer = walk.timer /\ walk'.list = walk.list
        /\ walk'.count = walk.count
    BY <2>1 DEF TimerSet
  <2> QED
    BY <1>1, <2>1, <2>2, <2>3, <2>4
<1>3. ASSUME NEW t \in Tasks, SuspendUntimed(t) PROVE SavedTimer'
  <2>1. /\ running = t /\ ~LoopRuns /\ UNCHANGED <<phase, walk, list>>
        /\ place' = [place EXCEPT ![t] = "wait"] /\ place[t] = "run"
    BY <1>3, TimerAssumption DEF SuspendUntimed, LoopRuns, Control
  <2>2. \A u \in Tasks : place[u] = "out" => place'[u] = "out"
    BY <2>1 DEF TypeOK
  <2> QED
    BY <1>1, <2>1, <2>2
<1>4. ASSUME NEW t \in Tasks, NEW u \in Tasks, Signal(t, u) PROVE SavedTimer'
  <2>1. /\ running = t /\ ~LoopRuns /\ UNCHANGED <<phase, walk>> /\ Arrived(u)
        /\ place' = [place EXCEPT ![t] = "out", ![u] = "out"]
        /\ place \in [Tasks -> Places]
    BY <1>4, ArriveEffect, TimerAssumption DEF Signal, LoopRuns, TypeOK
  <2>2. \A v \in Tasks : place[v] = "out" => place'[v] = "out"
    BY <2>1
  <2>3. ASSUME Passing, walk.timer # Nobody, Within(s, walk.timer)
        PROVE  \/ Within(list'[k][walk.list], walk.timer)
               \/ k = "timeout" /\ place'[walk.timer] = "out"
    <3>1. k \in Kinds /\ walk.list \in Keys /\ walk.timer \in Tasks
      BY <2>3, HoldsNow
    <3>2. CASE walk.timer = u
      <4>1. place[u] = k
        BY <2>3, <3>1, <3>2, Registered
      <4>2. place[u] \in {"wait", "timeout"} /\ place'[u] = "out"
        BY <2>1 DEF Arrived
      <4> QED
        BY <3>1, <3>2, <4>1, <4>2 DEF Kinds
    <3>3. CASE walk.timer # u
      BY <2>1, <2>3, <3>1, <3>3 DEF Arrived
    <3> QED
      BY <3>2, <3>3
  <2> QED
    BY <1>1, <2>1, <2>2, <2>3
<1>5. CASE phase' \in NotPassing \ {"astray"}
  BY <1>5, HoldsNext, KindOfFacts DEF NotPassing
<1>6. CASE PassSkip
  <2>1. /\ Passing /\ walk.timer # Nobody /\ ~Stale /\ UNCHANGED <<list, phase>>
        /\ walk' = [walk EXCEPT !.timer = Behind(s, walk.timer)] /\ walk \in Walks
    BY <1>6 DEF PassSkip, InPass, CurrentList, TypeOK
  <2>2. walk'.list = walk.list /\ walk'.timer = Behind(s, walk.timer)
    BY <2>1 DEF Walks
  <2>3. k \in Kinds /\ walk.list \in Keys /\ Within(s, walk.timer)
    BY <2>1, HoldsNow
  <2>4. s \in Seq(Tasks) /\ NoRepeats(s)
    BY <2>3, Registered
  <2>5. Behind(s, walk.timer) # Nobody => Within(s, Behind(s, walk.timer))
    BY <2>3, <2>4, BehindFacts
  <2> QED
    BY <1>0, <2>1, <2>2, <2>5, HoldsNext
<1>7. CASE PassWake
  <2>1. /\ Passing /\ walk.timer # Nobody /\ ~Stale /\ phase' = phase
        /\ walk' = [walk EXCEPT !.timer = Behind(s, walk.timer), !.count = 1]
        /\ list' = [list EXCEPT ![k][walk.list] = Without(@, walk.timer)] /\ walk \in Walks
    BY <1>7 DEF PassWake, InPass, CurrentList, TypeOK
  <2>2. walk'.list = walk.list /\ walk'.timer = Behind(s, walk.timer)
    BY <2>1 DEF Walks
  <2>3. k \in Kinds /\ walk.list \in Keys /\ Within(s, walk.timer)
    BY <2>1, HoldsNow
  <2>4. s \in Seq(Tasks) /\ NoRepeats(s)
    BY <2>3, Registered
  <2>5. Behind(s, walk.timer) # Nobody =>
            Within(s, Behind(s, walk.timer)) /\ Behind(s, walk.timer) # walk.timer
    BY <2>3, <2>4, BehindFacts
  <2>6. list'[k][walk.list] = Without(s, walk.timer)
    BY <2>1, <2>3 DEF TypeOK
  <2>7. Behind(s, walk.timer) # Nobody =>
            Within(list'[k][walk.list], Behind(s, walk.timer))
    BY <2>3, <2>4, <2>5, <2>6, WithoutFacts
  <2> QED
    BY <1>0, <2>1, <2>2, <2>7, HoldsNext
<1>8. CASE PassList
  <2>1. Passing /\ UNCHANGED <<list, phase>> /\ walk' \in Walks /\ k \in Kinds
    BY <1>8, ListEffect DEF PassList
  <2>2. walk'.timer # Nobody =>
            walk'.list # Null /\ walk'.timer = Front(list[k][walk'.list])
    BY <1>8 DEF PassList, Visit
  <2>3. walk'.list # Null => list[k][walk'.list] \in Seq(Tasks)
    BY <2>1 DEF Walks, TypeOK
  <2> QED
    BY <1>0, <2>1, <2>2, <2>3, FrontFacts, HoldsNext
<1>9. ASSUME NEW f \in DOMAIN KindOf, StartPass(f), UNCHANGED list PROVE SavedTimer'
  <2>1. /\ phase' = f /\ KindOf[f] \in Kinds /\ f # "astray"
        /\ VisitOf(walk', KindOf[f], TreeFirst(tree[KindOf[f]]), tree[KindOf[f]], {}, 0)
    BY <1>9, StartEffect, KindOfFacts
  <2>2. walk'.timer # Nobody =>
            /\ walk'.list \in Keys
            /\ walk'.timer = Front(list[KindOf[f]][walk'.list])
    BY <2>1 DEF VisitOf, Walks
  <2>3. walk'.list \in Keys => list[KindOf[f]][walk'.list] \in Seq(Tasks)
    BY <2>1 DEF TypeOK
  <2> QED
    BY <1>9, <2>1, <2>2, <2>3, FrontFacts, HoldsNext
<1>10. CASE PassAstray
  <2>1. Stale /\ Passing /\ phase' = "astray" /\ UNCHANGED <<walk, place>>
    BY <1>10 DEF PassAstray, Stale
  <2> QED
    BY <2>1, KindOfFacts DEF SavedTimer, Stale, Passing
<1>11. CASE QuietData /\ UNCHANGED <<phase, walk>>
  BY <1>11 DEF QuietData, SavedTimer, Stale, Passing, CurrentList
<1> QED
  <2>1. \A t \in Tasks : Event(t) => phase' \in NotPassing \ {"astray"}
    BY DEF Event, NotPassing
  <2>2. EnterWait => phase' \in NotPassing \ {"astray"}
    BY DEF EnterWait, NotPassing
  <2>3. phase' \in {"event", "gone"} => phase' \in NotPassing \ {"astray"}
    BY DEF NotPassing
  <2>4. QuietData => list' = list
    BY DEF QuietData
  <2> QED
    BY <1>2, <1>3, <1>4, <1>5, <1>6, <1>7, <1>8, <1>9, <1>10, <1>11, <2>1, <2>2, <2>3, <2>4,
       AllSteps

-----------------------------------------------------------------------------
(* What becomes of a task and its timer in a step. *)
LEMMA Fate ==
    ASSUME TypeOK, TimersRegistered, WalkValid, Control, [Next]_vars, NEW u \in Tasks
    PROVE  \/ place'[u] \notin Kinds
           \/ place'[u] = place[u] /\ issued'[u] = issued[u] /\ period'[u] = period[u]
           \/ \E k \in Kinds, p \in Keys :
                 /\ Suspend(u, k, p) /\ place'[u] = k /\ period'[u] = p
                 /\ issued'[u] = IF k = "idle" THEN 0 ELSE clock
<1>0. place \in [Tasks -> Places]
      /\ "run" \notin Kinds /\ "out" \notin Kinds /\ "wait" \notin Kinds
  BY DEF TypeOK, Kinds
<1>1. ASSUME NEW t \in Tasks, NEW k \in Kinds, NEW p \in Keys, Suspend(t, k, p)
      PROVE  \/ place'[u] = place[u] /\ issued'[u] = issued[u] /\ period'[u] = period[u]
             \/ /\ Suspend(u, k, p) /\ place'[u] = k /\ period'[u] = p
                /\ issued'[u] = IF k = "idle" THEN 0 ELSE clock
  <2>1. place' = [place EXCEPT ![t] = k] /\ TimerSet(t, k, p)
    BY <1>1, SetTimerEffect DEF Suspend
  <2>2. CASE u = t
    BY <1>0, <1>1, <2>1, <2>2 DEF TimerSet
  <2>3. CASE u # t
    BY <1>0, <2>1, <2>3 DEF TimerSet
  <2> QED
    BY <2>2, <2>3
<1>2. ASSUME NEW t \in Tasks, SuspendUntimed(t)
      PROVE  \/ place'[u] \notin Kinds
             \/ place'[u] = place[u] /\ issued'[u] = issued[u] /\ period'[u] = period[u]
  BY <1>0, <1>2 DEF SuspendUntimed
<1>3. ASSUME NEW t \in Tasks, NEW v \in Tasks, Signal(t, v)
      PROVE  \/ place'[u] \notin Kinds
             \/ place'[u] = place[u] /\ issued'[u] = issued[u] /\ period'[u] = period[u]
  <2>1. place' = [place EXCEPT ![t] = "out", ![v] = "out"] /\ Arrived(v)
    BY <1>3, ArriveEffect DEF Signal
  <2> QED
    BY <1>0, <2>1 DEF Arrived
<1>4. ASSUME NEW t \in Tasks, Event(t)
      PROVE  \/ place'[u] \notin Kinds
             \/ place'[u] = place[u] /\ issued'[u] = issued[u] /\ period'[u] = period[u]
  <2>1. place' = [place EXCEPT ![t] = "run"] /\ Arrived(t)
    BY <1>4, ArriveEffect DEF Event
  <2> QED
    BY <1>0, <2>1 DEF Arrived
<1>5. ASSUME PassWake
      PROVE  \/ place'[u] \notin Kinds
             \/ place'[u] = place[u] /\ issued'[u] = issued[u] /\ period'[u] = period[u]
  BY <1>0, <1>5, WakeEffect
<1>6. UNCHANGED <<place, issued, period>>
        => place'[u] = place[u] /\ issued'[u] = issued[u] /\ period'[u] = period[u]
  OBVIOUS
<1> QED
  BY <1>1, <1>2, <1>3, <1>4, <1>5, <1>6, Steps DEF PassList, QuietData

LEMMA IdlesStep ==
    ASSUME TypeOK, TimersRegistered, WalkValid, Control, IdlesUntimed, [Next]_vars
    PROVE  IdlesUntimed'
<1> SUFFICES ASSUME NEW u \in Tasks, place'[u] \in Kinds
             PROVE  issued'[u] = 0 <=> place'[u] = "idle"
  BY DEF IdlesUntimed
<1>1. clock # 0
  BY TimerAssumption DEF TypeOK
<1>2. CASE place'[u] = place[u] /\ issued'[u] = issued[u]
  BY <1>2 DEF IdlesUntimed
<1>3. ASSUME NEW k \in Kinds, place'[u] = k, issued'[u] = IF k = "idle" THEN 0 ELSE clock
      PROVE  issued'[u] = 0 <=> place'[u] = "idle"
  BY <1>1, <1>3
<1> QED
  BY <1>2, <1>3, Fate

(* The lists of the sleeps *)
LEMMA SleepListsStep ==
    ASSUME TypeOK, TimersRegistered, WalkValid, Control, SavedTimer, SleepListsFull,
           [Next]_vars
    PROVE  SleepListsFull'
<1> DEFINE Empty(p) == p \in Held(tree["sleep"]) /\ list["sleep"][p] = <<>>
<1>0. /\ \A p \in Keys : Empty(p) => phase \in {"sleep", "endSleep"} /\ walk.list = p
                                        /\ walk.count = 1
      /\ "sleep" \in Kinds
  BY DEF SleepListsFull, Kinds
<1> SUFFICES ASSUME NEW p \in Keys, p \in Held(tree'["sleep"]), list'["sleep"][p] = <<>>
             PROVE  phase' \in {"sleep", "endSleep"} /\ walk'.list = p /\ walk'.count = 1
  BY DEF SleepListsFull, Held
<1>1. ASSUME NEW t \in Tasks, NEW k \in Kinds, NEW q \in Keys, Suspend(t, k, q)
      PROVE  Empty(p) /\ UNCHANGED phase /\ walk'.list = walk.list
                 /\ walk'.count = walk.count
  <2>1. phase' = phase /\ TimerSet(t, k, q)
    BY <1>1, SetTimerEffect DEF Suspend
  <2>2. walk'.list = walk.list /\ walk'.count = walk.count
    BY <2>1 DEF TimerSet
  <2>3. ~(k = "sleep" /\ q = p)
    <3>1. list[k][q] \in Seq(Tasks) /\ list'[k][q] = Append(list[k][q], t)
      BY <2>1, Registered DEF TimerSet
    <3>2. list'[k][q] # <<>>
      BY <3>1
    <3> QED
      BY <3>2
  <2>4. list'["sleep"][p] = list["sleep"][p]
    BY <1>0, <2>1, <2>3 DEF TimerSet
  <2>5. p \in Held(tree["sleep"])
    <3>1. CASE k = "sleep"
      BY <2>1, <2>3, <3>1 DEF TimerSet
    <3>2. CASE k # "sleep"
      BY <1>0, <2>1, <3>2 DEF TimerSet
    <3> QED
      BY <3>1, <3>2
  <2> QED
    BY <2>1, <2>2, <2>4, <2>5
<1>2. ASSUME NEW t \in Tasks, Arrive(t) PROVE Empty(p)
  <2>1. tree'["sleep"] = tree["sleep"] /\ list'["sleep"] = list["sleep"]
    BY <1>0, <1>2, ArriveEffect DEF Arrived
  <2> QED
    BY <2>1
<1>3. ASSUME UNCHANGED <<tree, list>> PROVE Empty(p)
  BY <1>3
<1>4. CASE PassWake
  <2>1. /\ phase' = phase /\ walk'.list = walk.list /\ walk'.count = 1
        /\ tree' = tree /\ Passing
        /\ list' = [list EXCEPT ![KindOf[phase]][walk.list] = Without(@, walk.timer)]
    BY <1>4, WakeEffect
  <2>2. CASE KindOf[phase] = "sleep" /\ walk.list = p
    BY <2>1, <2>2, KindOfFacts DEF Passing, KindOf
  <2>3. CASE KindOf[phase] # "sleep" \/ walk.list # p
    <3>1. list'["sleep"][p] = list["sleep"][p]
      BY <1>0, <2>1, <2>3 DEF TypeOK
    <3>2. Empty(p)
      BY <2>1, <3>1
    <3> QED
      BY <1>0, <2>1, <3>2
  <2> QED
    BY <2>2, <2>3
<1>5. CASE PassList
  <2>1. /\ phase' = phase /\ list' = list /\ walk.list \in Held(tree[KindOf[phase]])
        /\ KindOf[phase] \in Kinds /\ Passing
        /\ Held(tree'[KindOf[phase]])
              = (IF list[KindOf[phase]][walk.list] = <<>>
                 THEN Held(tree[KindOf[phase]]) \ {walk.list} ELSE Held(tree[KindOf[phase]]))
        /\ \A j \in Kinds \ {KindOf[phase]} : tree'[j] = tree[j]
    BY <1>5, ListEffect DEF PassList
  <2>2. CASE KindOf[phase] = "sleep"
    <3>1. Empty(p)
      BY <2>1, <2>2
    <3> QED
      BY <1>0, <2>1, <2>2, <3>1
  <2>3. CASE KindOf[phase] # "sleep"
    <3>1. Empty(p)
      BY <1>0, <2>1, <2>3
    <3>2. KindOf[phase] = "sleep"
      BY <1>0, <3>1, KindOfFacts
    <3> QED
      BY <2>3, <3>2
  <2> QED
    BY <2>2, <2>3
<1>6. CASE PassSkip
  <2>1. Empty(p) /\ phase' = phase
    BY <1>6 DEF PassSkip
  <2> QED
    BY <1>0, <1>6, <2>1, SkipEffect
<1>7. CASE Between /\ UNCHANGED <<tree, list>>
  <2>1. Empty(p)
    BY <1>7
  <2>2. walk.list = p /\ Passing
    BY <1>0, <2>1, KindOfFacts DEF Passing
  <2> QED
    BY <1>7, <2>2, KeysAssumption DEF Between, Null
<1>8. CASE UNCHANGED <<tree, list, phase, walk>>
  BY <1>0, <1>3, <1>8
<1>9. ASSUME NEW t \in Tasks, NEW u \in Tasks, Signal(t, u)
      PROVE  phase' \in {"sleep", "endSleep"} /\ walk'.list = p /\ walk'.count = 1
  BY <1>0, <1>2, <1>9 DEF Signal
<1>10. \A t \in Tasks : ~Event(t)
  BY <1>0, <1>2 DEF Event
<1>11. \A t \in Tasks : SuspendUntimed(t) => UNCHANGED <<tree, list, phase, walk>>
  BY DEF SuspendUntimed
<1>12. EnterWait => Between /\ UNCHANGED <<tree, list>>
  BY DEF EnterWait, PassOver, InPass, Between
<1>13. QuietData => UNCHANGED <<tree, list>>
  BY DEF QuietData
<1>14. ASSUME NEW t \in Tasks, NEW k \in Kinds, NEW q \in Keys, Suspend(t, k, q)
       PROVE  phase' \in {"sleep", "endSleep"} /\ walk'.list = p /\ walk'.count = 1
  BY <1>0, <1>1, <1>14
<1>15. ~PassAstray
  BY <1>0, <1>2, KindOfFacts DEF PassAstray, SavedTimer
<1> HIDE DEF Empty
<1> QED
  BY <1>15, <1>4, <1>5, <1>6, <1>7, <1>8, <1>9, <1>10, <1>11, <1>12, <1>13, <1>14, AllSteps

(* The first timer of a list of the tree's first period. *)
HeadOf(k) == Head(list[k][TreeFirst(tree[k])])

(* A list of sleeps of the tree has a head when no pass has woken a task. *)
LEMMA SleepHead ==
    ASSUME TypeOK, TimersRegistered, SleepListsFull, TreeFirst(tree["sleep"]) # Null,
           phase = "sleep" => walk.count = 0 \/ walk.list = Null,
           phase = "endSleep" => walk.list = Null
    PROVE  /\ TreeFirst(tree["sleep"]) \in Keys
           /\ list["sleep"][TreeFirst(tree["sleep"])] \in Seq(Tasks) \ {<<>>}
           /\ HeadOf("sleep") \in Tasks
           /\ place[HeadOf("sleep")] = "sleep"
           /\ HeadOf("sleep") = Front(list["sleep"][TreeFirst(tree["sleep"])])
<1> DEFINE p == TreeFirst(tree["sleep"])
<1> DEFINE s == list["sleep"][p]
<1>1. /\ "sleep" \in Kinds /\ p \in Keys /\ p \in Held(tree["sleep"])
      /\ p # Null
  BY FirstHeld DEF TypeOK, Kinds
<1>2. s \in Seq(Tasks) /\ \A t \in Tasks : Within(s, t) => place[t] = "sleep"
  BY <1>1, Registered
<1>3. s # <<>>
  <2> SUFFICES ASSUME s = <<>> PROVE FALSE
    OBVIOUS
  <2>1. phase \in {"sleep", "endSleep"} /\ walk.list = p /\ walk.count = 1
    BY <1>1 DEF SleepListsFull
  <2> QED
    BY <1>1, <2>1
<1>4. HeadOf("sleep") = s[1]
  BY <1>2, <1>3 DEF HeadOf
<1> HIDE DEF s
<1>5. 1 \in DOMAIN s /\ s[1] \in Tasks
  BY <1>2, <1>3
<1>6. Within(s, s[1])
  BY <1>5 DEF Within
<1>7. HeadOf("sleep") = Front(s)
  BY <1>3, <1>4 DEF Front
<1> QED
  BY <1>1, <1>2, <1>3, <1>4, <1>5, <1>6, <1>7 DEF s

(* A timer that is not due was set before now: value - issued wraps around *)
(* to more than any period otherwise.                                      *)
LEMMA NotDuePast ==
    ASSUME TypeOK, IdlesUntimed, phase = "sleep", NEW t \in Tasks, place[t] = "sleep",
           walk.list \in Keys, ~Due(t)
    PROVE  issued[t] <= now
<1>1. /\ issued[t] \in Epoch..clock /\ now \in Epoch..clock
      /\ clock \in Epoch..(Epoch + Horizon)
  BY DEF IdlesUntimed, TypeOK, Kinds
<1>2. /\ Epoch \in Nat /\ Horizon \in Nat /\ Horizon < 128
      /\ walk.list \in Nat /\ walk.list <= Word - 256
  <2>1. Horizon < 128 /\ \A p \in Keys : p <= Word - 256
    BY TimesAssumption DEF IntRange
  <2> QED
    BY <2>1, TimerAssumption, KeysAssumption
<1>3. Sub(now, issued[t]) < walk.list
  <2>1. ~(Sub(now, issued[t]) >= walk.list)
    BY DEF Due
  <2>2. Sub(now, issued[t]) \in Nat
    <3>1. now \in Nat /\ issued[t] \in Nat
      BY <1>1, <1>2
    <3> QED
      BY <3>1, SubFacts
  <2> QED
    BY <1>2, <2>1, <2>2
<1>4. now < issued[t] /\ issued[t] - now < Word => Sub(now, issued[t]) = now - issued[t] + Word
  <2>1. now \in Nat /\ issued[t] \in Nat
    BY <1>1, <1>2
  <2> QED
    BY <2>1, SubFacts
<1> QED
  BY <1>1, <1>2, <1>3, <1>4 DEF Word

LEMMA FirstSleepStep ==
    ASSUME TypeOK, TimersRegistered, WalkValid, Control, IdlesUntimed, SleepListsFull,
           FirstSleepPast, [Next]_vars
    PROVE  FirstSleepPast'
<1> SUFFICES ASSUME phase' = "sleep", walk'.count = 0, TreeFirst(tree'["sleep"]) # Null
             PROVE  \/ /\ walk'.list = TreeFirst(tree'["sleep"])
                       /\ walk'.timer = Head(list'["sleep"][TreeFirst(tree'["sleep"])])
                    \/ issued'[Head(list'["sleep"][TreeFirst(tree'["sleep"])])] <= now'
  BY DEF FirstSleepPast
<1> DEFINE p == TreeFirst(tree["sleep"])
<1>0. "sleep" \in DOMAIN KindOf /\ "sleep" \in Kinds /\ KindOf["sleep"] = "sleep"
  BY KindOfFacts DEF Kinds
<1>1. ASSUME ~LoopRuns, UNCHANGED phase, walk'.count = walk.count PROVE FALSE
  BY <1>0, <1>1 DEF Control, Passing
<1>2. ASSUME NEW t \in Tasks, NEW k \in Kinds, NEW q \in Keys PROVE ~Suspend(t, k, q)
  <2> SUFFICES ASSUME Suspend(t, k, q) PROVE FALSE
    OBVIOUS
  <2>1. phase' = phase /\ TimerSet(t, k, q) /\ ~LoopRuns
    BY SetTimerEffect, TimerAssumption DEF Suspend, LoopRuns
  <2>2. walk'.count = walk.count
    BY <2>1 DEF TimerSet
  <2> QED
    BY <1>1, <2>1, <2>2
<1>3. ASSUME NEW t \in Tasks PROVE ~SuspendUntimed(t) /\ ~Event(t)
  BY <1>1, TimerAssumption DEF SuspendUntimed, Event, LoopRuns
<1>4. ASSUME NEW t \in Tasks, NEW u \in Tasks PROVE ~Signal(t, u)
  BY <1>1, TimerAssumption DEF Signal, LoopRuns
<1>5. ~PassWake
  <2> SUFFICES ASSUME PassWake PROVE FALSE
    OBVIOUS
  <2>1. walk'.count = 1
    BY WakeEffect
  <2> QED
    BY <2>1
<1>6. ~PassSkip
  <2> SUFFICES ASSUME PassSkip PROVE FALSE
    OBVIOUS
  <2>1. walk'.count = walk.count /\ walk.timer \in walk.fresh /\ Passing
    BY SkipEffect
  <2> QED
    BY <2>1 DEF Control
<1>7. CASE PassList
  <2>1. phase = "sleep" /\ walk.count = 0 /\ UNCHANGED <<list, issued, now, phase>>
    BY <1>7, ListEffect DEF PassList
  <2>2. walk.list \in Keys /\ walk.list \in Held(tree["sleep"])
    BY <1>0, <1>7, <2>1, ListEffect
  <2>3. list["sleep"][walk.list] # <<>>
    BY <2>1, <2>2 DEF SleepListsFull
  <2>4. tree' = tree
    BY <1>0, <1>7, <2>1, <2>3, ListEffect
  <2>5. CASE issued[Head(list["sleep"][p])] <= now
    BY <2>1, <2>4, <2>5
  <2>6. CASE walk.list = p /\ walk.timer = Head(list["sleep"][p])
    <3>1. /\ walk.timer \in Tasks /\ place[walk.timer] = "sleep"
          /\ walk.timer = HeadOf("sleep")
      BY <2>1, <2>4, <2>6, SleepHead DEF HeadOf
    <3>2. ~Due(walk.timer)
      BY <1>7, <3>1, TimerAssumption DEF PassList
    <3>3. issued[walk.timer] <= now
      BY <2>1, <2>2, <3>1, <3>2, NotDuePast
    <3> QED
      BY <2>1, <2>4, <3>1, <3>3 DEF HeadOf
  <2> QED
    BY <2>1, <2>4, <2>5, <2>6 DEF FirstSleepPast
<1>8. ~EnterWait
  BY DEF EnterWait
<1>9. ASSUME QuietData, Between, NEW f \in DOMAIN KindOf, StartPass(f)
      PROVE  /\ walk'.list = TreeFirst(tree'["sleep"])
             /\ walk'.timer = Head(list'["sleep"][TreeFirst(tree'["sleep"])])
  <2>1. f = "sleep" /\ VisitOf(walk', "sleep", p, tree["sleep"], {}, 0)
    BY <1>0, <1>9, StartEffect
  <2>2. UNCHANGED <<tree, list>>
    BY <1>9 DEF QuietData
  <2>3. /\ phase = "sleep" => walk.list = Null
        /\ phase = "endSleep" => walk.list = Null
    BY <1>9, KindOfFacts DEF Between, Passing
  <2>4. HeadOf("sleep") = Front(list["sleep"][p])
    BY <2>2, <2>3, SleepHead
  <2> QED
    BY <2>1, <2>2, <2>4 DEF VisitOf, HeadOf
<1>10. phase' \notin {"event", "gone"}
  OBVIOUS
<1>11. CASE QuietData /\ UNCHANGED <<now, phase, walk, deadline>>
  BY <1>11 DEF QuietData, FirstSleepPast
<1>12. ~PassAstray
  BY DEF PassAstray
<1> QED
  BY <1>2, <1>3, <1>4, <1>5, <1>6, <1>7, <1>8, <1>9, <1>10, <1>11, <1>12, AllSteps

(* A pass over the sleeps goes on with the same time, or is the first of a *)
(* round, for which Windows reads the clock.                               *)
LEMMA SleepPhase ==
    ASSUME TypeOK, WalkValid, Control, [Next]_vars, phase' = "sleep"
    PROVE  \/ phase = "sleep" /\ now' = now /\ walk.fresh \subseteq walk'.fresh
           \/ QuietData /\ (platform = "win" => now' = clock)
<1>1. ASSUME NEW t \in Tasks, NEW k \in Kinds, NEW p \in Keys, Suspend(t, k, p)
      PROVE  phase = "sleep" /\ now' = now /\ walk.fresh \subseteq walk'.fresh
  <2>1. UNCHANGED <<phase, now>> /\ TimerSet(t, k, p)
    BY <1>1, SetTimerEffect DEF Suspend
  <2>2. walk.fresh \subseteq walk'.fresh
    BY <2>1 DEF TimerSet
  <2> QED
    BY <2>1, <2>2
<1>2. CASE UNCHANGED <<now, phase, walk>>
  BY <1>2
<1>3. CASE PassSkip
  BY <1>3, SkipEffect DEF PassSkip
<1>4. CASE PassWake
  <2>1. walk' = [walk EXCEPT !.timer = Behind(CurrentList, walk.timer), !.count = 1]
        /\ UNCHANGED <<phase, now>>
    BY <1>4 DEF PassWake
  <2> QED
    BY <2>1 DEF TypeOK, Walks
<1>5. CASE PassList
  BY <1>5, ListEffect DEF PassList
<1>6. CASE TimeoutsDone
  BY <1>6 DEF TimeoutsDone, QuietData
<1>7. CASE Interrupted
  BY <1>7 DEF Interrupted, QuietData
<1>8. ASSUME NEW f \in DOMAIN KindOf, f # "sleep" PROVE ~StartPass(f)
  BY <1>8 DEF StartPass
<1>9. ~EventsDone /\ ~IdlesDone /\ ~TimedOut /\ ~Stopped /\ ~EndPassDone
  BY <1>8, KindOfFacts DEF EventsDone, IdlesDone, TimedOut, Stopped, EndPassDone
<1>10. ~EnterWait /\ ~EventsCame /\ ~PassAstray /\ \A t \in Tasks : ~Event(t)
  BY DEF EnterWait, EventsCame, PassAstray, Event
<1>11. ASSUME NEW t \in Tasks PROVE SuspendUntimed(t) => UNCHANGED <<now, phase, walk>>
  BY DEF SuspendUntimed
<1>12. ASSUME NEW t \in Tasks, NEW u \in Tasks
       PROVE  Signal(t, u) => UNCHANGED <<now, phase, walk>>
  BY DEF Signal
<1>13. Tick \/ UNCHANGED vars => UNCHANGED <<now, phase, walk>>
  BY DEF Tick, vars
<1> QED
  BY <1>1, <1>2, <1>3, <1>4, <1>5, <1>6, <1>7, <1>9, <1>10, <1>11, <1>12, <1>13
  DEF Next, TaskStep, LoopStep

LEMMA WindowsStep ==
    ASSUME TypeOK, TimersRegistered, WalkValid, Control, SleepsPastOnWindows, TypeOK',
           [Next]_vars
    PROVE  SleepsPastOnWindows'
<1>1. platform' = platform
  BY DEF Next, TaskStep, LoopStep, vars, Suspend, SuspendUntimed, Signal, PassSkip, PassWake,
         PassList, EnterWait, TimedOut, EventsCame, Event, EventsDone, IdlesDone, TimeoutsDone,
         Interrupted, Stopped, EndPassDone, Tick, PassAstray
<1> SUFFICES ASSUME platform = "win", phase' = "sleep",
                    NEW t \in Tasks, t \notin walk'.fresh, place'[t] = "sleep"
             PROVE  issued'[t] <= now'
  BY <1>1 DEF SleepsPastOnWindows
<1>2. issued[t] <= clock
  BY TimerAssumption DEF TypeOK
<1>3. CASE QuietData /\ now' = clock
  BY <1>2, <1>3 DEF QuietData
<1>4. CASE phase = "sleep" /\ now' = now /\ walk.fresh \subseteq walk'.fresh
  <2>1. CASE place[t] = "sleep" /\ issued'[t] = issued[t]
    BY <1>4, <2>1 DEF SleepsPastOnWindows
  <2>2. ASSUME NEW p \in Keys, Suspend(t, "sleep", p) PROVE FALSE
    <3>1. "sleep" \in Kinds /\ Passing /\ KindOf[phase] = "sleep"
      BY <1>4, KindOfFacts DEF Passing, Kinds
    <3>2. TimerSet(t, "sleep", p)
      BY <2>2, <3>1, SetTimerEffect DEF Suspend
    <3> QED
      BY <3>1, <3>2 DEF TimerSet
  <2> QED
    BY <2>1, <2>2, Fate DEF Kinds
<1> QED
  BY <1>3, <1>4, SleepPhase

-----------------------------------------------------------------------------
(* The invariant *)

LEMMA TimerInit == Init => TimerInv
<1> SUFFICES ASSUME Init PROVE TimerInv
  OBVIOUS
<1>1. NewTree \in Trees /\ TreeFirst(NewTree) = Null /\ Held(NewTree) = {}
  BY EmptyAssumption, FirstAssumption
<1>2. TypeOK
  BY <1>1, TimerAssumption DEF Init, TypeOK, Places, Phases, Kinds, Walks, NoWalk
<1>3. TimersRegistered
  BY KeysAssumption DEF Init, TimersRegistered, Kinds, Null
<1>4. WalkValid
  BY DEF Init, WalkValid, NoWalk
<1>5. Control
  BY TimerAssumption DEF Init, Control, NoWalk, LoopRuns
<1>6. IdlesUntimed
  BY DEF Init, IdlesUntimed, Kinds
<1>7. SleepListsFull
  BY <1>1 DEF Init, SleepListsFull, Kinds
<1>8. FirstSleepPast
  BY <1>1 DEF Init, FirstSleepPast, Kinds
<1>9. SleepsPastOnWindows
  BY DEF Init, SleepsPastOnWindows
<1>10. SavedTimer
  BY DEF Init, SavedTimer, Stale, NoWalk
<1> QED
  BY <1>2, <1>3, <1>4, <1>5, <1>6, <1>7, <1>8, <1>9, <1>10 DEF TimerInv

LEMMA TimerStep == TimerInv /\ [Next]_vars => TimerInv'
<1> SUFFICES ASSUME TimerInv, [Next]_vars PROVE TimerInv'
  OBVIOUS
<1>1. TypeOK /\ TimersRegistered /\ WalkValid /\ Control
  BY DEF TimerInv
<1>2. TypeOK'
  BY <1>1, TypeStep
<1>3. TimersRegistered'
  BY <1>1, <1>2, RegisteredStep
<1>4. WalkValid'
  BY <1>1, <1>2, WalkStep
<1>5. Control'
  BY <1>1, ControlStep
<1>6. IdlesUntimed'
  BY <1>1, IdlesStep DEF TimerInv
<1>7. SleepListsFull'
  BY <1>1, SleepListsStep DEF TimerInv
<1>8. FirstSleepPast'
  BY <1>1, FirstSleepStep DEF TimerInv
<1>9. SleepsPastOnWindows'
  BY <1>1, <1>2, WindowsStep DEF TimerInv
<1>10. SavedTimer'
  BY <1>1, <1>2, <1>4, SavedStep DEF TimerInv
<1> QED
  BY <1>2, <1>3, <1>4, <1>5, <1>6, <1>7, <1>8, <1>9, <1>10 DEF TimerInv

(* What a pass of api_timer_process finds after any task it wakes has set, *)
(* dropped or cancelled timers: the lists hold the timers of the suspended *)
(* tasks and no others, the pass's next list is in the tree and later than *)
(* its current one, and the timer it saved is in its list still, or is one *)
(* of the timeouts, of a task that was signalled and ended meanwhile.      *)
THEOREM TimersStayRegistered == Spec => []TimerInv
BY TimerInit, TimerStep, PTL DEF Spec

-----------------------------------------------------------------------------
(* The lists in the order of expiry *)

(* A step other than a Suspend only takes timers out of a list.            *)
LEMMA Dwindles ==
    ASSUME TypeOK, TimersRegistered, WalkValid, Control, [Next]_vars,
           \A t \in Tasks, k \in Kinds, p \in Keys : ~Suspend(t, k, p),
           NEW k \in Kinds, NEW p \in Keys
    PROVE  Later(list[k][p], list'[k][p])
<1>1. list' = list => Later(list[k][p], list'[k][p])
  BY DEF Later
<1>2. \A t \in Tasks : Arrive(t) => Later(list[k][p], list'[k][p])
  BY ArriveEffect DEF Arrived
<1>3. ASSUME PassWake PROVE Later(list[k][p], list'[k][p])
  <2>1. TakenOut(walk.timer, KindOf[phase], walk.list)
    BY <1>3, WakeEffect, TakeOut
  <2> QED
    BY <2>1 DEF TakenOut
<1>4. \A t \in Tasks : SuspendUntimed(t) => list' = list
  BY DEF SuspendUntimed
<1>5. \A t, u \in Tasks : Signal(t, u) => Arrive(u)
  BY DEF Signal
<1>6. \A t \in Tasks : Event(t) => Arrive(t)
  BY DEF Event
<1>7. PassList \/ QuietData => list' = list
  BY DEF PassList, QuietData
<1> QED
  BY <1>1, <1>2, <1>3, <1>4, <1>5, <1>6, <1>7, Steps

LEMMA OrderStep ==
    ASSUME TimerInv, TimerInv', ListsInOrder, [Next]_vars
    PROVE  ListsInOrder'
<1>0. /\ TypeOK /\ TimersRegistered /\ WalkValid /\ Control /\ IdlesUntimed
      /\ TypeOK' /\ TimersRegistered'
  BY DEF TimerInv
<1> SUFFICES ASSUME NEW k \in Kinds, NEW p \in Keys,
                    NEW i \in 1..Len(list'[k][p]), NEW j \in 1..Len(list'[k][p]), i < j
             PROVE  issued'[list'[k][p][i]] <= issued'[list'[k][p][j]]
  BY DEF ListsInOrder
<1>1. /\ list[k][p] \in Seq(Tasks) /\ list'[k][p] \in Seq(Tasks)
      /\ DOMAIN list[k][p] = 1..Len(list[k][p]) /\ DOMAIN list'[k][p] = 1..Len(list'[k][p])
      /\ list'[k][p][i] \in Tasks /\ list'[k][p][j] \in Tasks
      /\ \A x \in DOMAIN list[k][p] : list[k][p][x] \in Tasks
      /\ \A t \in Tasks : issued[t] \in Nat /\ issued[t] <= clock
      /\ clock \in Nat
  BY <1>0, TimerAssumption DEF TypeOK
<1>2. ASSUME \A u \in Tasks, q \in Keys : ~Suspend(u, k, q), NEW x \in 1..Len(list'[k][p])
      PROVE  issued'[list'[k][p][x]] = issued[list'[k][p][x]]
  <2> DEFINE t == list'[k][p][x]
  <2>1. t \in Tasks /\ place'[t] = k
    BY <1>0, <1>1, <1>2 DEF TimersRegistered
  <2> HIDE DEF t
  <2>2. issued'[t] = issued[t]
    BY <1>0, <1>2, <2>1, Fate
  <2> QED
    BY <2>2 DEF t
<1>3. ASSUME Later(list[k][p], list'[k][p]), \A u \in Tasks, q \in Keys : ~Suspend(u, k, q)
      PROVE  issued'[list'[k][p][i]] <= issued'[list'[k][p][j]]
  <2>1. PICK x \in DOMAIN list[k][p], y \in DOMAIN list[k][p] :
               x < y /\ list[k][p][x] = list'[k][p][i] /\ list[k][p][y] = list'[k][p][j]
    <3> DEFINE s == list[k][p]
    <3> DEFINE w == list'[k][p]
    <3>1. Later(s, w) /\ i \in DOMAIN w /\ j \in DOMAIN w /\ i < j
      BY <1>1, <1>3
    <3> HIDE DEF s, w
    <3>2. \E x, y \in DOMAIN s : x < y /\ s[x] = w[i] /\ s[y] = w[j]
      BY <3>1 DEF Later
    <3> QED
      BY <3>2 DEF s, w
  <2>2. issued[list[k][p][x]] <= issued[list[k][p][y]]
    BY <1>1, <2>1 DEF ListsInOrder
  <2> QED
    BY <1>2, <1>3, <2>1, <2>2
<1>4. ASSUME NEW t \in Tasks, NEW m \in Kinds, NEW q \in Keys, Suspend(t, m, q)
      PROVE  issued'[list'[k][p][i]] <= issued'[list'[k][p][j]]
  <2> DEFINE s == list[k][p]
  <2>1. TimerSet(t, m, q) /\ place[t] = "run"
    BY <1>0, <1>4, SetTimerEffect DEF Suspend, Control
  <2>2. \A u \in Tasks \ {t} : issued'[u] = issued[u]
    BY <2>1 DEF TimerSet
  <2>3. ~Within(s, t)
    BY <1>0, <2>1, Registered DEF Kinds
  <2>4. \A x \in 1..Len(s) : s[x] # t /\ s[x] \in Tasks
    BY <1>1, <2>3 DEF Within
  <2>5. \A x, y \in 1..Len(s) : x < y => issued'[s[x]] <= issued'[s[y]]
    BY <2>2, <2>4 DEF ListsInOrder
  <2>6. CASE m # k \/ q # p
    <3>1. list'[k][p] = s
      BY <2>1, <2>6 DEF TimerSet
    <3> QED
      BY <2>5, <3>1
  <2>7. CASE m = k /\ q = p
    <3>1. list'[k][p] = Append(s, t) /\ issued'[t] = IF k = "idle" THEN 0 ELSE clock
      BY <2>1, <2>7 DEF TimerSet
    <3> HIDE DEF s
    <3>2. /\ Len(list'[k][p]) = Len(s) + 1 /\ list'[k][p][Len(s) + 1] = t
          /\ \A x \in 1..Len(s) : list'[k][p][x] = s[x]
          /\ Len(s) \in Nat /\ s \in Seq(Tasks)
      BY <1>1, <3>1 DEF s
    <3>3. i \in 1..Len(s) /\ list'[k][p][i] = s[i]
      BY <3>2
    <3>4. CASE j \in 1..Len(s)
      BY <2>5, <3>2, <3>3, <3>4
    <3>5. CASE j = Len(s) + 1
      <4>1. issued[s[i]] <= issued'[t]
        <5>1. place[s[i]] = k
          BY <1>0, <1>1, <3>3 DEF s, TimersRegistered
        <5>2. k = "idle" => issued[s[i]] = 0
          BY <1>0, <2>4, <3>3, <5>1 DEF IdlesUntimed
        <5>3. issued[s[i]] <= clock
          BY <1>1, <2>4, <3>3
        <5> QED
          BY <3>1, <5>2, <5>3
      <4> QED
        BY <2>2, <2>4, <3>2, <3>3, <3>5, <4>1
    <3> QED
      BY <3>2, <3>4, <3>5
  <2> QED
    BY <2>6, <2>7
<1>5. CASE \A t \in Tasks, m \in Kinds, q \in Keys : ~Suspend(t, m, q)
  <2>1. Later(list[k][p], list'[k][p])
    BY <1>0, <1>5, Dwindles
  <2> QED
    BY <1>3, <1>5, <2>1
<1> QED
  BY <1>4, <1>5

(* Every list of timers is in the order of expiry, whatever order tasks    *)
(* are woken and set their timers again in: api_timer_process loses        *)
(* nothing when it stops at the first timer of a list that is not due.     *)
THEOREM ListsStayInOrder == Spec => []ListsInOrder
<1>1. Init => ListsInOrder
  BY KeysAssumption DEF Init, ListsInOrder, Kinds
<1> QED
  BY <1>1, OrderStep, TimersStayRegistered, PTL DEF Spec

-----------------------------------------------------------------------------
(* The wait for events *)

(* The loop comes to wait for events by epoll_wait alone, and no task runs *)
(* while it waits.                                                         *)
LEMMA ToWait ==
    ASSUME Control, [Next]_vars, phase' = "wait"
    PROVE  EnterWait \/ (phase = "wait" /\ UNCHANGED <<place, deadline>>)
<1>1. \A f \in DOMAIN KindOf : ~StartPass(f)
  BY KindOfFacts DEF StartPass
<1>2. CASE phase = "wait"
  <2>1. LoopRuns /\ ~Passing
    BY <1>2, KindOfFacts DEF Control, Passing
  <2>2. /\ \A t \in Tasks, k \in Kinds, p \in Keys : ~Suspend(t, k, p)
        /\ \A t \in Tasks : ~SuspendUntimed(t) /\ ~Event(t)
        /\ \A t, u \in Tasks : ~Signal(t, u)
    BY <1>2, <2>1, TimerAssumption DEF Suspend, SuspendUntimed, Signal, Event, LoopRuns
  <2>3. ~PassSkip /\ ~PassWake /\ ~PassList /\ ~PassAstray /\ ~EnterWait
    BY <1>2, <2>1 DEF PassSkip, PassWake, PassList, PassAstray, Stale, EnterWait, InPass
  <2> QED
    BY <1>1, <1>2, <2>2, <2>3, AllSteps DEF QuietData
<1>3. CASE phase # "wait"
  <2>1. ~UNCHANGED phase
    BY <1>3
  <2>2. /\ \A t \in Tasks, k \in Kinds, p \in Keys : ~Suspend(t, k, p)
        /\ \A t \in Tasks : ~SuspendUntimed(t) /\ ~Event(t)
        /\ \A t, u \in Tasks : ~Signal(t, u)
    BY <2>1 DEF Suspend, SuspendUntimed, Signal, Event
  <2>3. ~PassSkip /\ ~PassWake /\ ~PassList /\ ~PassAstray
    BY <2>1 DEF PassSkip, PassWake, PassList, PassAstray
  <2> QED
    BY <1>1, <2>1, <2>2, <2>3, AllSteps
<1> QED
  BY <1>2, <1>3

LEMMA WaitedStep ==
    ASSUME TimerInv, SleepersWaitedFor, [Next]_vars
    PROVE  SleepersWaitedFor'
<1>0. /\ TypeOK /\ TimersRegistered /\ Control /\ IdlesUntimed /\ SleepListsFull
      /\ FirstSleepPast
  BY DEF TimerInv
<1> SUFFICES ASSUME phase' = "wait", NEW t \in Tasks, place'[t] = "sleep"
             PROVE  deadline' # Never
  BY DEF SleepersWaitedFor
<1>1. CASE phase = "wait" /\ UNCHANGED <<place, deadline>>
  BY <1>1 DEF SleepersWaitedFor
<1>2. CASE EnterWait
  <2> DEFINE h == HeadOf("sleep")
  <2> DEFINE x == Least(Near("sleep", now'), Least(Near("idle", now'), Near("timeout", now')))
  <2>1. phase = "sleep" /\ walk.list = Null /\ place' = place /\ "sleep" \in Kinds
    BY <1>2 DEF EnterWait, PassOver, Kinds
  <2>2. TreeFirst(tree["sleep"]) # Null
    <3>1. period[t] \in Held(tree["sleep"])
      BY <1>0, <2>1, TimerPlaced
    <3> QED
      BY <1>0, <2>1, <3>1, FirstHeld DEF TypeOK
  <2>3. h \in Tasks /\ place[h] = "sleep" /\ TreeFirst(tree["sleep"]) \in Keys
    BY <1>0, <2>1, <2>2, SleepHead
  <2>4. issued[h] \in Epoch..clock /\ clock \in Epoch..(Epoch + Horizon) /\ now \in Epoch..clock
    BY <1>0, <2>1, <2>3 DEF IdlesUntimed, TypeOK
  <2>5. issued[h] <= now' /\ now' <= clock
    <3>1. CASE walk.count > 0
      BY <1>0, <1>2, <2>4, <3>1, EnterWaitEffect
    <3>2. CASE ~(walk.count > 0)
      <4>1. now' = now
        BY <1>0, <1>2, <3>2, EnterWaitEffect
      <4>2. walk.count = 0
        BY <1>0, <3>2 DEF TypeOK, Walks
      <4>3. TreeFirst(tree["sleep"]) # walk.list
        BY <2>1, <2>2
      <4>4. issued[h] <= now
        BY <1>0, <2>1, <2>2, <4>2, <4>3 DEF FirstSleepPast, HeadOf
      <4> QED
        BY <2>4, <4>1, <4>4
    <3> QED
      BY <3>1, <3>2
  <2>6. Epoch \in Nat /\ Horizon \in Nat /\ Horizon < 128
    BY TimerAssumption, TimesAssumption DEF IntRange
  <2>7. Near("sleep", now') = now' - issued[h]
    <3>1. Near("sleep", now') = Sub(now', issued[h])
      BY <2>2 DEF Near, HeadOf
    <3>2. now' \in Nat /\ issued[h] \in Nat /\ now' - issued[h] < Word
      BY <1>0, <1>2, <2>4, <2>5, <2>6, EnterWaitEffect DEF Word
    <3> QED
      BY <2>5, <3>1, <3>2, SubFacts
  <2>8. /\ x \in Nat
        /\ deadline' = (IF ToMilliseconds(x) = Never THEN Never ELSE clock + ToMilliseconds(x))
        /\ ~HeadMissing
    BY <1>0, <1>2, EnterWaitEffect
  <2>9. x <= Near("sleep", now')
    <3>1. /\ Near("sleep", now') \in Nat /\ Near("idle", now') \in Nat
          /\ Near("timeout", now') \in Nat
      <4>1. now' \in Nat
        BY <1>0, <1>2, <2>4, <2>6, EnterWaitEffect
      <4> QED
        BY <1>0, <2>8, <4>1, NearFacts DEF Kinds
    <3> QED
      BY <3>1 DEF Least
  <2> HIDE DEF x, h
  <2>10. x \in 0..127
    <3>1. now' \in Nat
      BY <1>0, <1>2, <2>4, <2>6, EnterWaitEffect
    <3>2. now' - issued[h] <= Horizon /\ now' - issued[h] \in Int
      BY <2>4, <2>5, <2>6, <3>1
    <3>3. x <= now' - issued[h] /\ x \in Nat
      BY <2>7, <2>8, <2>9
    <3> QED
      BY <2>6, <3>2, <3>3
  <2>11. ToMilliseconds(x) = x
    BY <2>10 DEF ToMilliseconds, IntRange
  <2> QED
    BY <2>4, <2>6, <2>8, <2>10, <2>11 DEF Never
<1> QED
  BY <1>0, <1>1, <1>2, ToWait

(* api_loop_calculate_wait_timeout gives epoll_wait a limit whenever a     *)
(* task is in api_loop_sleep, for as long as the time that has passed fits *)
(* an int: value - issued is small and positive for the first timer of the *)
(* first list, which a pass that woke nobody has just found not to be due. *)
THEOREM SleepersNotForgotten == Spec => []SleepersWaitedFor
<1>1. Init => SleepersWaitedFor
  BY DEF Init, SleepersWaitedFor
<1> QED
  BY <1>1, WaitedStep, TimersStayRegistered, PTL DEF Spec

-----------------------------------------------------------------------------
(* The end of a sleep *)

LEMMA NotEarly ==
    ASSUME TimerInv, [Next]_vars, NEW t \in Tasks, EndsEarly(t)
    PROVE  platform = "unix" /\ issued[t] > now
<1>0. TypeOK /\ TimersRegistered /\ WalkValid /\ Control /\ IdlesUntimed
  BY DEF TimerInv
<1>1. /\ phase = "sleep" /\ place[t] = "sleep" /\ place'[t] = "run"
      /\ clock - issued[t] < period[t]
  BY DEF EndsEarly
<1>2. PassWake /\ walk.timer = t
  <2>1. place \in [Tasks -> Places]
    BY <1>0 DEF TypeOK
  <2>2. \A u \in Tasks, k \in Kinds, p \in Keys : ~Suspend(u, k, p)
    BY <1>1, <2>1 DEF Suspend, Kinds
  <2>3. \A u \in Tasks, v \in Tasks : ~SuspendUntimed(u) /\ ~Signal(u, v) /\ ~Event(u)
    BY <1>1, <2>1 DEF SuspendUntimed, Signal, Event
  <2>4. ~PassList /\ ~QuietData
    BY <1>1 DEF PassList, QuietData
  <2>5. PassWake
    BY <2>2, <2>3, <2>4, Steps
  <2>6. walk.timer = t
    BY <1>0, <1>1, <2>5, WakeEffect
  <2> QED
    BY <2>5, <2>6
<1>3. period[t] = walk.list /\ walk.list \in Keys
  BY <1>0, <1>2, WakeEffect
<1>4. /\ issued[t] \in Epoch..clock /\ now \in Epoch..clock
      /\ clock \in Epoch..(Epoch + Horizon)
      /\ Epoch \in Nat /\ Horizon \in Nat /\ Horizon < 128
  BY <1>0, <1>1, TimerAssumption, TimesAssumption DEF IdlesUntimed, TypeOK, Kinds, IntRange
<1>5. Sub(now, issued[t]) >= walk.list
  BY <1>1, <1>2 DEF PassWake, Due, Ending
<1>6. issued[t] > now
  <2> SUFFICES ASSUME issued[t] <= now PROVE FALSE
    BY <1>4
  <2>1. now \in Nat /\ issued[t] \in Nat /\ now - issued[t] < Word
    BY <1>4 DEF Word
  <2>2. Sub(now, issued[t]) = now - issued[t]
    BY <2>1, SubFacts
  <2>3. walk.list \in Nat
    BY <1>3, KeysAssumption
  <2> QED
    BY <1>1, <1>3, <1>4, <1>5, <2>2, <2>3
<1>7. t \notin walk.fresh
  BY <1>1, <1>2 DEF PassWake, Skipped, Ending
<1>8. platform # "win"
  <2>1. platform = "win" => issued[t] <= now
    BY <1>1, <1>7 DEF TimerInv, SleepsPastOnWindows
  <2> QED
    BY <1>4, <1>6, <2>1
<1> QED
  BY <1>0, <1>6, <1>8, TimerAssumption DEF TypeOK

(* A sleep ends before its period is over only on unix, when it began      *)
(* after the reading of the clock that the pass compares it with.          *)
THEOREM SleepsNotEarly == Spec => SleepNotEarly
<1>1. TimerInv /\ [Next]_vars
        => [\A t \in Tasks : EndsEarly(t) => platform = "unix" /\ issued[t] > now]_vars
  BY NotEarly
<1> QED
  BY <1>1, TimersStayRegistered, PTL DEF Spec, SleepNotEarly
=============================================================================
