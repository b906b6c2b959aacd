----------------------------- MODULE ServerProofs -----------------------------
(***************************************************************************)
(* Proofs about the life of a loop and its listener, for any number of     *)
(* waiters, connections and streams.  ServerInv is inductive: that an event*)
(* finds the frame of an accept rests on OneSystem, by which the interest  *)
(* in the mask goes with the accept, and that the loop is not freed while  *)
(* it runs rests on RefsCounted.  That the end of the loop leaves nobody   *)
(* behind but the waiters in `missed' rests on InLine: without a half-done *)
(* push, all in the line can be popped.                                    *)
(***************************************************************************)
EXTENDS Server, TLAPS

LEMMA InitServer == Init => ServerInv
<1> SUFFICES ASSUME Init PROVE ServerInv
    OBVIOUS
<1>1. refs = 0 /\ streams = 0 /\ backlog = 0 /\ 0 \in 0..(2 + MaxStreams)
      /\ 0 \in 0..MaxStreams /\ 0 \in 0..MaxBacklog
    BY ServerAssumption DEF Init
<1>2. TypeOK
  <2>1. line \in Seq(Waiters)
      BY DEF Init
  <2> QED
      BY <1>1, <2>1 DEF Init, TypeOK, Phases
<1>3. RefsCounted
    BY <1>1 DEF Init, RefsCounted
<1>4. EventFindsRequest /\ OkMeansConnection /\ OneSystem
    BY DEF Init, EventFindsRequest, OkMeansConnection, OneSystem
<1>5. InLine /\ NobodyLeft
    BY DEF Init, InLine, NobodyLeft
<1> QED
    BY <1>2, <1>3, <1>4, <1>5 DEF ServerInv

(* A step that leaves the line alone and does not go past the waiters.     *)
LEMMA LineKept ==
    ASSUME ServerInv, UNCHANGED <<os, waiting>>,
           phase' = "new" => phase = "new",
           phase' \in {"notified", "freed"} => phase \in {"notified", "freed"},
           phase \in {"notified", "freed", "crashed"}
               => phase' \in {"notified", "freed", "crashed"}
    PROVE  InLine' /\ NobodyLeft'
<1>1. UNCHANGED <<os, call, wait, line, missed>>
    BY DEF waiting
<1>2. InLine'
    BY <1>1 DEF ServerInv, InLine
<1>3. NobodyLeft'
    BY <1>1 DEF ServerInv, NobodyLeft
<1> QED
    BY <1>2, <1>3

-----------------------------------------------------------------------------
(* References *)

(* What a step leaves alone when it only takes or gives back a reference.  *)
Referring == <<os, port, inWait, waiting, reserved, mask, event, backlog, hollow>>

LEMMA AttachStreamStep ==
    ASSUME ServerInv, AttachStream
    PROVE  ServerInv'
<1> USE ServerAssumption DEF ServerInv
<1>1. /\ refs' = refs + 1 /\ streams' = streams + 1 /\ streams < MaxStreams
      /\ phase = "running"
      /\ UNCHANGED <<Referring, freed, phase, listener, status, operation>>
    BY DEF AttachStream, Ref, Runs, Referring, waiting, accepting
<1>2. RefsCounted'
    BY <1>1 DEF RefsCounted, TypeOK, Referring
<1>3. TypeOK'
    BY <1>1, <1>2 DEF TypeOK, RefsCounted, Referring, waiting
<1>4. InLine' /\ NobodyLeft'
    BY <1>1, LineKept DEF Referring
<1> QED
    BY <1>1, <1>2, <1>3, <1>4 DEF EventFindsRequest, OkMeansConnection, OneSystem, Referring

(* Giving back a reference crashes the thread only on Windows, where the   *)
(* count may be one short.                                                 *)
LEMMA CloseStreamStep ==
    ASSUME ServerInv, CloseStream
    PROVE  ServerInv'
<1> USE ServerAssumption DEF ServerInv
<1>1. /\ refs' = refs - 1 /\ streams' = streams - 1 /\ streams > 0
      /\ freed' \in BOOLEAN /\ phase' \in {phase, "crashed"} /\ phase = "running"
      /\ UNCHANGED <<Referring, listener, status, operation>>
    BY DEF CloseStream, Unref, Referring, waiting, accepting, Runs, TypeOK
<1>2. RefsCounted'
    BY <1>1 DEF RefsCounted, TypeOK, Referring
<1>3. TypeOK'
    BY <1>1, <1>2 DEF TypeOK, Phases, RefsCounted, Referring, waiting
<1>4. InLine' /\ NobodyLeft'
    BY <1>1, LineKept DEF Referring
<1> QED
    BY <1>1, <1>2, <1>3, <1>4 DEF EventFindsRequest, OkMeansConnection, OneSystem, Referring

LEMMA ListenStep ==
    ASSUME ServerInv, Listen
    PROVE  ServerInv'
<1> USE ServerAssumption DEF ServerInv
<1>1. /\ phase = "running" /\ listener = "none"
      /\ UNCHANGED <<Referring, freed, phase, streams, status, operation>>
      /\ \/ os = "unix" /\ listener' = "open" /\ refs' = refs + 1
         \/ os = "win" /\ listener' = "open" /\ refs' = refs
         \/ os = "win" /\ listener' = "broken" /\ refs' = refs + 1
    BY DEF Listen, ListenWin, Ref, Runs, Referring, waiting, accepting
<1>2. RefsCounted'
    BY <1>1 DEF RefsCounted, TypeOK, Referring
<1>3. TypeOK'
    BY <1>1, <1>2 DEF TypeOK, RefsCounted, Referring, waiting
<1>4. InLine' /\ NobodyLeft'
    BY <1>1, LineKept DEF Referring
<1> QED
    BY <1>1, <1>2, <1>3, <1>4 DEF EventFindsRequest, OkMeansConnection, OneSystem, Referring

LEMMA CloseListenerStep ==
    ASSUME ServerInv, CloseListener
    PROVE  ServerInv'
<1> USE ServerAssumption DEF ServerInv
<1>1. /\ refs' = refs - 1 /\ listener \in {"open", "broken"} /\ listener' = "closed"
      /\ freed' \in BOOLEAN /\ phase' \in {phase, "crashed"} /\ phase = "running"
      /\ status' = status \cup {"closed"} /\ operation' \in {operation, "none"}
      /\ UNCHANGED <<Referring, streams>>
    BY DEF CloseListener, Unref, Referring, waiting, Runs, TypeOK
<1>2. RefsCounted'
    BY <1>1 DEF RefsCounted, TypeOK, Referring
<1>3. TypeOK'
    BY <1>1, <1>2 DEF TypeOK, Phases, RefsCounted, Referring, waiting
<1>4. InLine' /\ NobodyLeft'
    BY <1>1, LineKept DEF Referring
<1> QED
    BY <1>1, <1>2, <1>3, <1>4 DEF EventFindsRequest, OkMeansConnection, OneSystem, Referring

-----------------------------------------------------------------------------
(* Accepting *)

(* A step that counts no reference keeps the count right, unless it starts *)
(* the loop or closes the listener.                                        *)
LEMMA CountKept ==
    ASSUME ServerInv, phase = "new" <=> phase' = "new",
           phase = "new" => ~freed', UNCHANGED <<os, refs, listener, streams>>
    PROVE  RefsCounted' /\ refs' \in 0..(2 + MaxStreams)
    BY DEF ServerInv, RefsCounted, TypeOK

(* What AcceptWin does, for the callers that found no event of unix.       *)
LEMMA AcceptWinKeeps ==
    ASSUME ServerInv, AcceptWin
    PROVE  /\ os = "win" /\ event = "none" /\ mask = FALSE
           /\ status' \subseteq {"closed", "error"} /\ backlog' \in 0..MaxBacklog
           /\ reserved' \in BOOLEAN /\ operation' \in {"none", "pending"}
           /\ (operation' # "none" => reserved')
           /\ UNCHANGED <<mask, hollow>>
<1> USE ServerAssumption DEF ServerInv, TypeOK, AcceptWin
<1>1. os = "win" /\ event = "none" /\ mask = FALSE /\ UNCHANGED <<mask, hollow>>
    BY DEF OneSystem
<1>2. backlog' \in 0..MaxBacklog
    OBVIOUS
<1>3. \/ reserved' = FALSE /\ operation' = "none" /\ UNCHANGED status
      \/ reserved' = TRUE /\ operation' = "pending" /\ UNCHANGED status
      \/ reserved' = FALSE /\ operation' = "none" /\ status' = status \cup {"error"}
    OBVIOUS
<1> QED
    BY <1>1, <1>2, <1>3

LEMMA AcceptStep ==
    ASSUME ServerInv, Accept
    PROVE  ServerInv'
<1> USE ServerAssumption DEF ServerInv
<1>1. /\ phase = "running" /\ ~reserved /\ phase' \in {phase, "crashed"}
      /\ UNCHANGED <<os, port, inWait, refs, freed, call, wait, line, missed, listener, event, streams>>
    BY DEF Accept, Runs, memory, waiting
<1>2. RefsCounted' /\ refs' \in 0..(2 + MaxStreams) /\ InLine' /\ NobodyLeft'
    BY <1>1, CountKept, LineKept DEF waiting
<1>3. operation = "none" /\ ~mask /\ event # "IN"
    BY <1>1 DEF EventFindsRequest, OneSystem, TypeOK
<1>4. CASE listener = "closed" \/ status # {}
  <2>1. /\ UNCHANGED <<status, reserved, mask, operation, backlog>>
        /\ \/ UNCHANGED hollow
           \/ status # {} /\ hollow' = (hollow \/ "error" \notin status)
      BY <1>4 DEF Accept, accepting
  <2>2. hollow' \in BOOLEAN /\ (hollow' => hollow \/ "closed" \in status)
    <3>1. CASE UNCHANGED hollow
        BY <3>1 DEF TypeOK
    <3>2. CASE status # {} /\ "error" \notin status
      <4>1. "closed" \in status
          BY <3>2 DEF TypeOK
      <4>2. hollow' \in BOOLEAN
          BY <2>1, Zenon DEF TypeOK
      <4> QED
          BY <4>1, <4>2
    <3>3. CASE "error" \in status
        BY <2>1, <3>3 DEF TypeOK
    <3> QED
        BY <2>1, <3>1, <3>2, <3>3
  <2>3. OkMeansConnection'
      BY <1>1, <2>1, <2>2 DEF OkMeansConnection
  <2> QED
      BY <1>1, <1>2, <1>3, <2>1, <2>2, <2>3
         DEF TypeOK, Phases, EventFindsRequest, OneSystem
<1>5. CASE AcceptUnix /\ listener # "closed" /\ status = {}
    BY <1>1, <1>2, <1>3, <1>5
       DEF AcceptUnix, TypeOK, Phases, EventFindsRequest, OkMeansConnection, OneSystem
<1>6. CASE AcceptWin
  <2>1. /\ os = "win" /\ event = "none" /\ mask = FALSE
        /\ status' \subseteq {"closed", "error"} /\ backlog' \in 0..MaxBacklog
        /\ reserved' \in BOOLEAN /\ operation' \in {"none", "pending"}
        /\ (operation' # "none" => reserved')
        /\ UNCHANGED <<mask, hollow>>
      BY <1>6, AcceptWinKeeps, Zenon
  <2>2. TypeOK'
      BY <1>1, <1>2, <2>1 DEF TypeOK, Phases
  <2> QED
      BY <1>1, <1>2, <2>1, <2>2 DEF EventFindsRequest, OkMeansConnection, OneSystem
<1> QED
    BY <1>4, <1>5, <1>6 DEF Accept

(* What the rest of an accept leaves behind on unix.                       *)
LEMMA AcceptEndsKeeps ==
    ASSUME ServerInv, NEW ok \in BOOLEAN, AcceptEnds(ok), phase = "running",
           status' \subseteq {"closed", "error"}, "closed" \in status => "closed" \in status',
           ok \/ "error" \in status' \/ "closed" \in status'
    PROVE  /\ phase' \in {phase, "crashed"}
           /\ reserved' \in BOOLEAN /\ mask' \in BOOLEAN /\ hollow' \in BOOLEAN
           /\ operation' \in {"none", operation}
           /\ (mask' => mask /\ reserved') /\ (operation' # "none" => reserved')
           /\ (os = "unix" /\ hollow' => "closed" \in status')
<1> USE DEF ServerInv
<1>1. CASE listener = "closed"
    BY <1>1 DEF AcceptEnds, TypeOK, EventFindsRequest, OkMeansConnection, OneSystem
<1>2. CASE listener # "closed"
    BY <1>2 DEF AcceptEnds, TypeOK, OkMeansConnection
<1> QED
    BY <1>1, <1>2

LEMMA ProcessStep ==
    ASSUME ServerInv, Process
    PROVE  ServerInv'
<1> USE ServerAssumption DEF ServerInv
<1>1. /\ phase = "running" /\ event # "none" /\ event' = "none" /\ os = "unix"
      /\ operation = "none"
      /\ UNCHANGED <<os, port, inWait, refs, freed, call, wait, line, missed, listener, streams>>
    BY DEF Process, Runs, memory, waiting, OneSystem
<1> DEFINE Ended == /\ status' \subseteq {"closed", "error"} /\ backlog' \in 0..MaxBacklog
                    /\ phase' \in {phase, "crashed"}
                    /\ reserved' \in BOOLEAN /\ mask' \in BOOLEAN /\ hollow' \in BOOLEAN
                    /\ operation' = "none"
                    /\ (mask' => mask /\ reserved')
                    /\ (os = "unix" /\ hollow' => "closed" \in status')
<1>2. Ended
  <2> USE DEF TypeOK
  <2>1. CASE event = "IN" /\ AcceptTry
    <3>1. backlog' \in 0..MaxBacklog
      <4>1. \E k \in 0..backlog : \/ k < backlog /\ backlog' = backlog - k - 1
                                 \/ backlog' = 0
                                 \/ backlog' = backlog - k
          BY <2>1, Zenon DEF AcceptTry
      <4> QED
          BY <4>1
    <3>2. \/ UNCHANGED status /\ AcceptEnds(TRUE)
          \/ /\ status' \in {status, status \cup {"error"}}
             /\ UNCHANGED <<phase, reserved, mask, operation, hollow>>
        BY <2>1 DEF AcceptTry
    <3>3. CASE UNCHANGED status /\ AcceptEnds(TRUE)
      <4>1. status' \subseteq {"closed", "error"} /\ status' = status
          BY <3>3
      <4> QED
          BY <1>1, <3>1, <3>3, <4>1, AcceptEndsKeeps
    <3>4. CASE /\ status' \in {status, status \cup {"error"}}
               /\ UNCHANGED <<phase, reserved, mask, operation, hollow>>
        BY <1>1, <3>1, <3>4 DEF OneSystem, OkMeansConnection
    <3> QED
        BY <3>2, <3>3, <3>4
  <2>2. CASE event = "IN" /\ ~reserved
      BY <2>2 DEF EventFindsRequest
  <2>3. CASE event # "IN"
    <3>1. /\ status' \in StatusAfter(event) /\ UNCHANGED backlog
          /\ AcceptEnds(event = "ERR") \/ UNCHANGED <<phase, reserved, mask, operation, hollow>>
        BY <2>3 DEF Process
    <3>2. /\ status' \subseteq {"closed", "error"}
          /\ "closed" \in status => "closed" \in status'
          /\ event = "ERR" \/ "closed" \in status'
          /\ backlog' \in 0..MaxBacklog
        BY <3>1 DEF StatusAfter
    <3>3. CASE AcceptEnds(event = "ERR")
      <4>1. (event = "ERR") \in BOOLEAN
          OBVIOUS
      <4> QED
          BY <1>1, <3>2, <3>3, <4>1, AcceptEndsKeeps
    <3>4. CASE UNCHANGED <<phase, reserved, mask, operation, hollow>>
        BY <1>1, <3>2, <3>4 DEF OneSystem, OkMeansConnection
    <3> QED
        BY <3>1, <3>3, <3>4
  <2> QED
      BY <2>1, <2>2, <2>3 DEF Process
<1>3. RefsCounted' /\ refs' \in 0..(2 + MaxStreams) /\ InLine' /\ NobodyLeft'
    BY <1>1, <1>2, CountKept, LineKept DEF waiting
<1> QED
    BY <1>1, <1>2, <1>3
       DEF TypeOK, Phases, EventFindsRequest, OkMeansConnection, OneSystem

LEMMA PacketStep ==
    ASSUME ServerInv, Packet
    PROVE  ServerInv'
<1> USE ServerAssumption DEF ServerInv
<1>1. /\ phase = "running" /\ operation # "none" /\ os = "win" /\ reserved /\ inWait' = FALSE
      /\ ~mask /\ event = "none"
      /\ UNCHANGED <<os, port, refs, freed, call, wait, line, missed, listener, event, streams, phase>>
    BY DEF Packet, memory, waiting, EventFindsRequest, OneSystem, TypeOK
<1>2. RefsCounted' /\ refs' \in 0..(2 + MaxStreams) /\ InLine' /\ NobodyLeft'
    BY <1>1, CountKept, LineKept DEF waiting
<1>3. CASE AcceptWin
  <2>1. /\ os = "win" /\ event = "none" /\ mask = FALSE
        /\ status' \subseteq {"closed", "error"} /\ backlog' \in 0..MaxBacklog
        /\ reserved' \in BOOLEAN /\ operation' \in {"none", "pending"}
        /\ (operation' # "none" => reserved')
        /\ UNCHANGED <<mask, hollow>>
      BY <1>3, AcceptWinKeeps, Zenon
  <2>2. TypeOK'
      BY <1>1, <1>2, <2>1 DEF TypeOK
  <2> QED
      BY <1>1, <1>2, <2>1, <2>2 DEF EventFindsRequest, OkMeansConnection, OneSystem
<1>4. CASE ~AcceptWin
  <2>1. /\ reserved' = FALSE /\ operation' = "none"
        /\ hollow' = (hollow \/ operation = "failed")
        /\ UNCHANGED <<status, mask, backlog>>
      BY <1>1, <1>4 DEF Packet
  <2> QED
      BY <1>1, <1>2, <2>1 DEF TypeOK, EventFindsRequest, OkMeansConnection, OneSystem
<1> QED
    BY <1>3, <1>4

-----------------------------------------------------------------------------
(* The other steps *)

(* The steps that leave the references and what is reserved alone.         *)
Kept == <<os, refs, listener, streams, status, reserved, mask, hollow>>

LEMMA KeptStep ==
    ASSUME ServerInv, TypeOK', UNCHANGED Kept,
           phase = "new" <=> phase' = "new", phase = "new" => ~freed',
           event' = "IN" => reserved, event' # "none" => os = "unix",
           operation' # "none" => operation # "none", InLine', NobodyLeft'
    PROVE  ServerInv'
<1> USE DEF ServerInv, Kept
<1>1. RefsCounted'
    BY CountKept
<1>2. EventFindsRequest' /\ OkMeansConnection' /\ OneSystem'
    BY DEF EventFindsRequest, OkMeansConnection, OneSystem
<1> QED
    BY <1>1, <1>2

LEMMA StartStep ==
    ASSUME ServerInv, Start
    PROVE  ServerInv'
<1> USE ServerAssumption DEF ServerInv
<1>1. /\ phase = "new" /\ phase' = "running" /\ port' = TRUE /\ refs' = 1
      /\ listener = "none" /\ streams = 0
      /\ UNCHANGED <<os, inWait, freed, call, wait, line, missed, listener, status, reserved, mask,
                     operation, event, backlog, streams, hollow>>
    BY DEF Start, RefsCounted, waiting, accepting
<1>2. InLine' /\ NobodyLeft'
    BY <1>1, LineKept DEF waiting
<1> QED
    BY <1>1, <1>2 DEF TypeOK, Phases, EventFindsRequest, OkMeansConnection, RefsCounted, OneSystem

(* The backlog grows and AcceptEx takes from it.                           *)
LEMMA ArrivesStep ==
    ASSUME ServerInv, Arrives \/ AcceptExEnds
    PROVE  ServerInv'
<1> USE ServerAssumption DEF ServerInv
<1>1. /\ phase = "running"
      /\ UNCHANGED <<rounds, memory, waiting, listener, status, reserved, mask, event,
                     streams, hollow>>
      /\ backlog' \in 0..MaxBacklog
      /\ operation' \in {"none", "pending", "done", "failed"}
      /\ operation' # "none" => operation # "none"
    BY DEF Arrives, AcceptExEnds, accepting, TypeOK
<1>2. TypeOK' /\ UNCHANGED Kept /\ UNCHANGED <<event, phase>>
    BY <1>1 DEF TypeOK, rounds, memory, waiting, Kept
<1>3. InLine' /\ NobodyLeft'
    BY <1>1, <1>2, LineKept DEF Kept
<1> QED
    BY <1>1, <1>2, <1>3, KeptStep DEF EventFindsRequest, OneSystem

(* A waiter that is not in the line comes to one of its ends.              *)
LEMMA Enlisted ==
    ASSUME NEW q \in Seq(Waiters), NEW t \in Waiters, NEW r,
           \A i \in DOMAIN q : q[i] # t,
           \A i, j \in DOMAIN q : q[i] = q[j] => i = j,
           r = Append(q, t) \/ r = <<t>> \o q
    PROVE  /\ r \in Seq(Waiters)
           /\ \A i \in DOMAIN r : r[i] = t \/ \E j \in DOMAIN q : r[i] = q[j]
           /\ \A i, j \in DOMAIN r : r[i] = r[j] => i = j
<1>1. CASE r = Append(q, t)
    BY <1>1
<1>2. CASE r = <<t>> \o q
  <2>1. r \in Seq(Waiters) /\ Len(r) = Len(q) + 1 /\ r[1] = t
        /\ \A i \in 1..Len(q) : r[i + 1] = q[i]
      BY <1>2
  <2>2. \A i \in DOMAIN r : i = 1 \/ (i - 1 \in DOMAIN q /\ r[i] = q[i - 1])
    <3>1. SUFFICES ASSUME NEW i \in 2..Len(r)
                   PROVE  i - 1 \in 1..Len(q) /\ r[i] = q[i - 1]
        BY <2>1
    <3>2. i - 1 \in 1..Len(q) /\ (i - 1) + 1 = i
        BY <2>1
    <3>3. r[(i - 1) + 1] = q[i - 1]
        BY <2>1, <3>2
    <3> QED
        BY <3>2, <3>3
  <2>3. DOMAIN r = 1..Len(r) /\ DOMAIN q = 1..Len(q)
      BY <2>1
  <2>4. \A i \in DOMAIN r : r[i] = t \/ \E j \in DOMAIN q : r[i] = q[j]
      BY <2>1, <2>2
  <2>5. ASSUME NEW i \in DOMAIN r, NEW j \in DOMAIN r, r[i] = r[j]
        PROVE  i = j
    <3>1. i \in Nat /\ j \in Nat
      <4>1. i \in 1..Len(r) /\ j \in 1..Len(r)
          BY <2>3, Zenon
      <4> QED
          BY <2>1, <4>1
    <3>2. CASE i = 1 \/ j = 1
      <4>1. r[i] = t /\ r[j] = t
          BY <2>1, <2>5, <3>2
      <4>2. \A k \in DOMAIN q : q[k] # t
          OBVIOUS
      <4> QED
          BY <2>2, <4>1, <4>2
    <3>3. CASE i # 1 /\ j # 1
      <4>1. i - 1 = j - 1
          BY <2>2, <2>5, <3>3
      <4> QED
          BY <3>1, <4>1
    <3> QED
        BY <3>2, <3>3
  <2> QED
      BY <2>1, <2>4, <2>5
<1> QED
    BY <1>1, <1>2

(* What a step with a waiter may change, and the line it leaves.           *)
Entered(t, r) ==
    /\ \A i \in DOMAIN line : line[i] # t
    /\ line' = r /\ (r = Append(line, t) \/ r = <<t>> \o line)
    /\ wait' \in {[wait EXCEPT ![t] = "pushing"], [wait EXCEPT ![t] = "listed"]}

LEMMA EnteredKeeps ==
    ASSUME ServerInv, NEW t \in Waiters, NEW r, Entered(t, r),
           call' \in {[call EXCEPT ![t] = "wait"], [call EXCEPT ![t] = "stopping"], call},
           call' = call => call[t] # "none", phase' # "new"
    PROVE  line' \in Seq(Waiters) /\ InLine'
<1> USE DEF ServerInv, TypeOK
<1>1. /\ line' \in Seq(Waiters)
      /\ \A i \in DOMAIN line' : line'[i] = t \/ \E j \in DOMAIN line : line'[i] = line[j]
      /\ \A i, j \in DOMAIN line' : line'[i] = line'[j] => i = j
  <2>1. /\ line \in Seq(Waiters) /\ \A i \in DOMAIN line : line[i] # t
        /\ \A i, j \in DOMAIN line : line[i] = line[j] => i = j
        /\ line' = Append(line, t) \/ line' = <<t>> \o line
      BY DEF Entered, InLine
  <2> QED
      BY <2>1, Enlisted
<1>2. wait'[t] \in {"pushing", "listed"} /\ \A u \in Waiters \ {t} : wait'[u] = wait[u]
    BY DEF Entered
<1>3. \A j \in DOMAIN line : line[j] \in Waiters \ {t}
    BY DEF Entered
<1>4. \A i \in DOMAIN line' : wait'[line'[i]] \in {"pushing", "listed"}
    BY <1>1, <1>2, <1>3 DEF InLine
<1>5. \A u \in Waiters : call'[u] = "none" => wait'[u] = "none"
  <2>1. call'[t] # "none" /\ \A u \in Waiters \ {t} : call'[u] = call[u]
      OBVIOUS
  <2> QED
      BY <1>2, <2>1 DEF InLine
<1> QED
    BY <1>1, <1>4, <1>5 DEF InLine

(* A waiter whose call or whose wait has not begun is not in the line.     *)
LEMMA NotInLine ==
    ASSUME ServerInv, NEW t \in Waiters,
           call[t] = "none" \/ wait[t] \in {"none", "posted", "notified"}
    PROVE  \A i \in DOMAIN line : line[i] # t
    BY DEF ServerInv, InLine

(* What every step with a waiter leaves alone.                             *)
WaiterFrame ==
    /\ UNCHANGED <<Kept, freed, event, operation, backlog>>
    /\ phase' \in {phase, "crashed"} /\ phase # "new"
    /\ port' \in BOOLEAN /\ inWait' \in BOOLEAN
    /\ call' \in [Waiters -> {"none", "wait", "stopping", "stop"}]
    /\ wait' \in [Waiters -> {"none", "posted", "pushing", "listed", "notified"}]
    /\ line' \in Seq(Waiters) /\ missed' \subseteq Waiters
    /\ InLine' /\ NobodyLeft'

LEMMA FrameStep ==
    ASSUME ServerInv, WaiterFrame
    PROVE  ServerInv'
<1> USE DEF ServerInv, WaiterFrame
<1>1. TypeOK'
    BY DEF TypeOK, Phases, Kept
<1> QED
    BY <1>1, KeptStep DEF EventFindsRequest, OneSystem, RefsCounted

(* api_loop_wait, or the first half of api_loop_stop_and_wait.             *)
LEMMA RegisterStep ==
    ASSUME ServerInv, NEW t \in Waiters, Wait(t) \/ StopAndWait(t)
    PROVE  ServerInv'
<1> USE DEF ServerInv
<1>1. /\ phase \notin {"new", "crashed"} /\ call[t] = "none" /\ Register(t)
      /\ call' \in {[call EXCEPT ![t] = "wait"], [call EXCEPT ![t] = "stopping"]}
      /\ UNCHANGED <<os, port, inWait, memory, listener, accepting, event, backlog, streams,
                     hollow>>
    BY DEF Wait, StopAndWait
<1>2. call' \in [Waiters -> {"none", "wait", "stopping", "stop"}]
    BY <1>1 DEF TypeOK
<1>3. UNCHANGED <<Kept, freed, event, operation, backlog, port, inWait>>
    BY <1>1 DEF Kept, memory, accepting
<1>4. CASE phase # "freed" /\ RegisterUnix(t)
  <2>1. phase' = phase
      BY <1>1, <1>4 DEF Register
  <2>2. Entered(t, line')
      BY <1>1, <1>4, NotInLine DEF RegisterUnix, Entered
  <2>3. line' \in Seq(Waiters) /\ InLine'
    <3>1. call'[t] # "none"
        BY <1>1 DEF TypeOK
    <3> QED
        BY <1>1, <2>1, <2>2, <3>1, EnteredKeeps
  <2>4. missed' \subseteq Waiters
        /\ wait' \in [Waiters -> {"none", "posted", "pushing", "listed", "notified"}]
      BY <1>4 DEF RegisterUnix, TypeOK
  <2>5. NobodyLeft'
    <3>1. missed' # {} => phase \in {"notified", "freed", "crashed"}
        BY <1>4 DEF RegisterUnix, NobodyLeft
    <3>2. ASSUME phase = "notified", NEW i \in DOMAIN line'
          PROVE  line'[i] \in missed'
      <4>1. line'[i] = t \/ \E j \in DOMAIN line : line'[i] = line[j]
          BY <1>4 DEF RegisterUnix, TypeOK
      <4> QED
          BY <1>4, <3>2, <4>1 DEF RegisterUnix, NobodyLeft
    <3> QED
        BY <1>3, <1>4, <2>1, <3>1, <3>2 DEF NobodyLeft, Kept
  <2> QED
      BY <1>1, <1>2, <1>3, <2>1, <2>3, <2>4, <2>5, FrameStep DEF WaiterFrame, TypeOK
<1>5. CASE ~(phase # "freed" /\ RegisterUnix(t))
  <2>1. /\ phase' \in {phase, "crashed"} /\ UNCHANGED <<line, missed>>
        /\ phase' = phase => phase # "freed" /\ os = "win"
        /\ wait' \in {wait, [wait EXCEPT ![t] = "posted"]}
      BY <1>1, <1>5 DEF Register, RegisterWin
  <2>2. wait' \in [Waiters -> {"none", "posted", "pushing", "listed", "notified"}]
      BY <2>1 DEF TypeOK
  <2>3. InLine'
    <3>1. \A u \in Waiters \ {t} : wait'[u] = wait[u] /\ call'[u] = call[u]
        BY <1>1, <2>1 DEF TypeOK
    <3>2. \A i \in DOMAIN line : line[i] \in Waiters \ {t}
        BY <1>1, NotInLine DEF TypeOK
    <3>3. call'[t] # "none"
        BY <1>1 DEF TypeOK
    <3> QED
        BY <1>1, <2>1, <3>1, <3>2, <3>3 DEF InLine
  <2>4. NobodyLeft'
      BY <1>1, <1>3, <2>1 DEF NobodyLeft, Kept
  <2> QED
      BY <1>1, <1>2, <1>3, <2>1, <2>2, <2>3, <2>4, FrameStep DEF WaiterFrame, TypeOK
<1> QED
    BY <1>4, <1>5

(* Their other steps, which leave the line alone.                          *)
LEMMA GoOnStep ==
    ASSUME ServerInv, NEW t \in Waiters,
           Link(t) \/ LinkGarbage(t) \/ ThenClose(t) \/ Return(t) \/ NotifyGarbage(t)
    PROVE  ServerInv'
<1> USE DEF ServerInv
<1>1. /\ UNCHANGED <<Kept, freed, event, operation, backlog, inWait, line, missed>>
      /\ phase' \in {phase, "crashed"} /\ port' \in {port, FALSE}
      /\ \/ UNCHANGED <<call, wait>>
         \/ wait[t] = "pushing" /\ wait' = [wait EXCEPT ![t] = "listed"] /\ UNCHANGED call
         \/ call[t] # "none" /\ call' = [call EXCEPT ![t] = "stop"] /\ UNCHANGED wait
         \/ /\ wait[t] = "notified"
            /\ call' = [call EXCEPT ![t] = "none"] /\ wait' = [wait EXCEPT ![t] = "none"]
  <2> USE DEF Kept, rounds, memory, waiting, accepting
  <2>1. CASE Link(t)
      BY <2>1 DEF Link
  <2>2. CASE LinkGarbage(t)
      BY <2>2 DEF LinkGarbage
  <2>3. CASE ThenClose(t)
      BY <2>3 DEF ThenClose
  <2>4. CASE Return(t)
      BY <2>4 DEF Return
  <2>5. CASE NotifyGarbage(t)
      BY <2>5 DEF NotifyGarbage
  <2> QED
      BY <2>1, <2>2, <2>3, <2>4, <2>5
<1>2. phase # "new"
    BY DEF InLine, Link, LinkGarbage, ThenClose, Return, NotifyGarbage
<1>3. /\ call' \in [Waiters -> {"none", "wait", "stopping", "stop"}]
      /\ wait' \in [Waiters -> {"none", "posted", "pushing", "listed", "notified"}]
    BY <1>1 DEF TypeOK
<1>4. InLine'
  <2>1. /\ \A u \in Waiters \ {t} : wait'[u] = wait[u] /\ call'[u] = call[u]
        /\ call'[t] = "none" => wait'[t] = "none"
        /\ wait[t] \in {"pushing", "listed"} => wait'[t] \in {"pushing", "listed"}
      BY <1>1 DEF TypeOK, InLine
  <2>2. \A i \in DOMAIN line : line[i] \in Waiters
      BY DEF TypeOK
  <2> QED
      BY <1>1, <1>2, <2>1, <2>2 DEF InLine
<1>5. NobodyLeft'
    BY <1>1 DEF NobodyLeft, Kept
<1> QED
    BY <1>1, <1>2, <1>3, <1>4, <1>5, FrameStep DEF WaiterFrame, TypeOK

(* The pop of a waiter, and one that comes from the port.                  *)
LEMMA NotifyStep ==
    ASSUME ServerInv, NEW t \in Waiters, Notify(t)
    PROVE  ServerInv'
<1> USE DEF ServerInv
<1>1. /\ phase = "ending" /\ line # <<>> /\ line[1] = t
      /\ wait' = [wait EXCEPT ![t] = "notified"] /\ line' = Tail(line)
      /\ UNCHANGED <<rounds, memory, call, missed, listener, accepting, event, backlog, streams,
                     hollow>>
    BY DEF Notify, Pops
<1>2. /\ UNCHANGED <<Kept, freed, event, operation, backlog, phase, port, inWait, call, missed>>
    BY <1>1 DEF Kept, rounds, memory, accepting
<1>3. /\ line' \in Seq(Waiters) /\ Len(line') = Len(line) - 1
      /\ \A i \in DOMAIN line' : i + 1 \in DOMAIN line /\ line'[i] = line[i + 1]
    BY <1>1 DEF TypeOK
<1>4. wait' \in [Waiters -> {"none", "posted", "pushing", "listed", "notified"}]
    BY <1>1 DEF TypeOK
<1>5. \A i, j \in DOMAIN line' : line'[i] = line'[j] => i = j
  <2> SUFFICES ASSUME NEW i \in DOMAIN line', NEW j \in DOMAIN line', line'[i] = line'[j]
               PROVE  i = j
      OBVIOUS
  <2>1. i + 1 = j + 1
      BY <1>3 DEF InLine
  <2>2. i \in Nat /\ j \in Nat
      BY <1>3
  <2> QED
      BY <2>1, <2>2
<1>6. \A i \in DOMAIN line' : line'[i] \in Waiters \ {t}
  <2> SUFFICES ASSUME NEW i \in DOMAIN line' PROVE line'[i] \in Waiters \ {t}
      OBVIOUS
  <2>1. i \in Nat \ {0} /\ i + 1 \in DOMAIN line /\ 1 \in DOMAIN line /\ line'[i] = line[i + 1]
      BY <1>1, <1>3 DEF TypeOK
  <2>2. i + 1 # 1
      BY <2>1
  <2> QED
      BY <1>1, <2>1, <2>2 DEF InLine, TypeOK
<1>7. \A u \in Waiters \ {t} : wait'[u] = wait[u]
    BY <1>1 DEF TypeOK
<1>8. call[t] # "none"
  <2>1. 1 \in DOMAIN line
      BY <1>1 DEF TypeOK
  <2> QED
      BY <1>1, <2>1 DEF InLine
<1>9. InLine'
  <2>1. \A i \in DOMAIN line' : wait'[line'[i]] \in {"pushing", "listed"}
      BY <1>3, <1>6, <1>7 DEF InLine
  <2>2. \A u \in Waiters : call'[u] = "none" => wait'[u] = "none"
      BY <1>2, <1>7, <1>8 DEF InLine
  <2> QED
      BY <1>1, <1>2, <1>5, <2>1, <2>2 DEF InLine
<1>10. NobodyLeft'
    BY <1>1, <1>2 DEF NobodyLeft, Kept
<1> QED
    BY <1>1, <1>2, <1>3, <1>4, <1>9, <1>10, FrameStep DEF WaiterFrame, TypeOK

LEMMA ListedStep ==
    ASSUME ServerInv, NEW t \in Waiters, Listed(t)
    PROVE  ServerInv'
<1> USE DEF ServerInv
<1>1. /\ phase = "running" /\ wait[t] = "posted" /\ inWait' = FALSE
      /\ wait' = [wait EXCEPT ![t] = "listed"] /\ line' = <<t>> \o line
      /\ UNCHANGED <<Kept, freed, event, operation, backlog, phase, port, call, missed>>
    BY DEF Listed, Kept, memory, accepting
<1>2. call[t] # "none"
    BY <1>1 DEF InLine
<1>3. Entered(t, line')
    BY <1>1, NotInLine DEF Entered
<1>4. line' \in Seq(Waiters) /\ InLine'
    BY <1>1, <1>2, <1>3, EnteredKeeps
<1>5. NobodyLeft'
    BY <1>1 DEF NobodyLeft, Kept
<1> QED
    BY <1>1, <1>4, <1>5, FrameStep DEF WaiterFrame, TypeOK

Waiting(t) ==
    \/ Wait(t) \/ StopAndWait(t) \/ ThenClose(t) \/ Return(t)
    \/ Link(t) \/ LinkGarbage(t) \/ Listed(t) \/ Notify(t) \/ NotifyGarbage(t)

LEMMA WaiterStep ==
    ASSUME ServerInv, NEW t \in Waiters, Waiting(t)
    PROVE  ServerInv'
    BY RegisterStep, GoOnStep, NotifyStep, ListedStep DEF Waiting

(* api_wait_notify ends: if no push is half done, the line is empty.       *)
LEMMA NotifiedStep ==
    ASSUME ServerInv, Notified
    PROVE  ServerInv'
<1> USE DEF ServerInv
<1>1. /\ phase = "ending" /\ phase' = "notified" /\ ~Pops
      /\ missed' = IF Halfway THEN missed \cup {line[i] : i \in DOMAIN line} ELSE missed
      /\ UNCHANGED <<Kept, freed, event, operation, backlog, port, inWait, call, wait, line>>
    BY DEF Notified, Kept, memory, accepting
<1>2. missed' \subseteq Waiters
    BY <1>1 DEF TypeOK
<1>3. InLine'
    BY <1>1 DEF InLine
<1>4. CASE Halfway
  <2>1. \A i \in DOMAIN line : line[i] \in missed'
      BY <1>1, <1>4
  <2>3. NobodyLeft'
      BY <1>1, <2>1 DEF NobodyLeft
  <2>4. TypeOK'
      BY <1>1, <1>2 DEF TypeOK, Phases, Kept
  <2> QED
      BY <1>1, <1>3, <2>3, <2>4, KeptStep DEF EventFindsRequest, OneSystem
<1>5. CASE ~Halfway
  <2>1. line = <<>>
    <3>1. SUFFICES ASSUME line # <<>> PROVE FALSE
        OBVIOUS
    <3>2. \A i \in DOMAIN line : wait[line[i]] = "listed"
      <4>1. \A i \in DOMAIN line : line[i] \in Waiters
          BY DEF TypeOK
      <4> QED
          BY <1>5, <4>1 DEF InLine, Halfway
    <3>3. 1 \in DOMAIN line /\ (Len(line) > 1 => 2 \in DOMAIN line) /\ Head(line) = line[1]
        BY <3>1 DEF TypeOK
    <3> QED
        BY <1>1, <3>1, <3>2, <3>3 DEF Pops
  <2>2. NobodyLeft'
      BY <1>1, <1>5, <2>1 DEF NobodyLeft, Kept
  <2>3. TypeOK'
      BY <1>1, <1>2 DEF TypeOK, Phases, Kept
  <2> QED
      BY <1>1, <1>3, <2>2, <2>3, KeptStep DEF EventFindsRequest, OneSystem
<1> QED
    BY <1>4, <1>5

(* The rounds of the thread, apart from what it does for the listener and  *)
(* the waiters.                                                            *)
Rounds ==
    \/ EnterWait \/ Ready \/ Stirs \/ Abandoned \/ Free \/ Stop
    \/ \E e \in {"ERR", "HUP"} : Trouble(e)

LEMMA RoundsStep ==
    ASSUME ServerInv, Rounds
    PROVE  ServerInv'
<1> USE DEF ServerInv
<1>1. /\ UNCHANGED <<Kept, waiting, operation, backlog>>
      /\ phase # "new" /\ phase' \in {phase, "ending", "freed"}
      /\ phase' = "ending" => phase \in {"running", "ending"}
      /\ phase' = "freed" => phase \in {"notified", "freed"}
      /\ port' \in {port, FALSE} /\ inWait' \in BOOLEAN /\ freed' \in BOOLEAN
      /\ event' \in {"none", "IN", "ERR", "HUP"}
      /\ event' = "IN" => reserved
      /\ event' # "none" => os = "unix"
  <2> USE DEF TypeOK, Kept, memory, accepting, EventFindsRequest, OneSystem
  <2>1. CASE EnterWait
      BY <2>1 DEF EnterWait, Runs
  <2>2. CASE Ready
      BY <2>2 DEF Ready
  <2>3. CASE Stirs
      BY <2>3 DEF Stirs
  <2>4. CASE Abandoned
      BY <2>4 DEF Abandoned
  <2>6. CASE Free
      BY <2>6 DEF Free
  <2>7. CASE Stop
      BY <2>7 DEF Stop
  <2>8. CASE \E e \in {"ERR", "HUP"} : Trouble(e)
      BY <2>8 DEF Trouble
  <2> QED
      BY <2>1, <2>2, <2>3, <2>4, <2>6, <2>7, <2>8 DEF Rounds
<1>2. TypeOK'
  <2>1. phase' \in Phases /\ port' \in BOOLEAN
      BY <1>1 DEF TypeOK, Phases
  <2>2. UNCHANGED <<os, refs, listener, streams, status, reserved, mask, hollow,
                    call, wait, line, missed, operation, backlog>>
      BY <1>1 DEF Kept, waiting
  <2> QED
      BY <1>1, <2>1, <2>2 DEF TypeOK
<1>3. phase' # "new"
    BY <1>1
<1>4. InLine' /\ NobodyLeft'
    BY <1>1, <1>3, LineKept DEF Kept
<1> QED
    BY <1>1, <1>2, <1>3, <1>4, KeptStep

LEMMA StepServer == ServerInv /\ [Next]_vars => ServerInv'
<1> SUFFICES ASSUME ServerInv, [Next]_vars PROVE ServerInv'
    OBVIOUS
<1>1. CASE UNCHANGED vars
    BY <1>1 DEF vars, rounds, memory, waiting, accepting, ServerInv, TypeOK,
       EventFindsRequest, OkMeansConnection, RefsCounted, OneSystem, InLine, NobodyLeft
<1>2. CASE \E t \in Waiters : Waiting(t)
    BY <1>2, WaiterStep
<1>3. CASE Rounds \/ Notified
    BY <1>3, RoundsStep, NotifiedStep
<1>4. CASE Next /\ ~Rounds /\ ~Notified /\ ~\E t \in Waiters : Waiting(t)
    BY <1>4, StartStep, AttachStreamStep, CloseStreamStep, ListenStep, AcceptStep,
       CloseListenerStep, ArrivesStep, ProcessStep, PacketStep
       DEF Next, Thread, Waiting, Rounds
<1> QED
    BY <1>1, <1>2, <1>3, <1>4

(* An event or a packet always finds the frame of an accept, on unix an    *)
(* accept that returns API__OK without a connection follows a hang-up or an*)
(* error that errno does not name, the loop's count is the number of those *)
(* that refer to it, or on Windows one less when an open listener was      *)
(* closed, and a loop that is through has found all in its line but those  *)
(* that came after it or stood beside a push half done.                    *)
THEOREM ServerInvariance == Spec => []ServerInv
    BY InitServer, StepServer, PTL DEF Spec

(* The last reference never frees the loop while it is in use, except on   *)
(* Windows when a listener was closed, which gives back a reference that   *)
(* it never took.                                                          *)
THEOREM FreedByItsThread == Spec => []FreedOnlyAtEnd
<1>1. ServerInv => FreedOnlyAtEnd
    BY DEF ServerInv, TypeOK, RefsCounted, FreedOnlyAtEnd
<1> QED
    BY <1>1, ServerInvariance, PTL
=============================================================================
