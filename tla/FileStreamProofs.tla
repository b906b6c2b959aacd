--------------------------- MODULE FileStreamProofs ---------------------------
(***************************************************************************)
(* Proofs about a file stream over aio, for any number of tasks, requests  *)
(* and bytes.  FileInv is inductive: a request left behind is explained by *)
(* RequestsOfCalls and OneRequest, by which a call that was woken by its   *)
(* own wakeup leaves none.  ContentRight follows step by step from it.     *)
(***************************************************************************)
EXTENDS FileStream, TLAPS

TimeoutFlag(kind) == IF kind = "read" THEN "read_timeout" ELSE "write_timeout"

(* What aio took is a request that points into the frame of the call.      *)
LEMMA SubmitAdds ==
    ASSUME NEW t \in Tasks, NEW kind \in {"read", "write"}, NEW offset \in Nat,
           NEW length \in 1..Length, Submit(t, kind, offset, length)
    PROVE  \E r \in Requests : /\ aio' = aio \cup {r} /\ r.live
                               /\ r.task = t /\ r.kind = kind /\ r.offset = offset
<1>1. PICK id \in 1..MaxRequests :
          aio' = aio \cup {[task |-> t, kind |-> kind, offset |-> offset,
                            length |-> length, live |-> TRUE, id |-> id]}
    BY DEF Submit
<1>2. [task |-> t, kind |-> kind, offset |-> offset, length |-> length,
       live |-> TRUE, id |-> id] \in Requests
    BY DEF Requests
<1> QED
    BY <1>1, <1>2

(* A call that returns takes its frame away from its requests, and from    *)
(* nobody else's.                                                          *)
LEMMA AbandonedKeeps ==
    ASSUME NEW requests \in SUBSET Requests, NEW t \in Tasks
    PROVE  /\ Abandoned(t, requests) \subseteq Requests
           /\ \A r \in Abandoned(t, requests) :
                 IF r.live THEN r \in requests /\ r.task # t
                 ELSE \/ r \in requests
                      \/ \E s \in requests : s.live /\ s.task = t /\ s.kind = r.kind
           /\ \A r \in requests : r.live /\ r.task # t => r \in Abandoned(t, requests)
<1>1. ASSUME NEW s \in requests
      PROVE  LET r == IF s.task = t /\ s.live THEN [s EXCEPT !.live = FALSE] ELSE s
             IN  /\ r \in Requests
                 /\ IF r.live THEN r \in requests /\ r.task # t
                    ELSE r \in requests \/ (s.live /\ s.task = t /\ s.kind = r.kind)
  <2>1. CASE s.task = t /\ s.live
    <3>1. [s EXCEPT !.live = FALSE] \in Requests
        BY DEF Requests
    <3>2. ~[s EXCEPT !.live = FALSE].live /\ [s EXCEPT !.live = FALSE].kind = s.kind
        BY DEF Requests
    <3> QED
        BY <2>1, <3>1, <3>2
  <2>2. CASE ~(s.task = t /\ s.live)
      BY <2>2
  <2> QED
      BY <2>1, <2>2
<1>2. \A r \in Abandoned(t, requests) : \E s \in requests :
          r = IF s.task = t /\ s.live THEN [s EXCEPT !.live = FALSE] ELSE s
    BY DEF Abandoned
<1>3. \A s \in requests : s.live /\ s.task # t => s \in Abandoned(t, requests)
    BY DEF Abandoned
<1> QED
    BY <1>1, <1>2, <1>3

LEMMA InitFile == Init => FileInv
<1> SUFFICES ASSUME Init PROVE FileInv
    OBVIOUS
<1>1. /\ size \in 0..MaxSize /\ 0 \in 0..MaxSize /\ 0 \in 0..(Length - 1) /\ 0 \in 0..Length
    BY FileAssumption DEF Init
<1>2. Pending \in [done : 0..Length, error : BOOLEAN, complete : BOOLEAN]
    BY <1>1 DEF Pending
<1>3. TypeOK
    BY <1>1, <1>2 DEF Init, TypeOK
<1>4. \A t \in Tasks : op[t] = "none" /\ result[t].done = 0
    BY DEF Init, Pending
<1>5. ReadsWithin /\ ResultsRight
    BY <1>1, <1>4 DEF Init, ReadsWithin, ResultsRight
<1> QED
    BY <1>3, <1>4, <1>5
       DEF Init, FileInv, SleeperHasWaker, FrameOutlivesRequest, RequestsOfCalls, OneRequest

-----------------------------------------------------------------------------
(* A call begins *)

LEMMA BeginStep ==
    ASSUME FileInv, NEW t \in Tasks, NEW kind \in {"read", "write"}, May(t, kind),
           NEW r \in Requests, aio' = aio \cup {r}, r.live, r.task = t, r.kind = kind,
           r.offset = (IF kind = "read" THEN readOffset ELSE writeOffset),
           op' = [op EXCEPT ![t] = kind], result' = [result EXCEPT ![t] = Pending],
           done' \in [Tasks -> 0..(Length - 1)], timers' \subseteq Tasks,
           UNCHANGED <<stream, wakeups, loop, size, history>>
    PROVE  FileInv'
<1> USE FileAssumption DEF FileInv
<1>1. /\ UNCHANGED <<created, status, readOffset, writeOffset, wakeups, loop, size, sawEnd,
                     strayed>>
      /\ op \in [Tasks -> {"none", "read", "write"}]
      /\ result \in [Tasks -> [done : 0..Length, error : BOOLEAN, complete : BOOLEAN]]
      /\ op[t] = "none" /\ (\A u \in Tasks : op[u] # kind)
    BY DEF TypeOK, stream, history, May
<1>2. /\ \A u \in Tasks : op'[u] = (IF u = t THEN kind ELSE op[u])
      /\ \A u \in Tasks : result'[u] = (IF u = t THEN Pending ELSE result[u])
      /\ Pending \in [done : 0..Length, error : BOOLEAN, complete : BOOLEAN]
    BY <1>1 DEF Pending
<1>3. \A s \in aio : s \in Requests /\ s.task \in Tasks /\ (s.live => s.task # t)
    BY <1>1 DEF TypeOK, Requests, RequestsOfCalls
<1>4. TypeOK'
    BY <1>1, <1>2 DEF TypeOK
<1>5. SleeperHasWaker'
    BY <1>1, <1>2 DEF SleeperHasWaker
<1>6. FrameOutlivesRequest'
    BY <1>1 DEF FrameOutlivesRequest
<1>7. RequestsOfCalls'
    BY <1>1, <1>2, <1>3 DEF RequestsOfCalls
<1>8. OneRequest'
    BY <1>1, <1>2, <1>3 DEF OneRequest, Pending
<1>9. ReadsWithin'
  <2>1. readOffset \in Nat /\ size \in Nat /\ Pending.done = 0 /\ readOffset + 0 = readOffset
      BY DEF TypeOK, Pending
  <2> QED
      BY <1>1, <1>2, <1>3, <2>1 DEF ReadsWithin
<1>10. ResultsRight'
    BY <1>1, <1>2 DEF ResultsRight, Pending
<1> QED
    BY <1>4, <1>5, <1>6, <1>7, <1>8, <1>9, <1>10

LEMMA ReadStep ==
    ASSUME FileInv, NEW t \in Tasks, NEW n \in 1..Length, NEW timeout \in BOOLEAN,
           Read(t, n, timeout)
    PROVE  FileInv'
<1>1. readOffset \in Nat /\ done \in [Tasks -> 0..(Length - 1)] /\ timers \subseteq Tasks
    BY FileAssumption DEF FileInv, TypeOK
<1>2. PICK r \in Requests : /\ aio' = aio \cup {r} /\ r.live
                            /\ r.task = t /\ r.kind = "read" /\ r.offset = readOffset
    BY <1>1, SubmitAdds DEF Read
<1>3. done' \in [Tasks -> 0..(Length - 1)] /\ timers' \subseteq Tasks
    BY <1>1 DEF Read
<1> QED
    BY <1>2, <1>3, BeginStep DEF Read

LEMMA WriteStep ==
    ASSUME FileInv, NEW t \in Tasks, NEW timeout \in BOOLEAN, Write(t, timeout)
    PROVE  FileInv'
<1>1. /\ writeOffset \in Nat /\ done \in [Tasks -> 0..(Length - 1)] /\ timers \subseteq Tasks
      /\ Length \in 1..Length /\ 0 \in 0..(Length - 1)
    BY FileAssumption DEF FileInv, TypeOK
<1>2. PICK r \in Requests : /\ aio' = aio \cup {r} /\ r.live
                            /\ r.task = t /\ r.kind = "write" /\ r.offset = writeOffset
    BY <1>1, SubmitAdds DEF Write
<1>3. done' \in [Tasks -> 0..(Length - 1)] /\ timers' \subseteq Tasks
    BY <1>1 DEF Write
<1> QED
    BY <1>2, <1>3, BeginStep DEF Write

-----------------------------------------------------------------------------
(* A call goes on *)

(* A call that returns leaves a request behind only if it says that it     *)
(* timed out or was woken by a stray wakeup: its own wakeup comes after    *)
(* its only request.                                                       *)
LEMMA ReturnStep ==
    ASSUME FileInv, NEW t \in Tasks, op[t] # "none", TypeOK', Returned(t),
           aio' = Abandoned(t, aio), status \subseteq status',
           strayed => strayed',
           loop = "running" =>
               strayed' \/ result[t].complete \/ TimeoutFlag(op[t]) \in status',
           \A u \in Tasks : u # t => wakeups'[u] = wakeups[u],
           readOffset' \in {readOffset, readOffset + result[t].done},
           op[t] = "write" => readOffset' = readOffset,
           op[t] = "read" => writeOffset' = writeOffset,
           UNCHANGED <<created, result, loop, size, sawEnd>>
    PROVE  FileInv'
<1> USE DEF FileInv
<1>1. /\ op \in [Tasks -> {"none", "read", "write"}] /\ aio \subseteq Requests
      /\ UNCHANGED <<created, result, loop, size, sawEnd>>
    BY DEF TypeOK
<1>2. \A u \in Tasks : op'[u] = (IF u = t THEN "none" ELSE op[u])
    BY <1>1 DEF Returned
<1>3. \A r \in aio : r.task \in Tasks /\ r.kind \in {"read", "write"} /\ r.live \in BOOLEAN
    BY <1>1 DEF Requests
<1>4. /\ \A r \in aio' :
            IF r.live THEN r \in aio /\ r.task # t
            ELSE r \in aio \/ \E s \in aio : s.live /\ s.task = t /\ s.kind = r.kind
      /\ \A r \in aio : r.live /\ r.task # t => r \in aio'
    BY <1>1, AbandonedKeeps
<1>5. SleeperHasWaker'
    BY <1>1, <1>2, <1>4 DEF SleeperHasWaker
<1>6. FrameOutlivesRequest'
  <2> SUFFICES ASSUME loop = "running", ~strayed', NEW r \in aio', ~r.live
               PROVE  TimeoutFlag(r.kind) \in status'
      BY <1>1 DEF FrameOutlivesRequest, TimeoutFlag
  <2>1. CASE r \in aio
      BY <2>1 DEF FrameOutlivesRequest, TimeoutFlag
  <2>2. CASE r \notin aio
    <3>1. PICK s \in aio : s.live /\ s.task = t /\ s.kind = r.kind
        BY <1>4, <2>2
    <3>2. op[t] = r.kind
        BY <3>1 DEF RequestsOfCalls
    <3>3. ~result[t].complete
        BY <3>1 DEF OneRequest
    <3> QED
        BY <3>2, <3>3
  <2> QED
      BY <2>1, <2>2
<1>7. RequestsOfCalls'
    BY <1>2, <1>3, <1>4 DEF RequestsOfCalls
<1>8. OneRequest'
  <2>1. \A r \in aio' : r.live /\ r.kind = "write" => writeOffset' = writeOffset
      BY <1>1, <1>3, <1>4 DEF RequestsOfCalls
  <2> QED
      BY <1>1, <1>4, <2>1 DEF OneRequest
<1>9. ReadsWithin'
  <2>1. CASE op[t] = "read"
    <3>1. \A u \in Tasks : op'[u] # "read"
        BY <1>2, <2>1 DEF RequestsOfCalls
    <3>2. \A r \in aio' : r.live => r.kind # "read"
        BY <1>3, <1>4, <2>1 DEF RequestsOfCalls
    <3>3. readOffset' <= size
        BY <2>1 DEF ReadsWithin
    <3> QED
        BY <1>1, <3>1, <3>2, <3>3 DEF ReadsWithin
  <2>2. CASE op[t] = "write"
      BY <1>1, <1>2, <1>4, <2>2 DEF ReadsWithin
  <2> QED
      BY <1>1, <2>1, <2>2
<1>10. ResultsRight'
    BY <1>1, <1>2 DEF ResultsRight
<1> QED
    BY <1>5, <1>6, <1>7, <1>8, <1>9, <1>10

(* A write that goes on has one request again.                             *)
LEMMA RoundStep ==
    ASSUME FileInv, NEW t \in Tasks, op[t] = "write", TypeOK',
           NEW r \in Requests, aio' = aio \cup {r}, r.live, r.task = t, r.kind = "write",
           r.offset = writeOffset', result' = [result EXCEPT ![t] = Pending],
           strayed => strayed',
           loop = "running" => strayed' \/ result[t].complete,
           \A u \in Tasks : u # t => wakeups'[u] = wakeups[u],
           UNCHANGED <<status, readOffset, op, loop, size, sawEnd>>
    PROVE  FileInv'
<1> USE DEF FileInv
<1>1. /\ op \in [Tasks -> {"none", "read", "write"}] /\ aio \subseteq Requests
      /\ UNCHANGED <<status, readOffset, op, loop, size, sawEnd>>
    BY DEF TypeOK
<1>2. /\ \A u \in Tasks : result'[u] = (IF u = t THEN Pending ELSE result[u])
      /\ Pending.done = 0 /\ ~Pending.complete
    BY DEF TypeOK, Pending
<1>3. \A s \in aio : s.task \in Tasks
    BY <1>1 DEF Requests
<1>4. SleeperHasWaker'
    BY <1>1 DEF SleeperHasWaker
<1>5. FrameOutlivesRequest'
    BY <1>1 DEF FrameOutlivesRequest
<1>6. RequestsOfCalls'
    BY <1>1 DEF RequestsOfCalls
<1>7. OneRequest'
  <2> SUFFICES ASSUME loop = "running", ~strayed' PROVE OneRequest'
      BY <1>1 DEF OneRequest
  <2>1. \A s \in aio : s.live => s.task # t
      BY DEF OneRequest
  <2>2. \A s \in aio : s.live => s.kind # "write"
      BY <1>3, <2>1 DEF RequestsOfCalls
  <2> QED
      BY <1>1, <1>2, <1>3, <2>1, <2>2 DEF OneRequest
<1>8. ReadsWithin'
    BY <1>1, <1>2 DEF ReadsWithin
<1>9. ResultsRight'
    BY <1>1, <1>2 DEF ResultsRight
<1> QED
    BY <1>4, <1>5, <1>6, <1>7, <1>8, <1>9

(* Nothing but the status grows, or the loop comes to its end.             *)
LEMMA StatusStep ==
    ASSUME FileInv, status' \in SUBSET Flags, status \subseteq status',
           loop' = loop \/ (loop' \in {"ending", "crashed"}), aio' \in SUBSET aio,
           loop' = "running" => wakeups' = wakeups /\ aio' = aio,
           wakeups' \in [Tasks -> Nat], strayed' \in BOOLEAN, strayed => strayed',
           UNCHANGED <<created, readOffset, writeOffset, calls, size, sawEnd>>
    PROVE  FileInv'
<1> USE DEF FileInv, calls
<1>1. TypeOK'
    BY DEF TypeOK
<1>2. SleeperHasWaker' /\ FrameOutlivesRequest'
    BY DEF SleeperHasWaker, FrameOutlivesRequest
<1>3. RequestsOfCalls' /\ OneRequest'
    BY DEF RequestsOfCalls, OneRequest
<1>4. ReadsWithin' /\ ResultsRight'
    BY DEF ReadsWithin, ResultsRight
<1> QED
    BY <1>1, <1>2, <1>3, <1>4

(* What a wakeup or a timer does to the call it finds.                     *)
LEMMA EndStep ==
    ASSUME FileInv, NEW t \in Tasks, op[t] # "none", NEW elapsed \in BOOLEAN,
           End(t, elapsed), loop \in {"running", "ending"},
           strayed' \in BOOLEAN, strayed => strayed',
           loop = "running" => elapsed \/ strayed' \/ result[t].complete,
           wakeups' \in [Tasks -> Nat],
           \A u \in Tasks : u # t => wakeups'[u] = wakeups[u],
           UNCHANGED <<size, sawEnd>>
    PROVE  FileInv'
<1> USE FileAssumption DEF FileInv
<1>1. /\ op \in [Tasks -> {"none", "read", "write"}]
      /\ result[t] \in [done : 0..Length, error : BOOLEAN, complete : BOOLEAN]
      /\ result[t].done \in 0..Length /\ done[t] \in 0..(Length - 1)
      /\ readOffset \in 0..MaxSize /\ writeOffset \in Nat /\ size \in 0..MaxSize
      /\ status \subseteq Flags /\ aio \subseteq Requests
    BY DEF TypeOK
<1>2. Abandoned(t, aio) \subseteq Requests
    BY <1>1, AbandonedKeeps
<1>3. CASE loop' = "crashed" /\ UNCHANGED <<stream, calls, aio>>
  <2>1. UNCHANGED <<created, status, readOffset, writeOffset>>
      BY <1>3 DEF stream
  <2> QED
      BY <1>1, <1>3, <2>1, StatusStep
<1>4. CASE op[t] = "read" /\ EndRead(t, elapsed) /\ UNCHANGED loop
  <2>1. /\ Returned(t) /\ aio' = Abandoned(t, aio)
        /\ readOffset' \in {readOffset, readOffset + result[t].done}
        /\ status' \in SUBSET Flags /\ status \subseteq status'
        /\ elapsed => TimeoutFlag("read") \in status'
        /\ UNCHANGED <<created, writeOffset, result, done, loop>>
      BY <1>1, <1>4 DEF EndRead, Flags, TimeoutFlag
  <2>2. readOffset' \in 0..MaxSize
      BY <1>1, <1>4, <2>1 DEF ReadsWithin
  <2>3. TypeOK'
      BY <1>2, <2>1, <2>2 DEF TypeOK, Returned
  <2> QED
      BY <1>4, <2>1, <2>3, ReturnStep
<1>5. CASE op[t] = "write" /\ EndWrite(t, elapsed) /\ UNCHANGED loop
  <2> DEFINE total == done[t] + result[t].done
             stop == status \cap WriteFailures # {} \/ elapsed
  <2>1. UNCHANGED <<created, readOffset, loop>>
      BY <1>5 DEF EndWrite
  <2>2. CASE WriteReturns(t)
    <3>1. /\ status' \in SUBSET Flags /\ status \subseteq status'
          /\ elapsed => TimeoutFlag("write") \in status'
          /\ writeOffset' \in Nat
      <4>1. CASE stop \/ result[t].error
          BY <1>1, <1>5, <4>1 DEF EndWrite, Flags, TimeoutFlag
      <4>2. CASE ~(stop \/ result[t].error)
        <5>1. writeOffset' = writeOffset + result[t].done /\ ~elapsed
              /\ status' \in {status, status \cup {"error"}}
            BY <1>5, <4>2 DEF EndWrite, NextRound
        <5> QED
            BY <1>1, <5>1 DEF Flags
      <4> QED
          BY <4>1, <4>2
    <3>2. /\ Returned(t) /\ aio' = Abandoned(t, aio) /\ UNCHANGED result
          /\ done' = [done EXCEPT ![t] = 0]
        BY <2>2 DEF WriteReturns
    <3>3. TypeOK'
      <4>1. 0 \in 0..(Length - 1)
          OBVIOUS
      <4> QED
          BY <1>2, <2>1, <3>1, <3>2, <4>1 DEF TypeOK, Returned
    <3> QED
        BY <1>5, <2>1, <3>1, <3>2, <3>3, ReturnStep
  <2>3. CASE ~WriteReturns(t)
    <3>1. /\ ~elapsed /\ total < Length /\ NextRound(t, total) /\ UNCHANGED status
          /\ writeOffset' = writeOffset + result[t].done
        BY <1>5, <2>3 DEF EndWrite
    <3>2. total \in 0..(Length - 1) /\ Length - total \in 1..Length /\ writeOffset' \in Nat
        BY <1>1, <3>1
    <3>3. /\ Submit(t, "write", writeOffset', Length - total)
          /\ done' = [done EXCEPT ![t] = total]
          /\ result' = [result EXCEPT ![t] = Pending]
          /\ UNCHANGED <<op, timers>>
        BY <3>1 DEF NextRound
    <3> HIDE DEF total
    <3>4. PICK r \in Requests : /\ aio' = aio \cup {r} /\ r.live
                                /\ r.task = t /\ r.kind = "write" /\ r.offset = writeOffset'
        BY <3>2, <3>3, SubmitAdds
    <3>5. Pending \in [done : 0..Length, error : BOOLEAN, complete : BOOLEAN]
        BY DEF Pending
    <3>6. TypeOK'
        BY <1>1, <2>1, <3>1, <3>2, <3>3, <3>4, <3>5 DEF TypeOK
    <3> QED
        BY <1>5, <2>1, <3>1, <3>3, <3>4, <3>6, RoundStep
  <2> QED
      BY <2>2, <2>3
<1> QED
    BY <1>3, <1>4, <1>5 DEF End

LEMMA DeliverStep ==
    ASSUME FileInv, NEW t \in Tasks, Deliver(t)
    PROVE  FileInv'
<1>1. /\ loop \in {"running", "ending"} /\ wakeups[t] > 0
      /\ wakeups \in [Tasks -> Nat] /\ wakeups' = [wakeups EXCEPT ![t] = @ - 1]
      /\ strayed \in BOOLEAN
      /\ strayed' = (strayed \/ (op[t] # "none" /\ ~result[t].complete))
      /\ UNCHANGED <<size, sawEnd>>
    BY DEF Deliver, FileInv, TypeOK
<1>2. wakeups' \in [Tasks -> Nat] /\ \A u \in Tasks : u # t => wakeups'[u] = wakeups[u]
    BY <1>1
<1>3. strayed' \in BOOLEAN /\ (strayed => strayed')
    BY <1>1, Zenon
<1>4. CASE op[t] = "none"
  <2>1. strayed' = strayed /\ UNCHANGED <<stream, calls, aio, loop>>
      BY <1>1, <1>4 DEF Deliver
  <2> QED
      BY <1>1, <1>2, <1>4, <2>1
         DEF FileInv, TypeOK, stream, calls, SleeperHasWaker, FrameOutlivesRequest,
             RequestsOfCalls, OneRequest, ReadsWithin, ResultsRight
<1>5. CASE op[t] # "none"
  <2>1. End(t, FALSE)
      BY <1>5 DEF Deliver
  <2>2. strayed' \/ result[t].complete
      BY <1>1, <1>5
  <2> QED
      BY <1>1, <1>2, <1>3, <1>5, <2>1, <2>2, EndStep
<1> QED
    BY <1>4, <1>5

LEMMA TimeoutStep ==
    ASSUME FileInv, NEW t \in Tasks, Timeout(t)
    PROVE  FileInv'
<1> DEFINE elapsed == loop = "running"
<1>1. /\ loop \in {"running", "ending"} /\ End(t, elapsed) /\ elapsed \in BOOLEAN
      /\ op[t] # "none" \/ UNCHANGED <<stream, calls, aio>>
      /\ UNCHANGED <<wakeups, size, sawEnd, strayed>>
      /\ wakeups \in [Tasks -> Nat] /\ strayed \in BOOLEAN
    BY DEF Timeout, End, history, FileInv, TypeOK
<1>2. CASE op[t] # "none"
    BY <1>1, <1>2, EndStep
<1>3. CASE op[t] = "none"
  <2>1. loop' = "crashed" /\ UNCHANGED <<stream, calls, aio>>
      BY <1>1, <1>3 DEF End
  <2>2. UNCHANGED <<created, status, readOffset, writeOffset>>
      BY <2>1 DEF stream
  <2> QED
      BY <1>1, <2>1, <2>2, StatusStep DEF FileInv, TypeOK
<1> QED
    BY <1>2, <1>3

-----------------------------------------------------------------------------
(* aio *)

(* How far a request gets: a read stays within the file, which only grows. *)
LEMMA TransferredWithin ==
    ASSUME FileInv, NEW r \in aio, NEW n \in 0..r.length, Transferred(r, n)
    PROVE  /\ size' \in 0..MaxSize /\ size <= size' /\ sawEnd' \in BOOLEAN
           /\ (sawEnd => sawEnd')
           /\ r.kind = "read" =>
                 /\ r.offset <= size => r.offset + n <= size
                 /\ n = 0 => sawEnd'
<1>1. /\ r.kind \in {"read", "write"} /\ r.offset \in Nat /\ n \in Nat
      /\ size \in 0..MaxSize /\ sawEnd \in BOOLEAN /\ MaxSize \in Nat
    BY FileAssumption DEF FileInv, TypeOK, Requests
<1>2. CASE r.kind = "read"
  <2>1. /\ n <= (IF size > r.offset THEN size - r.offset ELSE 0)
        /\ sawEnd' = (sawEnd \/ n = 0) /\ size' = size
      BY <1>2 DEF Transferred
  <2>2. sawEnd' \in BOOLEAN /\ (sawEnd => sawEnd') /\ (n = 0 => sawEnd')
      BY <2>1, Zenon
  <2> QED
      BY <1>1, <2>1, <2>2
<1>3. CASE r.kind = "write"
    BY <1>1, <1>3 DEF Transferred
<1> QED
    BY <1>1, <1>2, <1>3

LEMMA CompleteStep ==
    ASSUME FileInv, NEW r \in aio, Complete(r)
    PROVE  FileInv'
<1> USE FileAssumption DEF FileInv
<1>1. PICK n \in 0..r.length, error \in BOOLEAN :
          /\ Completion(r, n, error)
          /\ \/ ~error /\ Transferred(r, n)
             \/ error /\ n = 0 /\ UNCHANGED <<size, sawEnd>>
  <2>1. 0 \in 0..r.length
      BY DEF TypeOK, Requests
  <2> QED
      BY <2>1 DEF Complete
<1>2. /\ loop \in {"running", "ending"} /\ aio' = aio \ {r}
      /\ UNCHANGED <<created, status, readOffset, writeOffset, op, done, timers, strayed,
                     loop>>
    BY <1>1 DEF Complete, stream, Completion
<1>3. /\ r.task \in Tasks /\ r.kind \in {"read", "write"} /\ r.live \in BOOLEAN
      /\ r.offset \in Nat /\ n \in 0..Length /\ size \in 0..MaxSize
      /\ \A s \in aio : s.task \in Tasks
    BY DEF TypeOK, Requests
<1>4. /\ size' \in 0..MaxSize /\ size <= size' /\ sawEnd' \in BOOLEAN /\ (sawEnd => sawEnd')
      /\ r.kind = "read" =>
            /\ r.offset <= size => r.offset + n <= size
            /\ n = 0 => error \/ sawEnd'
  <2>1. CASE Transferred(r, n)
      BY <2>1, TransferredWithin
  <2>2. CASE error /\ n = 0 /\ UNCHANGED <<size, sawEnd>>
      BY <1>3, <2>2 DEF TypeOK
  <2> QED
      BY <1>1, <2>1, <2>2
<1> DEFINE answer == [done |-> n, error |-> error, complete |-> TRUE]
<1>5. /\ wakeups \in [Tasks -> Nat] /\ wakeups' = [wakeups EXCEPT ![r.task] = @ + 1]
      /\ \A u \in Tasks : result'[u] = IF r.live /\ u = r.task THEN answer ELSE result[u]
      /\ result' \in [Tasks -> [done : 0..Length, error : BOOLEAN, complete : BOOLEAN]]
    BY <1>1, <1>3 DEF Completion, TypeOK
<1>6. /\ wakeups' \in [Tasks -> Nat]
      /\ \A u \in Tasks : wakeups'[u] = IF u = r.task THEN wakeups[u] + 1 ELSE wakeups[u]
    BY <1>3, <1>5
<1>7. answer.done = n /\ answer.error = error /\ answer.complete
    OBVIOUS
<1> HIDE DEF answer
<1>8. TypeOK'
    BY <1>2, <1>4, <1>5, <1>6 DEF TypeOK
<1>9. SleeperHasWaker'
    BY <1>2, <1>3, <1>5, <1>6 DEF SleeperHasWaker
<1>10. FrameOutlivesRequest' /\ RequestsOfCalls'
    BY <1>2 DEF FrameOutlivesRequest, RequestsOfCalls
<1>11. OneRequest'
    BY <1>2, <1>3, <1>5 DEF OneRequest
<1>12. ReadsWithin'
  <2>1. readOffset \in Nat /\ \A u \in Tasks : result[u].done \in Nat
      BY DEF TypeOK
  <2>2. ASSUME NEW u \in Tasks, op[u] = "read" PROVE readOffset + result'[u].done <= size'
    <3>1. CASE r.live /\ u = r.task
      <4>1. r.kind = "read" /\ r.offset = readOffset
          BY <2>2, <3>1 DEF RequestsOfCalls, ReadsWithin
      <4>2. readOffset + n <= size
          BY <1>4, <4>1 DEF ReadsWithin
      <4> QED
          BY <1>3, <1>4, <1>5, <1>7, <2>1, <3>1, <4>2
    <3>2. CASE ~(r.live /\ u = r.task)
      <4>1. result'[u].done = result[u].done /\ readOffset + result[u].done <= size
          BY <1>5, <2>2, <3>2 DEF ReadsWithin
      <4> QED
          BY <1>3, <1>4, <2>1, <4>1
    <3> QED
        BY <3>1, <3>2
  <2>3. readOffset <= size'
      BY <1>3, <1>4, <2>1 DEF ReadsWithin
  <2> QED
      BY <1>2, <2>2, <2>3 DEF ReadsWithin
<1>13. ResultsRight'
    BY <1>2, <1>4, <1>5, <1>7 DEF ResultsRight, RequestsOfCalls
<1> QED
    BY <1>8, <1>9, <1>10, <1>11, <1>12, <1>13

LEMMA StepFile == FileInv /\ [Next]_vars => FileInv'
<1> SUFFICES ASSUME FileInv, [Next]_vars PROVE FileInv'
    OBVIOUS
<1>1. status \subseteq Flags /\ wakeups \in [Tasks -> Nat] /\ strayed \in BOOLEAN
    BY DEF FileInv, TypeOK
<1>2. CASE \E t \in Tasks : TaskStep(t)
  <2>1. PICK t \in Tasks : TaskStep(t)
      BY <1>2
  <2>2. CASE \E kind \in {"read", "write"} : Refused(t, kind)
    <3>1. status' = status \cup {"error"} /\ status' \in SUBSET Flags
        BY <1>1, <2>2 DEF Refused, Flags
    <3> QED
        BY <1>1, <2>2, <3>1, StatusStep DEF Refused, history
  <2>3. CASE Close(t)
    <3>1. status' = status \cup {"closed"} /\ status' \in SUBSET Flags
        BY <1>1, <2>3 DEF Close, Flags
    <3> QED
        BY <1>1, <2>3, <3>1, StatusStep DEF Close, history
  <2> QED
      BY <2>1, <2>2, <2>3, ReadStep, WriteStep DEF TaskStep
<1>3. CASE \E t \in Tasks : Deliver(t) \/ Timeout(t)
    BY <1>3, DeliverStep, TimeoutStep
<1>4. CASE \E r \in aio : Complete(r)
    BY <1>4, CompleteStep
<1>5. CASE \E r \in aio : FrameOverwritten(r)
    BY <1>1, <1>5, StatusStep DEF FrameOverwritten, stream, history
<1>6. CASE Stop
    BY <1>1, <1>6, StatusStep DEF Stop, stream, history
<1>7. CASE UNCHANGED vars
    BY <1>7 DEF vars, stream, calls, history, FileInv, TypeOK, SleeperHasWaker,
       FrameOutlivesRequest, RequestsOfCalls, OneRequest, ReadsWithin, ResultsRight
<1> QED
    BY <1>2, <1>3, <1>4, <1>5, <1>6, <1>7 DEF Next

(* A call that sleeps always has a request with aio or a wakeup on its way,*)
(* and a request that outlives its frame belongs to a call that timed out, *)
(* or that was woken by the wakeup of such a call.                         *)
THEOREM FileInvariance == Spec => []FileInv
    BY InitFile, StepFile, PTL DEF Spec

-----------------------------------------------------------------------------
(* What a stream tells its user *)

(* the offset the file had when it was opened; is the count to be right? *)
Base == IF created THEN 0 ELSE InitSize
Healthy == loop = "running" /\ ~strayed /\ status \cap WriteFailures = {}

(* WrittenIsCounted, told apart by whether there is a writer.              *)
LEMMA Counted ==
    WrittenIsCounted <=>
        (Healthy =>
            \/ (\A t \in Tasks : op[t] # "write") /\ size = Base + writeOffset
            \/ \E t \in Tasks : op[t] = "write" /\ size = Base + writeOffset + result[t].done)
    BY DEF WrittenIsCounted, Healthy, Base

LEMMA CountedNext ==
    WrittenIsCounted' <=>
        (Healthy' =>
            \/ (\A t \in Tasks : op'[t] # "write") /\ size' = Base' + writeOffset'
            \/ \E t \in Tasks : /\ op'[t] = "write"
                               /\ size' = Base' + writeOffset' + result'[t].done)
    BY DEF WrittenIsCounted, Healthy, Base

LEMMA CountTypes ==
    ASSUME FileInv
    PROVE  /\ size \in Nat /\ writeOffset \in Nat /\ Base \in Nat
           /\ op \in [Tasks -> {"none", "read", "write"}]
           /\ \A t \in Tasks : result[t].done \in Nat
           /\ \A t, u \in Tasks : op[t] = "write" /\ op[u] = "write" => t = u
           /\ \A r \in aio :
                 r.task \in Tasks /\ r.kind \in {"read", "write"} /\ r.offset \in Nat
<1>1. /\ size \in Nat /\ writeOffset \in Nat /\ Base \in Nat
      /\ op \in [Tasks -> {"none", "read", "write"}]
      /\ \A t \in Tasks : result[t].done \in Nat
    BY FileAssumption DEF FileInv, TypeOK, Base
<1>2. \A t, u \in Tasks : op[t] = "write" /\ op[u] = "write" => t = u
    BY DEF FileInv, RequestsOfCalls
<1>3. \A r \in aio : r.task \in Tasks /\ r.kind \in {"read", "write"} /\ r.offset \in Nat
    BY DEF FileInv, TypeOK, Requests
<1> QED
    BY <1>1, <1>2, <1>3

LEMMA InitContent == Init => ContentRight
<1> SUFFICES ASSUME Init PROVE ContentRight
    OBVIOUS
<1>1. /\ Base \in Nat /\ writeOffset = 0 /\ size = Base /\ status = {}
      /\ \A t \in Tasks : op[t] = "none"
    BY FileAssumption DEF Init, Base
<1> QED
    BY <1>1, Counted DEF ContentRight, EofMeansEnd

LEMMA BeginContent ==
    ASSUME FileInv, ContentRight, NEW t \in Tasks, NEW kind \in {"read", "write"},
           May(t, kind), op' = [op EXCEPT ![t] = kind],
           result' = [result EXCEPT ![t] = Pending],
           UNCHANGED <<stream, loop, size, history>>
    PROVE  ContentRight'
<1>1. /\ UNCHANGED <<created, status, writeOffset, loop, size, sawEnd, strayed>>
      /\ op[t] = "none" /\ \A u \in Tasks : op[u] # kind
    BY DEF stream, history, May
<1>2. /\ \A u \in Tasks : op'[u] = IF u = t THEN kind ELSE op[u]
      /\ \A u \in Tasks : result'[u].done = IF u = t THEN 0 ELSE result[u].done
    BY DEF FileInv, TypeOK, Pending
<1>3. Healthy' = Healthy /\ Base' = Base
    BY <1>1 DEF Healthy, Base
<1>4. WrittenIsCounted'
  <2> SUFFICES ASSUME Healthy'
               PROVE  \/ (\A u \in Tasks : op'[u] # "write") /\ size' = Base' + writeOffset'
                      \/ \E u \in Tasks : /\ op'[u] = "write"
                                         /\ size' = Base' + writeOffset' + result'[u].done
      BY CountedNext
  <2>1. \/ (\A u \in Tasks : op[u] # "write") /\ size = Base + writeOffset
        \/ \E u \in Tasks : op[u] = "write" /\ size = Base + writeOffset + result[u].done
      BY <1>3, Counted DEF ContentRight
  <2>2. CASE kind = "write"
    <3>1. size = Base + writeOffset + 0
        BY <1>1, <2>1, <2>2, CountTypes
    <3> QED
        BY <1>1, <1>2, <1>3, <2>2, <3>1
  <2>3. CASE kind = "read"
      BY <1>1, <1>2, <1>3, <2>1, <2>3
  <2> QED
      BY <2>2, <2>3
<1> QED
    BY <1>1, <1>4 DEF ContentRight, EofMeansEnd

(* Where the count need not be right any more and no read ends.            *)
LEMMA UnhealthyStep ==
    ASSUME ContentRight, ~Healthy', loop' = "running" => loop = "running",
           status \subseteq status', "eof" \in status' => "eof" \in status,
           sawEnd => sawEnd', strayed => strayed'
    PROVE  ContentRight'
    BY CountedNext DEF ContentRight, EofMeansEnd

LEMMA EndContent ==
    ASSUME FileInv, ContentRight, NEW t \in Tasks, op[t] # "none", NEW elapsed \in BOOLEAN,
           End(t, elapsed), strayed => strayed',
           loop = "running" => elapsed \/ strayed' \/ result[t].complete,
           UNCHANGED <<size, sawEnd>>
    PROVE  ContentRight'
<1>1. CASE loop' = "crashed"
    BY <1>1, CountedNext DEF ContentRight, EofMeansEnd, Healthy
<1>2. CASE op[t] = "read" /\ EndRead(t, elapsed) /\ UNCHANGED loop
  <2>1. /\ status \subseteq status' /\ op' = [op EXCEPT ![t] = "none"]
        /\ UNCHANGED <<created, writeOffset, result, loop, size, sawEnd>>
        /\ "eof" \in status' => "eof" \in status \/ (~elapsed /\ result[t].done = 0)
        /\ ~elapsed /\ result[t].error => "error" \in status'
      BY <1>2 DEF EndRead, Returned
  <2>2. \A u \in Tasks : op'[u] = "write" <=> op[u] = "write"
      BY <1>2, <2>1, CountTypes
  <2>3. (Healthy' => Healthy) /\ Base' = Base
      BY <2>1 DEF Healthy, Base
  <2>4. WrittenIsCounted'
      BY <2>1, <2>2, <2>3, Counted, CountedNext DEF ContentRight
  <2>5. EofMeansEnd'
      BY <1>2, <2>1 DEF ContentRight, EofMeansEnd, FileInv, ResultsRight
  <2> QED
      BY <2>4, <2>5 DEF ContentRight
<1>3. CASE op[t] = "write" /\ EndWrite(t, elapsed) /\ UNCHANGED loop
  <2> DEFINE stop == status \cap WriteFailures # {} \/ elapsed
  <2>1. /\ UNCHANGED <<created, loop, size, sawEnd>>
        /\ status' \subseteq status \cup {"write_timeout", "error"} /\ status \subseteq status'
      BY <1>3 DEF EndWrite
  <2>2. CASE stop \/ result[t].error
    <3>1. status' \cap WriteFailures # {}
        BY <1>3, <2>2 DEF EndWrite, WriteFailures, Flags
    <3> QED
        BY <2>1, <3>1, UnhealthyStep DEF Healthy
  <2>3. CASE ~(stop \/ result[t].error)
    <3>1. /\ writeOffset' = writeOffset + result[t].done /\ ~elapsed
          /\ status \cap WriteFailures = {}
          /\ \/ op' = [op EXCEPT ![t] = "none"]
             \/ op' = op /\ result' = [result EXCEPT ![t] = Pending]
        BY <1>3, <2>3 DEF EndWrite, NextRound, WriteReturns, Returned
    <3>2. CASE ~Healthy'
        BY <2>1, <3>2, UnhealthyStep
    <3>3. CASE Healthy'
      <4>1. Healthy /\ Base' = Base
          BY <2>1, <3>1, <3>3 DEF Healthy, Base
      <4>2. size = Base + writeOffset + result[t].done
          BY <1>3, <4>1, Counted, CountTypes DEF ContentRight
      <4>3. size' = Base' + writeOffset' /\ size' = Base' + writeOffset' + 0
          BY <2>1, <3>1, <4>1, <4>2, CountTypes
      <4>4. CASE op' = [op EXCEPT ![t] = "none"]
        <5>1. \A u \in Tasks : op'[u] # "write"
            BY <1>3, <4>4, CountTypes
        <5> QED
            BY <2>1, <4>3, <5>1, CountedNext DEF ContentRight, EofMeansEnd
      <4>5. CASE op' = op /\ result' = [result EXCEPT ![t] = Pending]
        <5>1. op'[t] = "write" /\ result'[t].done = 0
            BY <1>3, <4>5 DEF FileInv, TypeOK, Pending
        <5> QED
            BY <2>1, <4>3, <5>1, CountedNext DEF ContentRight, EofMeansEnd
      <4> QED
          BY <3>1, <4>4, <4>5
    <3> QED
        BY <3>2, <3>3
  <2> QED
      BY <2>2, <2>3
<1> QED
    BY <1>1, <1>2, <1>3 DEF End

(* A write that aio finishes makes the file longer by what the request     *)
(* reports, whether it appends or goes to the offset of the stream.        *)
LEMMA CompleteContent ==
    ASSUME FileInv, ContentRight, NEW r \in aio, Complete(r)
    PROVE  ContentRight'
<1>1. PICK n \in 0..r.length, error \in BOOLEAN :
          /\ Completion(r, n, error)
          /\ \/ ~error /\ Transferred(r, n)
             \/ error /\ n = 0 /\ UNCHANGED <<size, sawEnd>>
  <2>1. 0 \in 0..r.length
      BY DEF FileInv, TypeOK, Requests
  <2> QED
      BY <2>1 DEF Complete
<1>2. /\ UNCHANGED <<created, status, writeOffset, op, strayed, loop>>
      /\ sawEnd => sawEnd'
    BY <1>1, TransferredWithin DEF Complete, stream, Completion
<1>3. /\ \A u \in Tasks :
            result'[u].done = IF r.live /\ u = r.task THEN n ELSE result[u].done
      /\ n \in Nat /\ r.live \in BOOLEAN
    BY <1>1, CountTypes DEF Completion, FileInv, TypeOK, Requests
<1>4. (Healthy <=> Healthy') /\ Base' = Base
    BY <1>2 DEF Healthy, Base
<1>5. WrittenIsCounted'
  <2> SUFFICES ASSUME Healthy'
               PROVE  \/ (\A u \in Tasks : op'[u] # "write") /\ size' = Base' + writeOffset'
                      \/ \E u \in Tasks : /\ op'[u] = "write"
                                         /\ size' = Base' + writeOffset' + result'[u].done
      BY CountedNext
  <2>1. \/ (\A u \in Tasks : op[u] # "write") /\ size = Base + writeOffset
        \/ \E u \in Tasks : op[u] = "write" /\ size = Base + writeOffset + result[u].done
      BY <1>4, Counted DEF ContentRight
  <2>2. CASE r.live /\ r.kind = "write"
    <3>1. /\ op[r.task] = "write" /\ result[r.task].done = 0 /\ r.offset = writeOffset
        BY <1>4, <2>2, CountTypes
           DEF Healthy, FileInv, RequestsOfCalls, OneRequest, ResultsRight
    <3>2. size = Base + writeOffset + 0
        BY <2>1, <3>1, CountTypes
    <3>3. size' = size + n
      <4>1. CASE Transferred(r, n)
        <5>1. created => size = writeOffset
            BY <3>2, CountTypes DEF Base
        <5> QED
            BY <1>3, <2>2, <3>1, <4>1, <5>1, CountTypes DEF Transferred
      <4>2. CASE n = 0 /\ UNCHANGED size
          BY <4>2, CountTypes
      <4> QED
          BY <1>1, <4>1, <4>2
    <3>4. size' = Base' + writeOffset' + n
        BY <1>2, <1>3, <1>4, <3>2, <3>3, CountTypes
    <3> QED
        BY <1>2, <1>3, <2>2, <3>1, <3>4, CountTypes
  <2>3. CASE ~r.live /\ r.kind = "write"
    <3>1. "write_timeout" \in status
        BY <1>4, <2>3 DEF Healthy, FileInv, FrameOutlivesRequest
    <3> QED
        BY <1>4, <3>1 DEF Healthy, WriteFailures, Flags
  <2>4. CASE r.kind = "read"
    <3>1. size' = size
        BY <1>1, <2>4 DEF Transferred
    <3>2. r.live => op[r.task] = "read"
        BY <2>4 DEF FileInv, RequestsOfCalls
    <3>3. \A u \in Tasks : op[u] = "write" => result'[u].done = result[u].done
        BY <1>3, <3>2
    <3> QED
        BY <1>2, <1>4, <2>1, <3>1, <3>3
  <2> QED
      BY <1>3, <2>2, <2>3, <2>4, CountTypes
<1> QED
    BY <1>2, <1>5 DEF ContentRight, EofMeansEnd

LEMMA StepContent == FileInv /\ ContentRight /\ [Next]_vars => ContentRight'
<1> SUFFICES ASSUME FileInv, ContentRight, [Next]_vars PROVE ContentRight'
    OBVIOUS
<1>1. strayed \in BOOLEAN
    BY DEF FileInv, TypeOK
<1>2. ASSUME NEW t \in Tasks, NEW n \in 1..Length, NEW timeout \in BOOLEAN,
             Read(t, n, timeout)
      PROVE  ContentRight'
    BY <1>2, BeginContent DEF Read
<1>3. ASSUME NEW t \in Tasks, NEW timeout \in BOOLEAN, Write(t, timeout)
      PROVE  ContentRight'
    BY <1>3, BeginContent DEF Write
<1>4. ASSUME NEW t \in Tasks, NEW kind \in {"read", "write"}, Refused(t, kind)
      PROVE  ContentRight'
  <2>1. /\ status' = status \cup {"error"}
        /\ UNCHANGED <<loop, sawEnd, strayed>>
      BY <1>4 DEF Refused, history
  <2>2. ~Healthy'
      BY <2>1 DEF Healthy, WriteFailures, Flags
  <2> QED
      BY <2>1, <2>2, UnhealthyStep
<1>5. ASSUME NEW t \in Tasks, Close(t) PROVE ContentRight'
  <2>1. /\ status' = status \cup {"closed"}
        /\ UNCHANGED <<loop, sawEnd, strayed>>
      BY <1>5 DEF Close, history
  <2>2. ~Healthy'
      BY <2>1 DEF Healthy, WriteFailures, Flags
  <2> QED
      BY <2>1, <2>2, UnhealthyStep
<1>6. ASSUME NEW t \in Tasks, Deliver(t) PROVE ContentRight'
  <2>1. /\ strayed' = (strayed \/ (op[t] # "none" /\ ~result[t].complete))
        /\ UNCHANGED <<size, sawEnd>>
      BY <1>6 DEF Deliver
  <2>2. CASE op[t] = "none"
    <3>1. strayed' = strayed /\ UNCHANGED <<stream, calls, loop>>
        BY <1>1, <1>6, <2>1, <2>2 DEF Deliver
    <3> QED
        BY <2>1, <3>1, Counted, CountedNext
           DEF ContentRight, EofMeansEnd, Healthy, Base, stream, calls
  <2>3. CASE op[t] # "none"
      BY <1>6, <2>1, <2>3, EndContent DEF Deliver
  <2> QED
      BY <2>2, <2>3
<1>7. ASSUME NEW t \in Tasks, Timeout(t) PROVE ContentRight'
  <2>1. /\ End(t, loop = "running") /\ UNCHANGED <<size, sawEnd, strayed>>
      BY <1>7 DEF Timeout, history
  <2>2. CASE op[t] # "none"
      BY <2>1, <2>2, EndContent
  <2>3. CASE op[t] = "none"
    <3>1. loop' = "crashed"
        BY <2>1, <2>3 DEF End
    <3> QED
        BY <3>1, CountedNext DEF ContentRight, EofMeansEnd, Healthy
  <2> QED
      BY <2>2, <2>3
<1>8. CASE Stop \/ \E r \in aio : FrameOverwritten(r)
    BY <1>8, CountedNext DEF Stop, FrameOverwritten, ContentRight, EofMeansEnd, Healthy
<1>9. CASE UNCHANGED vars
    BY <1>9, Counted, CountedNext
       DEF vars, stream, calls, history, ContentRight, EofMeansEnd, Healthy, Base
<1> QED
    BY <1>2, <1>3, <1>4, <1>5, <1>6, <1>7, <1>8, <1>9, CompleteContent DEF Next, TaskStep

(* A read reports the end of the file only when it has found it or failed, *)
(* and the offset of writes counts what is in the file, as long as no      *)
(* stray wakeup comes and the stream has not failed.                       *)
THEOREM ContentAgrees == Spec => []ContentRight
    BY InitFile, StepFile, InitContent, StepContent, PTL DEF Spec
=============================================================================
