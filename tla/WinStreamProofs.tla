--------------------------- MODULE WinStreamProofs ---------------------------
(***************************************************************************)
(* Proofs about a stream over a completion port, for any number of tasks,  *)
(* operations and bytes.  WinInv is inductive: CallsReserved says whom a   *)
(* packet resumes, OperationsOfCalls that this is the call that waits for  *)
(* it, and LeftBehind that the other packets find a stream that says so.   *)
(* OpenMeansConnected and BytesAccounted follow step by step from it.      *)
(***************************************************************************)
EXTENDS WinStream, TLAPS

TimeoutFlag(kind) == IF kind = "write" THEN "write_timeout" ELSE "read_timeout"

(* What is started is an operation that its call waits for.                *)
LEMMA SubmitAdds ==
    ASSUME NEW t \in Tasks, NEW kind \in {"read", "write", "connect"},
           NEW length \in 0..Length, NEW ops, Submit(t, kind, length, ops)
    PROVE  \E r \in Operations :
              /\ io' = ops \cup {r} /\ r.live /\ r.pending /\ r.n = 0 /\ r.error = "none"
              /\ r.kind = kind /\ r.task = t
<1>1. PICK id \in 1..MaxOps :
          io' = ops \cup {[kind |-> kind, task |-> t, id |-> id, length |-> length,
                           live |-> TRUE, pending |-> TRUE, n |-> 0, error |-> "none"]}
    BY DEF Submit
<1>2. [kind |-> kind, task |-> t, id |-> id, length |-> length,
       live |-> TRUE, pending |-> TRUE, n |-> 0, error |-> "none"] \in Operations
    BY WinAssumption DEF Operations
<1> QED
    BY <1>1, <1>2

(* an operation once the call of t has returned *)
Left(r, t) == [r EXCEPT !.live = @ /\ r.task # t]

(* A call that returns waits for its operations no longer, which are the   *)
(* same otherwise.                                                         *)
LEMMA AbandonedKeeps ==
    ASSUME NEW ops \in SUBSET Operations, NEW t \in Tasks
    PROVE  /\ Abandoned(t, ops) \subseteq Operations
           /\ \A q \in Abandoned(t, ops) :
                 /\ q.live => q \in ops /\ q.task # t
                 /\ ~q.live => \/ q \in ops
                              \/ \E r \in ops : r.live /\ r.task = t /\ r.kind = q.kind
                 /\ \E r \in ops : /\ q.kind = r.kind /\ q.pending = r.pending /\ q.n = r.n
                                   /\ q.error = r.error /\ q.task = r.task
                                   /\ q = Left(r, t)
           /\ \A r \in ops : ~r.live \/ r.task # t => r \in Abandoned(t, ops)
<1>1. ASSUME NEW r \in ops
      PROVE  /\ Left(r, t) \in Operations /\ Left(r, t).live = (r.live /\ r.task # t)
             /\ Left(r, t).kind = r.kind /\ Left(r, t).pending = r.pending
             /\ Left(r, t).n = r.n /\ Left(r, t).error = r.error /\ Left(r, t).task = r.task
             /\ ~r.live \/ r.task # t => Left(r, t) = r
             /\ r.live \in BOOLEAN
  <2>1. r \in Operations /\ r.live \in BOOLEAN /\ (r.live /\ r.task # t) \in BOOLEAN
      BY DEF Operations
  <2>2. /\ Left(r, t) \in Operations /\ Left(r, t).live = (r.live /\ r.task # t)
        /\ Left(r, t).kind = r.kind /\ Left(r, t).pending = r.pending /\ Left(r, t).n = r.n
        /\ Left(r, t).error = r.error /\ Left(r, t).task = r.task
      BY <2>1 DEF Operations, Left
  <2>3. ~r.live \/ r.task # t => Left(r, t) = r
      BY <2>1 DEF Operations, Left
  <2> QED
      BY <2>1, <2>2, <2>3
<1>2. Abandoned(t, ops) = {Left(r, t) : r \in ops}
    BY DEF Abandoned, Left
<1>3. ASSUME NEW q \in Abandoned(t, ops)
      PROVE  /\ q \in Operations
             /\ q.live => q \in ops /\ q.task # t
             /\ ~q.live => \/ q \in ops
                          \/ \E r \in ops : r.live /\ r.task = t /\ r.kind = q.kind
             /\ \E r \in ops : /\ q.kind = r.kind /\ q.pending = r.pending /\ q.n = r.n
                               /\ q.error = r.error /\ q.task = r.task
                               /\ q = Left(r, t)
  <2>1. PICK r \in ops : q = Left(r, t)
      BY <1>2
  <2> QED
      BY <1>1, <2>1
<1>4. \A r \in ops : ~r.live \/ r.task # t => r \in Abandoned(t, ops)
    BY <1>1, <1>2
<1> QED
    BY <1>3, <1>4

LEMMA AbortedKeeps ==
    ASSUME NEW ops \in SUBSET Operations
    PROVE  /\ Aborted(ops) \subseteq Operations
           /\ \A q \in Aborted(ops) :
                 /\ ~q.pending
                 /\ \E r \in ops : /\ q.kind = r.kind /\ q.live = r.live /\ q.task = r.task
                                   /\ q.n = r.n
                                   /\ q = r \/ (r.pending /\ q.error = "aborted")
<1> DEFINE Ended(r) == [r EXCEPT !.pending = FALSE, !.length = 0, !.error = "aborted"]
<1>1. ASSUME NEW r \in ops
      PROVE  /\ Ended(r) \in Operations /\ ~Ended(r).pending /\ Ended(r).error = "aborted"
             /\ Ended(r).kind = r.kind /\ Ended(r).live = r.live /\ Ended(r).task = r.task
             /\ Ended(r).n = r.n
  <2>1. r \in Operations /\ 0 \in 0..Length
      BY WinAssumption
  <2> QED
      BY <2>1 DEF Operations
<1>2. Aborted(ops) = {IF r.pending THEN Ended(r) ELSE r : r \in ops}
    BY DEF Aborted
<1> HIDE DEF Ended
<1>3. ASSUME NEW q \in Aborted(ops)
      PROVE  /\ q \in Operations /\ ~q.pending
             /\ \E r \in ops : /\ q.kind = r.kind /\ q.live = r.live /\ q.task = r.task
                               /\ q.n = r.n
                               /\ q = r \/ (r.pending /\ q.error = "aborted")
  <2>1. PICK r \in ops : q = IF r.pending THEN Ended(r) ELSE r
      BY <1>2
  <2>2. CASE r.pending
      BY <1>1, <2>1, <2>2
  <2>3. CASE ~r.pending
      BY <2>1, <2>3
  <2> QED
      BY <2>2, <2>3
<1> QED
    BY <1>3

LEMMA InitWin == Init => WinInv
<1> SUFFICES ASSUME Init PROVE WinInv
    OBVIOUS
<1>1. 0 \in 0..MaxOwed /\ 0 \in 0..(Length - 1)
    BY WinAssumption
<1>2. TypeOK
    BY <1>1 DEF Init, TypeOK
<1>3. WakesItsCall /\ OverlappedFree /\ BufferOutlivesOperation /\ CallsReserved
    BY DEF Init, WakesItsCall, OverlappedFree, BufferOutlivesOperation, CallsReserved
<1>4. OperationsOfCalls /\ LeftBehind /\ ConnectTells /\ NoBytesInvented
    BY DEF Init, OperationsOfCalls, LeftBehind, ConnectTells, NoBytesInvented
<1> QED
    BY <1>2, <1>3, <1>4 DEF WinInv

(* What the types say of the operations and calls.                         *)
LEMMA Types ==
    ASSUME WinInv
    PROVE  /\ io \subseteq Operations /\ op \in [Tasks -> {"none", "read", "write", "connect"}]
           /\ reserved \in [{"read", "write"} -> Tasks \cup {nobody}]
           /\ offset \in [Tasks -> 0..(Length - 1)] /\ status \subseteq Flags
           /\ owed \in 0..MaxOwed /\ unclaimed \in 0..MaxOwed /\ strayed \in BOOLEAN
           /\ \A r \in io : /\ r.kind \in {"read", "write", "connect"} /\ r.task \in Tasks
                            /\ r.live \in BOOLEAN /\ r.pending \in BOOLEAN
                            /\ r.n \in 0..Length /\ r.length \in 0..Length
                            /\ r.error \in {"none", "eof", "aborted", "fail"}
    BY DEF WinInv, TypeOK, Operations

(* BufferOutlivesOperation is what LeftBehind says of pending operations.  *)
LEMMA LeftBehindCovers ==
    ASSUME WinInv, LeftBehind', OperationsOfCalls'
    PROVE  BufferOutlivesOperation'
    BY DEF LeftBehind, OperationsOfCalls, BufferOutlivesOperation

(* One call waits for operations on an OVERLAPPED at a time.               *)
LEMMA OneCaller ==
    ASSUME WinInv
    PROVE  /\ \A t, u \in Tasks :
                 op[t] # "none" /\ op[u] # "none" /\ Overlapped(op[t]) = Overlapped(op[u])
                 => t = u
           /\ \A t \in Tasks : op[t] = "connect" => life = "new" /\ processor = "connect"
           /\ \A t \in Tasks :
                 op[t] \in {"read", "write"} => life # "new" /\ processor = "stream"
           /\ processor \in {"none", "connect", "stream"}
    BY Types DEF WinInv, TypeOK, CallsReserved, Overlapped

-----------------------------------------------------------------------------
(* A call begins *)

(* A call can start an operation because all that is pending on the same   *)
(* OVERLAPPED would be of a call that sleeps, or of one that timed out.    *)
LEMMA BeginStep ==
    ASSUME WinInv, NEW t \in Tasks, NEW kind \in {"read", "write", "connect"}, May(t, kind),
           NEW r \in Operations, io' = io \cup {r}, r.live, r.pending, r.n = 0,
           r.error = "none", r.kind = kind, r.task = t,
           kind # "connect" =>
               /\ life = "open" /\ TimeoutFlag(kind) \notin status
               /\ reserved' = [reserved EXCEPT ![kind] = t]
               /\ UNCHANGED <<status, processor>>
               /\ kind = "write" => offset'[t] = 0
               /\ \A u \in Tasks : u # t => offset'[u] = offset[u],
           kind = "connect" =>
               /\ life = "new" /\ processor' = "connect" /\ reserved'["read"] = t
               /\ UNCHANGED offset,
           op' = [op EXCEPT ![t] = kind], TypeOK',
           UNCHANGED <<type, life, loop, up, owed, unclaimed, strayed, expired, refused>>
    PROVE  WinInv'
<1> USE DEF WinInv
<1>1. /\ op[t] = "none" /\ loop = "running" /\ \A u \in Tasks : op[u] # kind
      /\ op \in [Tasks -> {"none", "read", "write", "connect"}]
      /\ \A u \in Tasks : op'[u] = IF u = t THEN kind ELSE op[u]
    BY Types DEF May
<1>2. \A q \in io : /\ q.task \in Tasks /\ q.kind \in {"read", "write", "connect"}
                    /\ q.live => q.task # t /\ q.kind # kind
    BY <1>1, Types DEF OperationsOfCalls
<1>3. kind = "connect" => \A u \in Tasks : op[u] = "none"
    BY <1>1, OneCaller
<1>4. WakesItsCall'
    BY DEF WakesItsCall
<1>5. OverlappedFree'
  <2> SUFFICES ASSUME ~strayed PROVE OverlappedFree'
      BY DEF OverlappedFree
  <2>1. ASSUME NEW q \in io, q.pending, Overlapped(q.kind) = Overlapped(kind)
        PROVE  FALSE
    <3>1. q.error # "aborted"
        BY <2>1 DEF OperationsOfCalls
    <3>2. CASE q.live
      <4>1. op[q.task] = q.kind /\ q.kind # kind
          BY <1>2, <3>2 DEF OperationsOfCalls
      <4>2. q.kind = "connect" \/ kind = "connect"
          BY <1>2, <2>1, <4>1 DEF Overlapped
      <4> QED
          BY <1>2, <1>3, <4>1, <4>2, OneCaller
    <3>3. CASE ~q.live
      <4>1. TimeoutFlag(q.kind) \in status /\ life # "new"
          BY <1>1, <2>1, <3>1, <3>3 DEF LeftBehind, TimeoutFlag
      <4>2. TimeoutFlag(q.kind) = TimeoutFlag(kind)
          BY <1>2, <2>1 DEF Overlapped, TimeoutFlag
      <4> QED
          BY <4>1, <4>2
    <3> QED
        BY <1>2, <3>2, <3>3
  <2> QED
      BY <2>1 DEF OverlappedFree
<1>6. CallsReserved'
  <2>1. CASE kind = "connect"
      BY <1>1, <1>3, <2>1 DEF CallsReserved, Overlapped
  <2>2. CASE kind # "connect"
    <3>1. /\ processor = "stream" /\ processor' = "stream"
          /\ \A k \in {"read", "write"} : reserved'[k] = IF k = kind THEN t ELSE reserved[k]
          /\ kind \in {"read", "write"} /\ Overlapped(kind) = kind
        BY <2>2, Types DEF CallsReserved, Overlapped
    <3>2. \A u \in Tasks : op[u] \in {"none", "read", "write"} \ {kind}
        BY <1>1, <3>1 DEF CallsReserved
    <3>3. ASSUME NEW u \in Tasks, op'[u] # "none"
          PROVE  op'[u] # "connect" /\ reserved'[Overlapped(op'[u])] = u
      <4>1. CASE u = t
          BY <1>1, <3>1, <4>1
      <4>2. CASE u # t
          BY <1>1, <3>1, <3>2, <3>3, <4>2 DEF CallsReserved, Overlapped
      <4> QED
          BY <4>1, <4>2
    <3>4. ASSUME NEW k \in {"read", "write"}, reserved'[k] # nobody
          PROVE  op'[reserved'[k]] = k
      <4>1. CASE k = kind
          BY <1>1, <3>1, <4>1
      <4>2. CASE k # kind
          BY <1>1, <3>1, <3>4, <4>2, Types DEF CallsReserved
      <4> QED
          BY <4>1, <4>2
    <3> QED
        BY <2>2, <3>1, <3>3, <3>4 DEF CallsReserved
  <2> QED
      BY <2>1, <2>2
<1>7. OperationsOfCalls'
    BY <1>1, <1>2, OneCaller DEF OperationsOfCalls
<1>8. LeftBehind'
    BY <1>1 DEF LeftBehind
<1>9. ConnectTells'
    BY DEF ConnectTells
<1>10. NoBytesInvented'
  <2>1. \A q \in io : q.live => offset'[q.task] = offset[q.task]
      BY <1>2
  <2>2. 0 <= unclaimed
      BY Types
  <2> QED
      BY <1>1, <1>2, <2>1, <2>2 DEF NoBytesInvented
<1> QED
    BY <1>4, <1>5, <1>6, <1>7, <1>8, <1>9, <1>10, LeftBehindCovers

-----------------------------------------------------------------------------
(* A call goes on *)

(* What is left when operations are taken away, or their calls return.     *)
LEMMA FewerOperations ==
    ASSUME WinInv, NEW t \in Tasks, NEW ops \in SUBSET io, io' = Abandoned(t, ops),
           strayed => strayed'
    PROVE  /\ OverlappedFree'
           /\ \A q \in io' :
                 /\ q.pending => q.n = 0 /\ q.error = "none"
                 /\ q.live => q \in ops /\ q.task # t
                 /\ q.error = "aborted" => q.n = 0 /\ (q.kind = "connect" \/ life = "closed")
                 /\ life = "new" => q.kind = "connect"
           /\ \A q \in io' : q.live /\ ~strayed' =>
                 \A r \in io' : r.live /\ r.task = q.task => r = q
           /\ (\A r \in ops : ~(r.live /\ r.task = t)) => io' \subseteq ops
<1> USE DEF WinInv
<1>1. ops \in SUBSET Operations
    BY Types
<1>2. \A q \in io' :
          /\ q.live => q \in ops /\ q.task # t
          /\ ~q.live => \/ q \in ops
                       \/ \E r \in ops : r.live /\ r.task = t /\ r.kind = q.kind
          /\ \E r \in ops : /\ q.kind = r.kind /\ q.pending = r.pending /\ q.n = r.n
                            /\ q.error = r.error /\ q.task = r.task
                            /\ q = Left(r, t)
    BY <1>1, AbandonedKeeps
<1>3. OverlappedFree'
  <2> SUFFICES ASSUME ~strayed', NEW p \in io', NEW q \in io', p.pending, q.pending, p # q
               PROVE  Overlapped(p.kind) # Overlapped(q.kind)
      BY DEF OverlappedFree
  <2>1. PICK r \in ops : /\ p.kind = r.kind /\ p.pending = r.pending
                         /\ p = Left(r, t)
      BY <1>2
  <2>2. PICK s \in ops : /\ q.kind = s.kind /\ q.pending = s.pending
                         /\ q = Left(s, t)
      BY <1>2
  <2> QED
      BY <2>1, <2>2 DEF OverlappedFree
<1>4. \A q \in io' :
          /\ q.pending => q.n = 0 /\ q.error = "none"
          /\ q.error = "aborted" => q.n = 0 /\ (q.kind = "connect" \/ life = "closed")
          /\ life = "new" => q.kind = "connect"
  <2> SUFFICES ASSUME NEW q \in io'
               PROVE  /\ q.pending => q.n = 0 /\ q.error = "none"
                      /\ q.error = "aborted" =>
                            q.n = 0 /\ (q.kind = "connect" \/ life = "closed")
                      /\ life = "new" => q.kind = "connect"
      OBVIOUS
  <2>1. PICK r \in ops : /\ q.kind = r.kind /\ q.pending = r.pending /\ q.n = r.n
                         /\ q.error = r.error
      BY <1>2
  <2>2. r \in io
      OBVIOUS
  <2> QED
      BY <2>1, <2>2 DEF OperationsOfCalls
<1>5. \A q \in io' : q.live /\ ~strayed' =>
          \A r \in io' : r.live /\ r.task = q.task => r = q
    BY <1>2 DEF OperationsOfCalls
<1>6. ASSUME \A r \in ops : ~(r.live /\ r.task = t) PROVE io' \subseteq ops
    BY <1>2, <1>6
<1> QED
    BY <1>2, <1>3, <1>4, <1>5, <1>6

(* A read or a write that returns leaves an operation behind only if it    *)
(* timed out or was woken by a stray packet.                               *)
LEMMA ReturnStep ==
    ASSUME WinInv, NEW t \in Tasks, op[t] \in {"read", "write"},
           NEW ops \in SUBSET io, io' = Abandoned(t, ops), TypeOK',
           op' = [op EXCEPT ![t] = "none"],
           reserved' = [reserved EXCEPT ![op[t]] = nobody],
           \A u \in Tasks : u # t => offset'[u] = offset[u],
           status \cap {"read_timeout", "write_timeout"} \subseteq status',
           strayed => strayed', strayed' => expired,
           loop = "running" /\ ~strayed' =>
               \/ TimeoutFlag(op[t]) \in status'
               \/ \A r \in ops : ~(r.live /\ r.task = t),
           ~strayed' /\ op[t] = "read" => unclaimed' = unclaimed,
           ~strayed' /\ op[t] = "write" => owed' = owed,
           UNCHANGED <<type, life, processor, loop, up, expired>>
    PROVE  WinInv'
<1> USE DEF WinInv
<1>1. /\ op \in [Tasks -> {"none", "read", "write", "connect"}]
      /\ \A u \in Tasks : op'[u] = IF u = t THEN "none" ELSE op[u]
      /\ \A k \in {"read", "write"} : reserved'[k] = IF k = op[t] THEN nobody ELSE reserved[k]
      /\ life # "new" /\ processor = "stream"
      /\ \A u \in Tasks : u # t => op[u] # op[t]
      /\ \A u \in Tasks : op[u] # "connect"
      /\ nobody \notin Tasks
    BY Types, OneCaller, WinAssumption
<1>2. \A q \in io : q.task \in Tasks /\ q.kind \in {"read", "write", "connect"}
    BY Types
<1>3. /\ OverlappedFree'
      /\ \A q \in io' :
            /\ q.pending => q.n = 0 /\ q.error = "none"
            /\ q.live => q \in ops /\ q.task # t
            /\ q.error = "aborted" => q.n = 0 /\ (q.kind = "connect" \/ life = "closed")
            /\ life = "new" => q.kind = "connect"
      /\ \A q \in io' : q.live /\ ~strayed' =>
            \A r \in io' : r.live /\ r.task = q.task => r = q
      /\ (\A r \in ops : ~(r.live /\ r.task = t)) => io' \subseteq ops
    BY FewerOperations
<1>4. \A q \in io' : q.live => q \in io /\ op'[q.task] = q.kind /\ op[q.task] = q.kind
    BY <1>1, <1>2, <1>3 DEF OperationsOfCalls
<1>5. WakesItsCall'
    BY DEF WakesItsCall
<1>6. CallsReserved'
  <2>1. ASSUME NEW u \in Tasks, op'[u] # "none" PROVE reserved'[Overlapped(op'[u])] = u
    <3>1. u # t /\ op'[u] = op[u] /\ op[u] # op[t] /\ op[u] \in {"read", "write"}
        BY <1>1, <2>1
    <3> QED
        BY <1>1, <3>1 DEF CallsReserved, Overlapped
  <2>2. ASSUME NEW k \in {"read", "write"}, reserved'[k] # nobody
        PROVE  op'[reserved'[k]] = k
    <3>1. k # op[t] /\ reserved'[k] = reserved[k] /\ reserved[k] \in Tasks
        BY <1>1, <2>2, Types
    <3>2. op[reserved[k]] = k
        BY <1>1, <2>2, <3>1 DEF CallsReserved
    <3> QED
        BY <1>1, <3>1, <3>2
  <2> QED
      BY <1>1, <2>1, <2>2 DEF CallsReserved
<1>7. OperationsOfCalls'
    BY <1>3, <1>4 DEF OperationsOfCalls
<1>8. LeftBehind'
  <2> SUFFICES ASSUME loop = "running", ~strayed', NEW q \in io', ~q.live, q.error # "aborted"
               PROVE  \/ TimeoutFlag(q.kind) \in status' /\ life # "new"
                      \/ expired /\ q.kind = "connect" /\ ~q.pending
      BY DEF LeftBehind, TimeoutFlag
  <2>1. CASE q \in io
      BY <2>1 DEF LeftBehind, TimeoutFlag
  <2>2. CASE q \notin io
    <3>1. PICK r \in ops : r.live /\ r.task = t /\ r.kind = q.kind
        BY <2>2, AbandonedKeeps, Types
    <3>2. q.kind = op[t]
        BY <3>1 DEF OperationsOfCalls
    <3> QED
        BY <1>1, <3>1, <3>2
  <2> QED
      BY <2>1, <2>2
<1>9. ConnectTells'
    BY <1>1, <1>2, <1>4 DEF ConnectTells
<1>10. NoBytesInvented'
  <2> SUFFICES ASSUME ~strayed'
               PROVE  /\ \A q \in io' : q.live /\ ~q.pending =>
                           /\ q.kind = "read" => q.n <= owed'
                           /\ q.kind = "write" => offset'[q.task] + q.n <= unclaimed'
                      /\ \A u \in Tasks : op'[u] = "write" => offset'[u] <= unclaimed'
      BY <1>1 DEF NoBytesInvented
  <2>1. ASSUME NEW q \in io', q.live, ~q.pending
        PROVE  /\ q.kind = "read" => q.n <= owed'
               /\ q.kind = "write" => offset'[q.task] + q.n <= unclaimed'
    <3>1. q \in io /\ q.task # t /\ op[q.task] = q.kind /\ q.kind # op[t]
        BY <1>1, <1>2, <1>3, <1>4, <2>1
    <3> QED
        BY <1>2, <2>1, <3>1 DEF NoBytesInvented
  <2>2. ASSUME NEW u \in Tasks, op'[u] = "write" PROVE offset'[u] <= unclaimed'
      BY <1>1, <2>2 DEF NoBytesInvented
  <2> QED
      BY <2>1, <2>2
<1> QED
    BY <1>3, <1>5, <1>6, <1>7, <1>8, <1>9, <1>10, LeftBehindCovers

(* A write that goes on has one operation again.                           *)
LEMMA RoundStep ==
    ASSUME WinInv, NEW t \in Tasks, op[t] = "write", loop = "running",
           NEW ops \in SUBSET io, NEW r \in Operations, io' = ops \cup {r}, TypeOK',
           r.live, r.pending, r.n = 0, r.error = "none", r.kind = "write", r.task = t,
           ~strayed' => \A q \in ops : ~(q.live /\ q.task = t),
           "write_timeout" \notin status,
           status \cap {"read_timeout", "write_timeout"} \subseteq status',
           op' = [op EXCEPT ![t] = "write"],
           reserved' = [reserved EXCEPT !["write"] = t],
           \A u \in Tasks : u # t => offset'[u] = offset[u],
           ~strayed' => offset'[t] <= unclaimed,
           strayed => strayed', strayed' => expired,
           UNCHANGED <<type, life, processor, loop, up, owed, unclaimed, expired>>
    PROVE  WinInv'
<1> USE DEF WinInv
<1>1. /\ op' = op /\ reserved' = reserved
      /\ life # "new" /\ processor = "stream"
      /\ \A u \in Tasks : u # t => op[u] # "write"
      /\ \A u \in Tasks : op[u] # "connect"
  <2>1. reserved["write"] = t
      BY DEF CallsReserved, Overlapped
  <2> QED
      BY <2>1, Types, OneCaller
<1>2. \A q \in io : q.task \in Tasks /\ q.kind \in {"read", "write", "connect"}
    BY Types
<1>3. WakesItsCall'
    BY DEF WakesItsCall
<1>4. OverlappedFree'
  <2> SUFFICES ASSUME ~strayed' PROVE OverlappedFree'
      BY DEF OverlappedFree
  <2>1. ASSUME NEW q \in ops, q.pending PROVE Overlapped(q.kind) # "write"
    <3>1. CASE q.live
      <4>1. op[q.task] = q.kind /\ q.task # t
          BY <3>1 DEF OperationsOfCalls
      <4> QED
          BY <1>1, <1>2, <4>1 DEF Overlapped
    <3>2. CASE ~q.live
      <4>1. q.error # "aborted"
          BY <2>1 DEF OperationsOfCalls
      <4> QED
          BY <2>1, <3>2, <4>1 DEF LeftBehind, Overlapped
    <3> QED
        BY <1>2, <3>1, <3>2
  <2> QED
      BY <2>1 DEF OverlappedFree, Overlapped
<1>5. CallsReserved'
    BY <1>1 DEF CallsReserved
<1>6. OperationsOfCalls'
    BY <1>1, <1>2 DEF OperationsOfCalls
<1>7. LeftBehind'
    BY DEF LeftBehind
<1>8. ConnectTells'
    BY DEF ConnectTells
<1>9. NoBytesInvented'
  <2>1. ASSUME ~strayed', NEW q \in ops, q.live PROVE offset'[q.task] = offset[q.task]
      BY <1>2, <2>1
  <2> QED
      BY <1>1, <1>2, <2>1 DEF NoBytesInvented
<1> QED
    BY <1>3, <1>4, <1>5, <1>6, <1>7, <1>8, <1>9, LeftBehindCovers

(* api_tcp_connect opens the stream.                                       *)
LEMMA ConnectedStep ==
    ASSUME WinInv, NEW t \in Tasks, op[t] = "connect",
           NEW ops \in SUBSET io, io' = Abandoned(t, ops), Open, TypeOK',
           op' = [op EXCEPT ![t] = "none"],
           strayed => strayed', strayed' => expired', expired => expired',
           loop = "running" /\ ~strayed' => \A r \in ops : ~(r.live /\ r.task = t),
           UNCHANGED <<type, offset, loop, up, owed, unclaimed>>
    PROVE  WinInv'
<1> USE DEF WinInv
<1>1. /\ life = "new" /\ processor = "connect"
      /\ life' = "open" /\ processor' = "stream"
      /\ \A k \in {"read", "write"} : reserved'[k] = nobody
      /\ \A u \in Tasks : op'[u] = "none" /\ (u # t => op[u] = "none")
  <2>1. \A u \in Tasks : u # t => op[u] = "none"
      BY Types, OneCaller DEF Overlapped
  <2> QED
      BY <2>1, Types, OneCaller DEF Open
<1>2. \A q \in io : q.task \in Tasks
    BY Types
<1>3. /\ OverlappedFree'
      /\ \A q \in io' :
            /\ q.pending => q.n = 0 /\ q.error = "none"
            /\ q.live => q \in ops /\ q.task # t
            /\ q.error = "aborted" => q.n = 0 /\ (q.kind = "connect" \/ life = "closed")
            /\ life = "new" => q.kind = "connect"
      /\ (\A r \in ops : ~(r.live /\ r.task = t)) => io' \subseteq ops
    BY FewerOperations
<1>4. \A q \in io' : ~q.live /\ q.kind = "connect"
  <2> SUFFICES ASSUME NEW q \in io', q.live PROVE FALSE
      BY <1>1, <1>3
  <2>1. op[q.task] = q.kind /\ q.kind = "connect" /\ q.task # t
      BY <1>1, <1>3 DEF OperationsOfCalls
  <2> QED
      BY <1>1, <1>2, <1>3, <2>1
<1>5. WakesItsCall' /\ CallsReserved'
    BY <1>1 DEF WakesItsCall, CallsReserved
<1>6. OperationsOfCalls' /\ ConnectTells'
    BY <1>1, <1>3, <1>4 DEF OperationsOfCalls, ConnectTells
<1>7. LeftBehind'
    BY <1>1, <1>3 DEF LeftBehind
<1>8. NoBytesInvented'
    BY <1>1, <1>4 DEF NoBytesInvented
<1> QED
    BY <1>3, <1>5, <1>6, <1>7, <1>8, LeftBehindCovers

(* api_tcp_connect gives up: what was pending is aborted.                  *)
LEMMA ConnectExpiredStep ==
    ASSUME WinInv, NEW t \in Tasks, op[t] = "connect",
           io' = Aborted(Abandoned(t, io)), TypeOK',
           op' = [op EXCEPT ![t] = "none"], expired',
           UNCHANGED <<type, life, processor, reserved, offset, loop, owed, unclaimed,
                       strayed>>
    PROVE  WinInv'
<1> USE DEF WinInv
<1>1. /\ life = "new" /\ processor = "connect"
      /\ \A u \in Tasks : op'[u] = "none" /\ (u # t => op[u] = "none")
  <2>1. \A u \in Tasks : u # t => op[u] = "none"
      BY Types, OneCaller DEF Overlapped
  <2> QED
      BY <2>1, Types, OneCaller
<1>2. io \in SUBSET Operations /\ \A q \in io : q.task \in Tasks
    BY Types
<1>3. ASSUME NEW q \in io'
      PROVE  ~q.pending /\ ~q.live /\ q.kind = "connect" /\ (q.error = "aborted" => q.n = 0)
  <2>1. PICK p \in Abandoned(t, io) :
            /\ q.kind = p.kind /\ q.live = p.live /\ q.n = p.n
            /\ q = p \/ (p.pending /\ q.error = "aborted")
      BY <1>2, AbandonedKeeps, AbortedKeeps
  <2>2. ~q.pending
      BY <1>2, AbandonedKeeps, AbortedKeeps
  <2>3. PICK r \in io : /\ p.kind = r.kind /\ p.pending = r.pending /\ p.n = r.n
                        /\ p.error = r.error /\ p.task = r.task
      BY <1>2, AbandonedKeeps
  <2>4. ~p.live
    <3> SUFFICES ASSUME p.live PROVE FALSE
        OBVIOUS
    <3>1. p \in io /\ p.task # t
        BY <1>2, AbandonedKeeps
    <3> QED
        BY <1>1, <1>2, <3>1 DEF OperationsOfCalls
  <2> QED
      BY <1>1, <2>1, <2>2, <2>3, <2>4 DEF OperationsOfCalls
<1>4. WakesItsCall' /\ CallsReserved' /\ OverlappedFree'
    BY <1>1, <1>3 DEF WakesItsCall, CallsReserved, OverlappedFree
<1>5. OperationsOfCalls' /\ ConnectTells' /\ LeftBehind'
    BY <1>1, <1>3 DEF OperationsOfCalls, ConnectTells, LeftBehind
<1>6. NoBytesInvented'
    BY <1>1, <1>3 DEF NoBytesInvented
<1> QED
    BY <1>4, <1>5, <1>6, LeftBehindCovers

(* A stream that is opened at once, or not at all.                         *)
LEMMA OpenStep ==
    ASSUME WinInv, NEW t \in Tasks, life = "new", May(t, "connect"), TypeOK',
           \/ Open
           \/ UNCHANGED life /\ processor' = "connect" /\ reserved'["read"] = t,
           UNCHANGED <<type, calls, io, loop, history>>
    PROVE  WinInv'
<1> USE DEF WinInv
<1>1. /\ loop = "running" /\ \A u \in Tasks : op[u] = "none"
      /\ UNCHANGED <<type, op, offset, timers, io, loop, owed, unclaimed, strayed, expired>>
    BY Types, OneCaller DEF May, calls, history
<1>2. \A q \in io : ~q.live
    BY <1>1, Types DEF OperationsOfCalls
<1>3. WakesItsCall' /\ OverlappedFree'
    BY <1>1 DEF WakesItsCall, OverlappedFree
<1>4. CallsReserved'
    BY <1>1 DEF CallsReserved, Open
<1>5. OperationsOfCalls' /\ ConnectTells'
  <2>1. \A q \in io : /\ q.pending => q.n = 0 /\ q.error = "none"
                      /\ q.kind = "connect" /\ (q.error = "aborted" => q.n = 0)
      BY DEF OperationsOfCalls
  <2> QED
      BY <1>1, <1>2, <2>1 DEF OperationsOfCalls, ConnectTells
<1>6. LeftBehind'
    BY <1>1 DEF LeftBehind
<1>7. NoBytesInvented'
    BY <1>1, <1>2 DEF NoBytesInvented
<1> QED
    BY <1>3, <1>4, <1>5, <1>6, <1>7, LeftBehindCovers

(* Operations are taken away, and a call of the stream wakes nobody.       *)
LEMMA DropStep ==
    ASSUME WinInv, io' \subseteq io, TypeOK',
           status \cap {"read_timeout", "write_timeout"} \subseteq status',
           strayed => strayed', strayed' => expired,
           loop' = "running" => loop = "running",
           UNCHANGED <<type, life, processor, reserved, op, offset, up, owed, unclaimed,
                       expired>>
    PROVE  WinInv'
<1> USE DEF WinInv
<1>1. WakesItsCall'
    BY DEF WakesItsCall
<1>2. OverlappedFree'
    BY DEF OverlappedFree
<1>3. CallsReserved'
    BY DEF CallsReserved
<1>4. OperationsOfCalls'
    BY DEF OperationsOfCalls
<1>5. LeftBehind'
    BY DEF LeftBehind
<1>6. ConnectTells'
    BY DEF ConnectTells
<1>7. NoBytesInvented'
    BY DEF NoBytesInvented
<1> QED
    BY <1>1, <1>2, <1>3, <1>4, <1>5, <1>6, <1>7, LeftBehindCovers

(* A close aborts what is pending, and nobody hears of it.                 *)
LEMMA CloseStep ==
    ASSUME WinInv, NEW t \in Tasks, Close(t)
    PROVE  WinInv'
<1> USE DEF WinInv
<1>1. /\ life = "open" /\ life' = "closed" /\ status' = status \cup {"closed"}
      /\ io' = Aborted(io) /\ loop = "running"
      /\ UNCHANGED <<type, processor, reserved, op, offset, timers, loop, owed, unclaimed,
                     inexact, strayed, expired, refused>>
      /\ up' = FALSE
    BY DEF Close, calls, history
<1>2. io \in SUBSET Operations
    BY Types
<1>3. io' \subseteq Operations
    BY <1>1, <1>2, AbortedKeeps
<1>4. TypeOK'
    BY <1>1, <1>3 DEF TypeOK, Flags
<1>5. ASSUME NEW q \in io'
      PROVE  /\ ~q.pending
             /\ \E r \in io : /\ q.kind = r.kind /\ q.live = r.live /\ q.task = r.task
                              /\ q.n = r.n
                              /\ q = r \/ (r.pending /\ q.error = "aborted")
    BY <1>1, <1>2, AbortedKeeps
<1>6. WakesItsCall' /\ OverlappedFree' /\ CallsReserved'
  <2>1. processor = "stream"
      BY <1>1 DEF CallsReserved, TypeOK
  <2> QED
      BY <1>1, <1>5, <2>1 DEF WakesItsCall, OverlappedFree, CallsReserved
<1>7. OperationsOfCalls'
  <2>1. ASSUME NEW q \in io'
        PROVE  /\ q.live => op[q.task] = q.kind
               /\ q.error = "aborted" => q.n = 0
    <3>1. PICK r \in io : /\ q.kind = r.kind /\ q.live = r.live /\ q.task = r.task
                          /\ q.n = r.n
                          /\ q = r \/ (r.pending /\ q.error = "aborted")
        BY <1>5
    <3> QED
        BY <3>1 DEF OperationsOfCalls
  <2>2. ASSUME ~strayed, NEW q \in io', NEW p \in io', q.live, p.live, p.task = q.task
        PROVE  p = q
    <3> DEFINE Ended(r) == IF r.pending
                           THEN [r EXCEPT !.pending = FALSE, !.length = 0,
                                          !.error = "aborted"]
                           ELSE r
    <3>1. io' = {Ended(r) : r \in io}
        BY <1>1 DEF Aborted
    <3>2. \A r \in io : Ended(r).live = r.live /\ Ended(r).task = r.task
      <4>1. \A r \in io : r \in Operations
          BY <1>2
      <4> QED
          BY <4>1 DEF Operations
    <3> HIDE DEF Ended
    <3>3. PICK r \in io : q = Ended(r)
        BY <3>1
    <3>4. PICK s \in io : p = Ended(s)
        BY <3>1
    <3> QED
        BY <2>2, <3>2, <3>3, <3>4 DEF OperationsOfCalls
  <2> QED
      BY <1>1, <1>5, <2>1, <2>2 DEF OperationsOfCalls
<1>8. LeftBehind'
    BY <1>1, <1>5 DEF LeftBehind
<1>9. ConnectTells'
  <2>1. ASSUME NEW q \in io', q.live, q.kind = "connect" PROVE FALSE
    <3>1. PICK r \in io : q.kind = r.kind /\ q.live = r.live
        BY <1>5
    <3> QED
        BY <1>1, <2>1, <3>1, OneCaller, Types DEF OperationsOfCalls
  <2> QED
      BY <2>1 DEF ConnectTells
<1>10. NoBytesInvented'
  <2>1. ASSUME ~strayed, NEW q \in io', q.live
        PROVE  /\ q.kind = "read" => q.n <= owed
               /\ q.kind = "write" => offset[q.task] + q.n <= unclaimed
    <3>1. PICK r \in io : /\ q.kind = r.kind /\ q.live = r.live /\ q.task = r.task
                          /\ q.n = r.n
        BY <1>5
    <3>2. CASE r.pending
      <4>1. r.n = 0 /\ op[r.task] = r.kind /\ r.task \in Tasks
          BY <2>1, <3>1, <3>2, Types DEF OperationsOfCalls
      <4>2. r.kind = "write" => offset[r.task] <= unclaimed /\ offset[r.task] \in Nat
          BY <2>1, <4>1, Types DEF NoBytesInvented
      <4> QED
          BY <3>1, <4>1, <4>2, Types
    <3>3. CASE ~r.pending
        BY <2>1, <3>1, <3>3 DEF NoBytesInvented
    <3> QED
        BY <3>2, <3>3
  <2> QED
      BY <1>1, <2>1 DEF NoBytesInvented
<1> QED
    BY <1>4, <1>6, <1>7, <1>8, <1>9, <1>10, LeftBehindCovers

(* The system ends an operation.                                           *)
LEMMA CompleteStep ==
    ASSUME WinInv, NEW r \in io, Complete(r)
    PROVE  WinInv'
<1> USE DEF WinInv
<1>1. /\ r.pending /\ loop = "running"
      /\ UNCHANGED <<type, life, status, processor, reserved, op, offset, timers, loop,
                     inexact, strayed, expired, refused>>
    BY DEF Complete, stream, calls
<1> DEFINE Packet(o) == [r EXCEPT !.pending = FALSE, !.length = 0, !.n = o[1], !.error = o[2]]
<1>2. PICK o \in Outcomes(r) :
          /\ io' = (io \ {r}) \cup {Packet(o)}
          /\ up' = (up \/ (r.kind = "connect" /\ o[2] = "none"))
          /\ owed' = IF r.kind = "read" /\ ~strayed THEN owed + o[1] ELSE owed
          /\ unclaimed' = IF r.kind = "write" /\ ~strayed THEN unclaimed + o[1] ELSE unclaimed
          /\ owed' <= MaxOwed /\ unclaimed' <= MaxOwed
    BY DEF Complete
<1>3. /\ o[1] \in 0..Length /\ o[2] \in {"none", "eof", "fail"}
      /\ r.kind = "connect" => o[2] \in {"none", "fail"}
  <2>1. o \in (0..r.length) \X {"none", "eof", "fail"}
      BY DEF Outcomes
  <2>2. o[1] \in 0..r.length /\ o[2] \in {"none", "eof", "fail"}
      BY <2>1
  <2>3. r.kind = "connect" => o[2] \in {"none", "fail"}
      BY DEF Outcomes
  <2> QED
      BY <2>2, <2>3, Types, WinAssumption
<1>4. /\ r \in Operations /\ Packet(o) \in Operations
      /\ ~Packet(o).pending /\ Packet(o).n = o[1] /\ Packet(o).error = o[2]
      /\ Packet(o).kind = r.kind /\ Packet(o).live = r.live /\ Packet(o).task = r.task
  <2>1. r \in Operations /\ 0 \in 0..Length
      BY Types, WinAssumption
  <2> QED
      BY <2>1, <1>3 DEF Operations
<1> DEFINE p == Packet(o)
<1> HIDE DEF Packet
<1>5. /\ p \in Operations /\ ~p.pending /\ p.n = o[1] /\ p.error = o[2]
      /\ p.kind = r.kind /\ p.live = r.live /\ p.task = r.task
      /\ io' = (io \ {r}) \cup {p}
      /\ r.kind \in {"read", "write", "connect"} /\ r.task \in Tasks
    BY <1>2, <1>4, Types
<1> HIDE DEF p
<1>6. /\ owed' \in 0..MaxOwed /\ unclaimed' \in 0..MaxOwed
      /\ owed <= owed' /\ unclaimed <= unclaimed'
    BY <1>2, <1>3, Types, WinAssumption
<1>7. up' \in BOOLEAN /\ (up => up')
    BY <1>2 DEF TypeOK
<1>8. TypeOK'
  <2>1. io' \subseteq Operations
      BY <1>5, Types
  <2> QED
      BY <1>1, <1>6, <1>7, <2>1 DEF TypeOK
<1>9. WakesItsCall' /\ OverlappedFree' /\ CallsReserved'
    BY <1>1, <1>5 DEF WakesItsCall, OverlappedFree, CallsReserved
<1>10. OperationsOfCalls'
  <2>1. p.error # "aborted"
      BY <1>3, <1>5
  <2>2. ASSUME NEW q \in io'
        PROVE  /\ q.live => op[q.task] = q.kind
               /\ q.pending => q.n = 0 /\ q.error = "none"
               /\ life = "new" => q.kind = "connect"
               /\ q.error = "aborted" => q.n = 0 /\ (q.kind = "connect" \/ life = "closed")
      BY <1>5, <2>1 DEF OperationsOfCalls
  <2>3. ASSUME ~strayed, NEW q \in io', NEW s \in io', q.live, s.live, s.task = q.task
        PROVE  s = q
      BY <1>5, <2>3 DEF OperationsOfCalls
  <2> QED
      BY <1>1, <2>2, <2>3 DEF OperationsOfCalls
<1>11. LeftBehind'
  <2>1. r.error # "aborted"
      BY <1>1 DEF OperationsOfCalls
  <2> QED
      BY <1>1, <1>5, <2>1 DEF LeftBehind
<1>12. ConnectTells'
    BY <1>2, <1>3, <1>5, <1>7 DEF ConnectTells
<1>13. NoBytesInvented'
  <2>1. life = "new" => owed' = 0 /\ unclaimed' = 0
      BY <1>2 DEF NoBytesInvented, OperationsOfCalls
  <2>2. ASSUME ~strayed, NEW t \in Tasks, op[t] = "write" PROVE offset[t] <= unclaimed'
      BY <1>6, <2>2, Types DEF NoBytesInvented
  <2>3. ASSUME ~strayed, r.live
        PROVE  /\ r.kind = "read" => p.n <= owed'
               /\ r.kind = "write" => offset[r.task] + p.n <= unclaimed'
    <3>1. r.kind = "write" => offset[r.task] <= unclaimed
        BY <1>5, <2>3 DEF NoBytesInvented, OperationsOfCalls
    <3> QED
        BY <1>2, <1>3, <1>5, <2>3, <3>1, Types
  <2>4. ASSUME ~strayed, NEW q \in io, q.live, ~q.pending
        PROVE  /\ q.kind = "read" => q.n <= owed'
               /\ q.kind = "write" => offset[q.task] + q.n <= unclaimed'
      BY <1>6, <2>4, Types DEF NoBytesInvented
  <2>5. ASSUME ~strayed, NEW q \in io', q.live, ~q.pending
        PROVE  /\ q.kind = "read" => q.n <= owed'
               /\ q.kind = "write" => offset[q.task] + q.n <= unclaimed'
    <3>1. CASE q = p
        BY <1>5, <2>3, <2>5, <3>1
    <3>2. CASE q # p
        BY <1>5, <2>4, <2>5, <3>2
    <3> QED
        BY <3>1, <3>2
  <2> QED
      BY <1>1, <2>1, <2>2, <2>5 DEF NoBytesInvented
<1> QED
    BY <1>8, <1>9, <1>10, <1>11, <1>12, <1>13, LeftBehindCovers

-----------------------------------------------------------------------------
(* The loop resumes a call *)

(* what a call finds when it is resumed *)
Found == [n : 0..Length, status : SUBSET Flags, elapsed : BOOLEAN, io : SUBSET io]

(* A task whose packet has come, or whose timer has run down, finds what   *)
(* its call may account for.                                               *)
Fitting(t, w) ==
    /\ status \cap {"read_timeout", "write_timeout"} \subseteq w.status
    /\ loop = "running" /\ ~strayed' /\ ~w.elapsed =>
          \A r \in w.io : ~(r.live /\ r.task = t)
    /\ w.elapsed => w.io = io /\ w.n = 0 /\ strayed' = strayed
    /\ w.n > 0 => loop = "running"
    /\ ~strayed' /\ op[t] = "read" => w.n <= owed
    /\ ~strayed' /\ op[t] = "write" => offset[t] + w.n <= unclaimed
    /\ strayed' \in BOOLEAN /\ expired' \in BOOLEAN /\ refused' \in BOOLEAN
    /\ strayed => strayed'
    /\ strayed' => expired
    /\ expired => expired'
    /\ op[t] = "connect" /\ w.elapsed => expired'
    /\ op[t] # "connect" => expired' = expired

(* Whatever finds a closed stream crashes the loop.                        *)
LEMMA CrashStep ==
    ASSUME WinInv, NEW t \in Tasks, NEW w \in Found, Fitting(t, w), op[t] # "connect",
           loop' = "crashed", io' = w.io,
           UNCHANGED <<stream, calls, up, owed, unclaimed, inexact>>
    PROVE  WinInv'
<1>1. /\ UNCHANGED <<type, life, status, processor, reserved, op, offset, timers, up, owed,
                     unclaimed, inexact, expired>>
      /\ (strayed => strayed') /\ (strayed' => expired) /\ refused' \in BOOLEAN
      /\ strayed' \in BOOLEAN
    BY DEF stream, calls, Fitting
<1>2. /\ io' \subseteq io /\ io' \subseteq Operations
      /\ loop' \in {"running", "ending", "crashed"}
    BY Types DEF Found
<1>3. TypeOK'
    BY <1>1, <1>2 DEF TypeOK, WinInv
<1>4. loop' # "running" /\ status \cap {"read_timeout", "write_timeout"} \subseteq status'
    BY <1>1
<1> QED
    BY <1>1, <1>2, <1>3, <1>4, DropStep

(* the rest of api_tcp_connect *)
LEMMA EndConnectStep ==
    ASSUME WinInv, NEW t \in Tasks, op[t] = "connect", NEW w \in Found, Fitting(t, w),
           EndConnect(t, w), timers' \subseteq Tasks, UNCHANGED loop
    PROVE  WinInv'
<1>1. /\ io \in SUBSET Operations /\ w.io \subseteq io /\ w.elapsed \in BOOLEAN
      /\ UNCHANGED <<type, offset, owed, unclaimed, inexact, loop>>
      /\ op' = [op EXCEPT ![t] = "none"]
      /\ op' \in [Tasks -> {"none", "read", "write", "connect"}]
    BY Types DEF Found, EndConnect
<1>2. CASE w.elapsed
  <2>1. /\ io' = Aborted(Abandoned(t, io)) /\ status' = status \cup {"read_timeout"}
        /\ up' = FALSE /\ expired' /\ UNCHANGED <<life, processor, reserved, strayed>>
      BY <1>2 DEF EndConnect, Fitting
  <2>2. Abandoned(t, io) \in SUBSET Operations
      BY <1>1, AbandonedKeeps
  <2>3. io' \subseteq Operations
      BY <2>1, <2>2, AbortedKeeps
  <2>4. refused' \in BOOLEAN /\ expired' \in BOOLEAN
      BY DEF Fitting
  <2>5. TypeOK'
      BY <1>1, <2>1, <2>3, <2>4 DEF TypeOK, WinInv, Flags
  <2> QED
      BY <1>1, <2>1, <2>5, ConnectExpiredStep
<1>3. CASE ~w.elapsed
  <2>1. Open /\ io' = Abandoned(t, w.io) /\ UNCHANGED up
      BY <1>3 DEF EndConnect
  <2>2. io' \subseteq Operations
      BY <1>1, <2>1, AbandonedKeeps
  <2>3. /\ strayed' \in BOOLEAN /\ refused' \in BOOLEAN /\ expired' \in BOOLEAN
        /\ (strayed => strayed') /\ (strayed' => expired) /\ (expired => expired')
        /\ loop = "running" /\ ~strayed' => \A r \in w.io : ~(r.live /\ r.task = t)
      BY <1>3 DEF Fitting
  <2>4. TypeOK'
      BY <1>1, <2>1, <2>2, <2>3 DEF TypeOK, WinInv, Open
  <2> QED
      BY <1>1, <2>1, <2>3, <2>4, ConnectedStep
<1> QED
    BY <1>1, <1>2, <1>3

(* the rest of api_stream_on_read *)
LEMMA EndReadStep ==
    ASSUME WinInv, NEW t \in Tasks, op[t] = "read", NEW w \in Found, Fitting(t, w),
           EndRead(t, w), timers' \subseteq Tasks, UNCHANGED loop
    PROVE  WinInv'
<1>1. /\ io \in SUBSET Operations /\ w.io \subseteq io /\ w.elapsed \in BOOLEAN
      /\ w.status \subseteq Flags /\ w.n \in 0..Length
      /\ UNCHANGED <<type, life, processor, offset, up, unclaimed, inexact, loop, expired>>
      /\ op' = [op EXCEPT ![t] = "none"] /\ io' = Abandoned(t, w.io)
      /\ reserved' = [reserved EXCEPT !["read"] = nobody]
      /\ op' \in [Tasks -> {"none", "read", "write", "connect"}]
      /\ reserved' \in [{"read", "write"} -> Tasks \cup {nobody}]
    BY Types DEF Found, EndRead, Fitting
<1>2. status' = IF w.elapsed THEN w.status \cup {"read_timeout"} ELSE w.status
    BY DEF EndRead
<1>3. /\ strayed' \in BOOLEAN /\ refused' \in BOOLEAN
      /\ (strayed => strayed') /\ (strayed' => expired)
      /\ status \cap {"read_timeout", "write_timeout"} \subseteq w.status
      /\ loop = "running" /\ ~strayed' /\ ~w.elapsed =>
            \A r \in w.io : ~(r.live /\ r.task = t)
      /\ ~strayed' => w.n <= owed
    BY DEF Fitting
<1>4. owed' \in 0..MaxOwed
  <2>1. owed' = IF strayed' THEN owed ELSE owed - w.n
      BY DEF EndRead
  <2> QED
      BY <1>1, <1>3, <2>1, Types, WinAssumption
<1>5. io' \subseteq Operations
    BY <1>1, AbandonedKeeps
<1>6. /\ status' \subseteq Flags
      /\ status \cap {"read_timeout", "write_timeout"} \subseteq status'
    BY <1>1, <1>2, <1>3 DEF Flags
<1>7. TypeOK'
    BY <1>1, <1>3, <1>4, <1>5, <1>6 DEF TypeOK, WinInv
<1>8. w.elapsed => TimeoutFlag(op[t]) \in status'
    BY <1>2 DEF TimeoutFlag
<1> QED
    BY <1>1, <1>3, <1>6, <1>7, <1>8, ReturnStep

(* the rest of api_stream_on_write *)
LEMMA EndWriteStep ==
    ASSUME WinInv, NEW t \in Tasks, op[t] = "write", NEW w \in Found, Fitting(t, w),
           EndWrite(t, w), timers' \subseteq Tasks, UNCHANGED loop
    PROVE  WinInv'
<1> DEFINE done == offset[t] + w.n
           stop == w.status \cap WriteFailures # {} \/ w.elapsed
<1>1. /\ io \in SUBSET Operations /\ w.io \subseteq io /\ w.elapsed \in BOOLEAN
      /\ w.status \subseteq Flags /\ w.n \in 0..Length
      /\ UNCHANGED <<type, life, processor, up, owed, loop, expired>>
      /\ offset[t] \in 0..(Length - 1) /\ done \in Nat /\ inexact \in BOOLEAN
    BY Types, WinAssumption DEF Found, EndWrite, Fitting, WinInv, TypeOK
<1>2. /\ strayed' \in BOOLEAN /\ refused' \in BOOLEAN
      /\ (strayed => strayed') /\ (strayed' => expired)
      /\ status \cap {"read_timeout", "write_timeout"} \subseteq w.status
      /\ loop = "running" /\ ~strayed' /\ ~w.elapsed =>
            \A r \in w.io : ~(r.live /\ r.task = t)
      /\ ~strayed' => done <= unclaimed
      /\ w.n > 0 => loop = "running"
    BY DEF Fitting
<1>3. ASSUME NEW v \in Found, NEW bytes \in 0..done, Returns(t, bytes, v),
             v.io = w.io, v.elapsed = w.elapsed, w.status \subseteq v.status,
             inexact' \in BOOLEAN
      PROVE  WinInv'
  <2>1. /\ io' = Abandoned(t, w.io)
        /\ op' = [op EXCEPT ![t] = "none"]
        /\ reserved' = [reserved EXCEPT !["write"] = nobody]
        /\ offset' = [offset EXCEPT ![t] = 0]
        /\ unclaimed' = IF strayed' THEN unclaimed ELSE unclaimed - bytes
        /\ status' = IF w.elapsed THEN v.status \cup {"write_timeout"} ELSE v.status
      BY <1>3 DEF Returns
  <2>2. /\ op' \in [Tasks -> {"none", "read", "write", "connect"}]
        /\ reserved' \in [{"read", "write"} -> Tasks \cup {nobody}]
        /\ offset' \in [Tasks -> 0..(Length - 1)]
        /\ \A u \in Tasks : u # t => offset'[u] = offset[u]
      BY <2>1, Types, WinAssumption
  <2>3. io' \subseteq Operations
      BY <1>1, <2>1, AbandonedKeeps
  <2>4. unclaimed' \in 0..MaxOwed
    <3>1. unclaimed \in 0..MaxOwed /\ MaxOwed \in Nat /\ bytes \in Nat
        BY <1>1, <1>3, Types, WinAssumption
    <3>2. ~strayed' => bytes <= unclaimed
        BY <1>1, <1>2, <1>3, <3>1
    <3> QED
        BY <2>1, <3>1, <3>2
  <2>5. /\ status' \subseteq Flags
        /\ status \cap {"read_timeout", "write_timeout"} \subseteq status'
        /\ w.elapsed => TimeoutFlag(op[t]) \in status'
    <3>1. v.status \subseteq Flags
        BY DEF Found
    <3> QED
        BY <1>2, <1>3, <2>1, <3>1 DEF Flags, TimeoutFlag
  <2>6. TypeOK'
      BY <1>1, <1>2, <1>3, <2>2, <2>3, <2>4, <2>5 DEF TypeOK, WinInv
  <2> QED
      BY <1>1, <1>2, <2>1, <2>2, <2>5, <2>6, ReturnStep
<1>4. ASSUME ~stop, done < Length, w.n > 0, Round(t, done, w.io), status' = w.status,
             UNCHANGED unclaimed
      PROVE  WinInv'
  <2>1. /\ op' = [op EXCEPT ![t] = "write"]
        /\ reserved' = [reserved EXCEPT !["write"] = t]
        /\ offset' = [offset EXCEPT ![t] = done]
      BY <1>4 DEF Round
  <2>2. /\ inexact' = (inexact \/ (done > 0 /\ type = "tcp"))
        /\ Submit(t, "write", IF type = "file" THEN Length - done ELSE Length, w.io)
      BY <1>4 DEF Round
  <2>3. (IF type = "file" THEN Length - done ELSE Length) \in 0..Length
      BY <1>1, <1>4, WinAssumption
  <2>4. PICK r \in Operations :
            /\ io' = w.io \cup {r} /\ r.live /\ r.pending /\ r.n = 0 /\ r.error = "none"
            /\ r.kind = "write" /\ r.task = t
      BY <2>2, <2>3, SubmitAdds
  <2>5. /\ op' \in [Tasks -> {"none", "read", "write", "connect"}]
        /\ reserved' \in [{"read", "write"} -> Tasks \cup {nobody}]
        /\ offset' \in [Tasks -> 0..(Length - 1)]
      BY <1>1, <1>4, <2>1, Types, WinAssumption
  <2>6. \A u \in Tasks : offset'[u] = IF u = t THEN done ELSE offset[u]
      BY <2>1, Types
  <2>7. io' \subseteq Operations
      BY <1>1, <2>4
  <2>8. inexact' \in BOOLEAN
      BY <2>2, Zenon
  <2>9. TypeOK'
      BY <1>1, <1>2, <1>4, <2>5, <2>7, <2>8 DEF TypeOK, WinInv
  <2>10. /\ "write_timeout" \notin status /\ ~w.elapsed /\ loop = "running"
      BY <1>2, <1>4 DEF WriteFailures, Flags
  <2>11. /\ ~strayed' => \A q \in w.io : ~(q.live /\ q.task = t)
         /\ ~strayed' => offset'[t] <= unclaimed
         /\ status \cap {"read_timeout", "write_timeout"} \subseteq status'
         /\ w.io \in SUBSET io
      BY <1>1, <1>2, <1>4, <2>6, <2>10
  <2>12. UNCHANGED <<type, life, processor, loop, up, owed, unclaimed, expired>>
      BY <1>1, <1>4
  <2>13. (strayed => strayed') /\ (strayed' => expired)
      BY <1>2
  <2>14. PICK ops \in SUBSET io : ops = w.io
      BY <2>11
  <2> HIDE DEF done, stop
  <2> QED
      BY <2>1, <2>4, <2>6, <2>9, <2>10, <2>11, <2>12, <2>13, <2>14, RoundStep
<1>5. \/ /\ Returns(t, IF stop THEN offset[t] ELSE done, w)
         /\ inexact' = (inexact \/ (stop /\ w.n > 0))
      \/ /\ ~stop /\ Returns(t, done, [w EXCEPT !.status = @ \cup {"error"}])
         /\ UNCHANGED inexact
      \/ /\ ~stop /\ done < Length /\ w.n > 0
         /\ Round(t, done, w.io)
         /\ status' = w.status /\ UNCHANGED unclaimed
    BY DEF EndWrite
<1>6. CASE /\ Returns(t, IF stop THEN offset[t] ELSE done, w)
           /\ inexact' = (inexact \/ (stop /\ w.n > 0))
  <2>1. inexact' \in BOOLEAN
      BY <1>6, Zenon
  <2>2. (IF stop THEN offset[t] ELSE done) \in 0..done
      BY <1>1
  <2> QED
      BY <1>3, <1>6, <2>1, <2>2
<1>7. CASE /\ Returns(t, done, [w EXCEPT !.status = @ \cup {"error"}])
           /\ UNCHANGED inexact
  <2> DEFINE v == [w EXCEPT !.status = @ \cup {"error"}]
  <2>1. /\ v \in Found /\ v.io = w.io /\ v.elapsed = w.elapsed /\ w.status \subseteq v.status
      BY DEF Found, Flags
  <2>2. done \in 0..done
      BY <1>1
  <2> HIDE DEF v
  <2> QED
      BY <1>1, <1>3, <1>7, <2>1, <2>2 DEF v
<1> QED
    BY <1>4, <1>5, <1>6, <1>7

LEMMA ResumeStep ==
    ASSUME WinInv, NEW t \in Tasks, NEW w \in Found, Fitting(t, w), Resume(t, w)
    PROVE  WinInv'
<1>1. CASE op[t] # "connect" /\ life = "closed"
  <2>1. /\ loop' = "crashed" /\ io' = w.io
        /\ UNCHANGED <<stream, calls, up, owed, unclaimed, inexact>>
      BY <1>1 DEF Resume
  <2> QED
      BY <1>1, <2>1, CrashStep
<1>2. CASE ~(op[t] # "connect" /\ life = "closed")
  <2>1. /\ \/ op[t] = "connect" /\ EndConnect(t, w)
           \/ op[t] = "read" /\ EndRead(t, w)
           \/ op[t] = "write" /\ EndWrite(t, w)
        /\ timers' = {u \in timers : op'[u] # "none"}
        /\ UNCHANGED loop
      BY <1>2 DEF Resume
  <2>2. timers' \subseteq Tasks
      BY <2>1 DEF WinInv, TypeOK
  <2> QED
      BY <2>1, <2>2, EndConnectStep, EndReadStep, EndWriteStep
<1> QED
    BY <1>1, <1>2

(* A packet resumes the call that waits for it, or it was left behind and  *)
(* the stream no longer says so, as a timeout of its direction would have  *)
(* dropped it: then a connect has expired.                                 *)
LEMMA Resumes ==
    ASSUME WinInv, NEW r \in io, loop = "running", ~r.pending, Target(r) # nobody
    PROVE  /\ Target(r) \in Tasks
           /\ r.error # "aborted"
           /\ ~r.live => strayed \/ expired
           /\ r.live => /\ Target(r) = r.task /\ op[r.task] = r.kind
                        /\ ~strayed => \A q \in io \ {r} : ~(q.live /\ q.task = r.task)
<1> USE DEF WinInv
<1>1. r.kind \in {"read", "write", "connect"} /\ r.task \in Tasks
    BY Types
<1>2. /\ processor # "none" /\ processor \in {"connect", "stream"} /\ r.error # "aborted"
  <2>1. processor \in {"none", "connect", "stream"} /\ processor # "none"
      BY DEF TypeOK, CallsReserved
  <2>2. r.error # "aborted"
      BY DEF Target
  <2> QED
      BY <2>1, <2>2
<1>3. CASE processor = "connect"
  <2>1. Target(r) = reserved["read"] /\ life = "new"
      BY <1>2, <1>3 DEF Target, CallsReserved
  <2>2. Target(r) \in Tasks
      BY <2>1, Types
  <2>3. ~r.live => strayed \/ expired
      BY <1>2, <2>1 DEF LeftBehind
  <2>4. r.live => Target(r) = r.task /\ op[r.task] = r.kind
    <3>1. r.live => op[r.task] = r.kind /\ r.kind = "connect"
        BY <2>1 DEF OperationsOfCalls
    <3> QED
        BY <1>1, <2>1, <3>1 DEF CallsReserved, Overlapped
  <2>5. r.live /\ ~strayed => \A q \in io \ {r} : ~(q.live /\ q.task = r.task)
      BY DEF OperationsOfCalls
  <2> QED
      BY <1>2, <2>2, <2>3, <2>4, <2>5
<1>4. CASE processor = "stream"
  <2>1. TimeoutFlag(r.kind) \notin status /\ Target(r) = reserved[Overlapped(r.kind)]
      BY <1>2, <1>4 DEF Target, TimeoutFlag
  <2>2. Target(r) \in Tasks
      BY <2>1, Types DEF Overlapped
  <2>3. ~r.live => strayed \/ expired
      BY <1>2, <2>1 DEF LeftBehind, TimeoutFlag
  <2>4. r.live => Target(r) = r.task /\ op[r.task] = r.kind
    <3>1. r.live => op[r.task] = r.kind
        BY DEF OperationsOfCalls
    <3> QED
        BY <1>1, <1>4, <2>1, <3>1 DEF CallsReserved
  <2>5. r.live /\ ~strayed => \A q \in io \ {r} : ~(q.live /\ q.task = r.task)
      BY DEF OperationsOfCalls
  <2> QED
      BY <1>2, <2>2, <2>3, <2>4, <2>5
<1> QED
    BY <1>2, <1>3, <1>4

(* Neither what a packet says nor its loss makes the stream forget a       *)
(* timeout.                                                                *)
LEMMA StatusKept ==
    ASSUME WinInv, NEW r \in io, r.error # "aborted"
    PROVE  /\ StatusAfter(r) \subseteq Flags
           /\ status \cap {"read_timeout", "write_timeout"} \subseteq StatusAfter(r)
<1>1. status \subseteq Flags /\ r.error \in {"none", "eof", "aborted", "fail"}
    BY Types
<1> QED
    BY <1>1 DEF StatusAfter, Flags

LEMMA DeliverStep ==
    ASSUME WinInv, NEW r \in io, Deliver(r)
    PROVE  WinInv'
<1> DEFINE t == Target(r)
<1>1. loop = "running" /\ ~r.pending /\ UNCHANGED expired
    BY DEF Deliver
<1>2. /\ strayed' \in BOOLEAN
      /\ strayed' <=> strayed \/ (t # nobody /\ ~r.live)
      /\ refused' \in BOOLEAN
  <2>1. strayed' = (strayed \/ (t # nobody /\ ~r.live))
      BY DEF Deliver
  <2>2. refused' = (refused \/ (processor = "connect" /\ r.error = "fail"))
      BY DEF Deliver
  <2> QED
      BY <2>1, <2>2, Zenon
<1>3. expired' \in BOOLEAN /\ (strayed => expired) /\ (strayed' => expired)
    BY <1>1, <1>2, Resumes DEF WinInv, TypeOK, WakesItsCall
<1>4. CASE t = nobody \/ op[t] = "none"
  <2>1. /\ io' = io \ {r}
        /\ UNCHANGED <<type, life, status, processor, reserved, op, offset, timers, loop, up,
                       owed, unclaimed, inexact>>
      BY <1>4 DEF Deliver, stream, calls
  <2>2. TypeOK'
      BY <1>1, <1>2, <1>3, <2>1 DEF TypeOK, WinInv
  <2> QED
      BY <1>1, <1>2, <1>3, <2>1, <2>2, DropStep
<1>5. CASE ~(t = nobody \/ op[t] = "none")
  <2> DEFINE w == [n |-> r.n, status |-> StatusAfter(r), elapsed |-> FALSE, io |-> io \ {r}]
  <2>1. Resume(t, w)
      BY <1>5 DEF Deliver
  <2>2. t \in Tasks /\ op[t] # "none" /\ r.error # "aborted"
      BY <1>1, <1>5, Resumes
  <2>3. w \in Found /\ status \cap {"read_timeout", "write_timeout"} \subseteq w.status
      BY <2>2, StatusKept, Types DEF Found
  <2>4. ~strayed' => \A q \in w.io : ~(q.live /\ q.task = t)
      BY <1>1, <1>2, <1>5, Resumes
  <2>5. /\ ~strayed' /\ op[t] = "read" => w.n <= owed
        /\ ~strayed' /\ op[t] = "write" => offset[t] + w.n <= unclaimed
    <3> SUFFICES ASSUME ~strayed'
                 PROVE  /\ op[t] = "read" => r.n <= owed
                        /\ op[t] = "write" => offset[t] + r.n <= unclaimed
        OBVIOUS
    <3>1. ~strayed /\ r.live
        BY <1>2, <1>5, Types
    <3>2. t = r.task /\ op[t] = r.kind
        BY <1>1, <1>5, <3>1, Resumes
    <3> HIDE DEF t
    <3> QED
        BY <1>1, <3>1, <3>2 DEF NoBytesInvented, WinInv
  <2>6. Fitting(t, w)
    <3>1. ~w.elapsed
        OBVIOUS
    <3> HIDE DEF t, w
    <3> QED
        BY <1>1, <1>2, <1>3, <2>3, <2>4, <2>5, <3>1 DEF Fitting
  <2> HIDE DEF w, t
  <2> QED
      BY <2>1, <2>2, <2>3, <2>6, ResumeStep
<1> QED
    BY <1>4, <1>5

LEMMA TimeoutStep ==
    ASSUME WinInv, NEW t \in Tasks, Timeout(t)
    PROVE  WinInv'
<1> DEFINE w == [n |-> 0, status |-> status, elapsed |-> loop = "running", io |-> io]
<1>1. /\ loop \in {"running", "ending"} /\ UNCHANGED <<strayed, refused>>
      /\ Resume(t, w)
    BY DEF Timeout
<1>2. /\ expired' \in BOOLEAN
      /\ expired' <=> (expired \/ op[t] = "connect")
  <2>1. expired' = (expired \/ op[t] = "connect")
      BY DEF Timeout
  <2> QED
      BY <2>1, Zenon
<1>3. w \in Found
    BY Types, WinAssumption DEF Found
<1>4. /\ strayed \in BOOLEAN /\ refused \in BOOLEAN /\ expired \in BOOLEAN
      /\ (strayed => expired)
    BY DEF WinInv, TypeOK, WakesItsCall
<1>5. w.n = 0 /\ w.status = status /\ (w.elapsed <=> loop = "running") /\ w.io = io
    OBVIOUS
<1>6. /\ 0 <= owed
      /\ ~strayed /\ op[t] = "write" => offset[t] + 0 <= unclaimed
  <2>1. ~strayed /\ op[t] = "write" => offset[t] <= unclaimed /\ offset[t] \in Nat
      BY Types DEF NoBytesInvented, WinInv
  <2> QED
      BY <2>1, Types
<1> HIDE DEF w
<1>7. Fitting(t, w)
    BY <1>1, <1>2, <1>4, <1>5, <1>6 DEF Fitting
<1> QED
    BY <1>1, <1>3, <1>7, ResumeStep

-----------------------------------------------------------------------------
(* Every step *)

LEMMA ConnectStep ==
    ASSUME WinInv, NEW t \in Tasks, NEW timeout \in BOOLEAN, Connect(t, timeout)
    PROVE  WinInv'
<1>1. /\ life = "new" /\ May(t, "connect")
      /\ status' = {} /\ processor' = "connect"
      /\ reserved' = [read |-> t, write |-> nobody]
      /\ Submit(t, "connect", 0, io)
      /\ op' = [op EXCEPT ![t] = "connect"]
      /\ timers' = IF timeout THEN timers \cup {t} ELSE timers
      /\ UNCHANGED <<type, life, offset, loop, up, owed, unclaimed, inexact, strayed, expired,
                     refused>>
    BY DEF Connect, history
<1>2. 0 \in 0..Length
    BY WinAssumption
<1>3. PICK r \in Operations :
          /\ io' = io \cup {r} /\ r.live /\ r.pending /\ r.n = 0 /\ r.error = "none"
          /\ r.kind = "connect" /\ r.task = t
    BY <1>1, <1>2, SubmitAdds
<1>4. /\ reserved' \in [{"read", "write"} -> Tasks \cup {nobody}] /\ reserved'["read"] = t
      /\ op' \in [Tasks -> {"none", "read", "write", "connect"}]
      /\ io' \subseteq Operations
      /\ timers' \subseteq Tasks
    BY <1>1, <1>3, Types DEF WinInv, TypeOK
<1>5. TypeOK'
    BY <1>1, <1>4 DEF TypeOK, WinInv
<1> QED
    BY <1>1, <1>3, <1>4, <1>5, BeginStep

LEMMA ReadStep ==
    ASSUME WinInv, NEW t \in Tasks, NEW n \in 1..Length, NEW timeout \in BOOLEAN,
           Read(t, n, timeout)
    PROVE  WinInv'
<1>1. /\ life = "open" /\ May(t, "read") /\ "read_timeout" \notin status
      /\ Submit(t, "read", n, io)
      /\ reserved' = [reserved EXCEPT !["read"] = t]
      /\ op' = [op EXCEPT ![t] = "read"]
      /\ timers' = IF timeout THEN timers \cup {t} ELSE timers
      /\ UNCHANGED <<type, life, status, processor, offset, loop, up, owed, unclaimed, inexact,
                     strayed, expired, refused>>
    BY DEF Read, CanRead, ReadFailures, Flags, history
<1>2. n \in 0..Length
    BY WinAssumption
<1>3. PICK r \in Operations :
          /\ io' = io \cup {r} /\ r.live /\ r.pending /\ r.n = 0 /\ r.error = "none"
          /\ r.kind = "read" /\ r.task = t
    BY <1>1, <1>2, SubmitAdds
<1>4. /\ reserved' \in [{"read", "write"} -> Tasks \cup {nobody}]
      /\ op' \in [Tasks -> {"none", "read", "write", "connect"}]
      /\ io' \subseteq Operations
      /\ timers' \subseteq Tasks
    BY <1>1, <1>3, Types DEF WinInv, TypeOK
<1>5. TypeOK'
    BY <1>1, <1>4 DEF TypeOK, WinInv
<1>6. TimeoutFlag("read") \notin status
    BY <1>1 DEF TimeoutFlag
<1> QED
    BY <1>1, <1>3, <1>5, <1>6, BeginStep

LEMMA WriteStep ==
    ASSUME WinInv, NEW t \in Tasks, NEW timeout \in BOOLEAN, Write(t, timeout)
    PROVE  WinInv'
<1>1. /\ life = "open" /\ May(t, "write") /\ "write_timeout" \notin status
      /\ timers' = IF timeout THEN timers \cup {t} ELSE timers
      /\ UNCHANGED <<type, life, status, processor, loop, up, owed, unclaimed,
                     strayed, expired, refused>>
    BY DEF Write, CanWrite, WriteFailures, Flags
<1>2. /\ reserved' = [reserved EXCEPT !["write"] = t]
      /\ op' = [op EXCEPT ![t] = "write"]
      /\ offset' = [offset EXCEPT ![t] = 0]
    BY DEF Write, Round
<1>3. /\ inexact' = (inexact \/ (0 > 0 /\ type = "tcp"))
      /\ Submit(t, "write", IF type = "file" THEN Length - 0 ELSE Length, io)
    BY DEF Write, Round
<1>4. (IF type = "file" THEN Length - 0 ELSE Length) \in 0..Length
    BY WinAssumption
<1>5. PICK r \in Operations :
          /\ io' = io \cup {r} /\ r.live /\ r.pending /\ r.n = 0 /\ r.error = "none"
          /\ r.kind = "write" /\ r.task = t
    BY <1>3, <1>4, SubmitAdds
<1>6. /\ reserved' \in [{"read", "write"} -> Tasks \cup {nobody}]
      /\ op' \in [Tasks -> {"none", "read", "write", "connect"}]
      /\ offset' \in [Tasks -> 0..(Length - 1)]
      /\ io' \subseteq Operations
      /\ timers' \subseteq Tasks
    BY <1>1, <1>2, <1>5, Types, WinAssumption DEF WinInv, TypeOK
<1>7. inexact' \in BOOLEAN
    BY <1>3, Zenon
<1>8. TypeOK'
    BY <1>1, <1>6, <1>7 DEF TypeOK, WinInv
<1>9. TimeoutFlag("write") \notin status /\ offset'[t] = 0
      /\ \A u \in Tasks : u # t => offset'[u] = offset[u]
    BY <1>1, <1>2, Types DEF TimeoutFlag
<1> QED
    BY <1>1, <1>2, <1>5, <1>8, <1>9, BeginStep

LEMMA CallStep ==
    ASSUME WinInv, NEW t \in Tasks, Call(t)
    PROVE  WinInv'
<1>1. CASE Attach(t)
  <2>1. /\ life = "new" /\ May(t, "connect") /\ Open /\ up' = TRUE
        /\ UNCHANGED <<type, calls, io, loop, history>>
      BY <1>1 DEF Attach
  <2>2. TypeOK'
      BY <2>1 DEF TypeOK, WinInv, Open, calls, history
  <2> QED
      BY <2>1, <2>2, OpenStep
<1>2. ASSUME NEW ok \in BOOLEAN, ConnectAtOnce(t, ok) PROVE WinInv'
  <2>1. /\ life = "new" /\ May(t, "connect") /\ up' = ok
        /\ IF ok THEN Open
           ELSE /\ status' = {"error"} /\ processor' = "connect"
                /\ reserved' = [read |-> t, write |-> nobody]
                /\ UNCHANGED life
        /\ UNCHANGED <<type, calls, io, loop, history>>
      BY <1>2 DEF ConnectAtOnce
  <2>2. CASE ok
    <3>1. TypeOK'
        BY <2>1, <2>2 DEF TypeOK, WinInv, Open, calls, history
    <3> QED
        BY <2>1, <2>2, <3>1, OpenStep
  <2>3. CASE ~ok
    <3>1. TypeOK'
        BY <2>1, <2>3 DEF TypeOK, WinInv, Flags, calls, history
    <3>2. reserved'["read"] = t
        BY <2>1, <2>3
    <3> QED
        BY <2>1, <2>3, <3>1, <3>2, OpenStep
  <2> QED
      BY <2>2, <2>3
<1>3. ASSUME \/ \E n \in 0..Length, error \in BOOLEAN : ReadAtOnce(t, n, error)
             \/ \E error \in BOOLEAN : WriteAtOnce(t, error)
      PROVE  WinInv'
  <2>1. /\ status' = status \cup {"error"} \/ status' = status
        /\ UNCHANGED <<type, life, processor, reserved, op, offset, timers, io, loop, up, owed,
                       unclaimed, inexact, strayed, expired, refused>>
      BY <1>3 DEF ReadAtOnce, WriteAtOnce, calls, history
  <2>2. TypeOK'
      BY <2>1, ZenonT(60) DEF TypeOK, WinInv, Flags
  <2>3. strayed => expired
      BY DEF WinInv, WakesItsCall
  <2> QED
      BY <2>1, <2>2, <2>3, DropStep
<1> QED
    BY <1>1, <1>2, <1>3, ConnectStep, ReadStep, WriteStep, CloseStep DEF Call

LEMMA StopStep == WinInv /\ Stop => WinInv'
<1> SUFFICES ASSUME WinInv, Stop PROVE WinInv'
    OBVIOUS
<1>1. /\ loop' = "ending"
      /\ UNCHANGED <<type, life, status, processor, reserved, op, offset, timers, io, up, owed,
                     unclaimed, inexact, strayed, expired, refused>>
    BY DEF Stop, stream, calls, history
<1>2. TypeOK'
    BY <1>1 DEF TypeOK, WinInv
<1>3. strayed => expired
    BY DEF WinInv, WakesItsCall
<1> QED
    BY <1>1, <1>2, <1>3, DropStep

LEMMA StepWin == WinInv /\ [Next]_vars => WinInv'
<1> SUFFICES ASSUME WinInv, [Next]_vars PROVE WinInv'
    OBVIOUS
<1>1. CASE UNCHANGED vars
    BY <1>1 DEF vars, stream, calls, history, WinInv, TypeOK, WakesItsCall, OverlappedFree,
           BufferOutlivesOperation, CallsReserved, OperationsOfCalls, LeftBehind,
           ConnectTells, NoBytesInvented
<1>2. CASE Next
    BY <1>2, CallStep, TimeoutStep, CompleteStep, DeliverStep, StopStep DEF Next
<1> QED
    BY <1>1, <1>2

(* Packets find their own call, an OVERLAPPED and a buffer belong to one   *)
(* operation at a time and no call returns bytes that were not             *)
(* transferred, whatever the tasks do, the system answers and the timers   *)
(* do meanwhile, up to the connect that timed out.                         *)
THEOREM WinInvariance == Spec => []WinInv
<1> QED
    BY InitWin, StepWin, PTL DEF Spec

-----------------------------------------------------------------------------
(* What a connect opens, and the bytes of an open stream *)

(* A stream is opened with nothing under way but what a connect left       *)
(* behind, and by a packet that says that the socket is connected.         *)
LEMMA Opens ==
    ASSUME WinInv, Next, life # "open", life' = "open", loop' = "running"
    PROVE  /\ up' \/ refused' \/ strayed'
           /\ owed' = 0 /\ unclaimed' = 0
           /\ \A r \in io' : r.kind = "connect"
           /\ \A t \in Tasks : op'[t] # "write"
<1> USE DEF WinInv
<1>1. ASSUME life = "new"
      PROVE  /\ owed = 0 /\ unclaimed = 0 /\ io \in SUBSET Operations
             /\ \A r \in io : r.kind = "connect"
             /\ \A t \in Tasks : op[t] # "write"
    BY <1>1, Types, OneCaller DEF NoBytesInvented, OperationsOfCalls
<1>2. ASSUME NEW t \in Tasks, Call(t)
      PROVE  /\ life = "new" /\ up' /\ UNCHANGED <<owed, unclaimed, io, op>>
  <2>1. Attach(t) \/ \E yes \in BOOLEAN : ConnectAtOnce(t, yes) \/ Connect(t, yes)
      BY <1>2 DEF Call, Close, Write, WriteAtOnce, CanWrite, Read, ReadAtOnce, CanRead
  <2>2. CASE Attach(t)
      BY <2>2 DEF Attach, calls, history
  <2>3. ASSUME NEW yes \in BOOLEAN, ConnectAtOnce(t, yes)
        PROVE  life = "new" /\ up' /\ UNCHANGED <<owed, unclaimed, io, op>>
    <3>1. /\ life = "new" /\ up' = yes /\ (~yes => UNCHANGED life)
          /\ UNCHANGED <<owed, unclaimed, io, op>>
        BY <2>3 DEF ConnectAtOnce, calls, history
    <3> QED
        BY <3>1
  <2>4. ASSUME NEW yes \in BOOLEAN, Connect(t, yes) PROVE FALSE
      BY <2>4 DEF Connect
  <2> QED
      BY <2>1, <2>2, <2>3, <2>4
<1>3. ASSUME NEW t \in Tasks, NEW w, Resume(t, w)
      PROVE  op[t] = "connect" /\ EndConnect(t, w) /\ ~w.elapsed /\ UNCHANGED loop
    BY <1>3 DEF Resume, EndConnect, EndRead, EndWrite
<1>4. ASSUME NEW t \in Tasks, op[t] = "connect", NEW w \in Found, EndConnect(t, w), ~w.elapsed
      PROVE  /\ life = "new" /\ processor = "connect" /\ UNCHANGED <<owed, unclaimed, up>>
             /\ \A r \in io' : r.kind = "connect"
             /\ \A u \in Tasks : op'[u] # "write"
  <2>1. life = "new" /\ processor = "connect"
      BY <1>4, OneCaller
  <2>2. /\ io' = Abandoned(t, w.io) /\ op' = [op EXCEPT ![t] = "none"]
        /\ UNCHANGED <<owed, unclaimed, up>>
      BY <1>4 DEF EndConnect
  <2>3. w.io \in SUBSET Operations /\ w.io \subseteq io
      BY <1>4, Types DEF Found
  <2>4. \A q \in io' : \E r \in io : q.kind = r.kind
      BY <2>2, <2>3, AbandonedKeeps
  <2> QED
      BY <1>1, <2>1, <2>2, <2>4, Types
<1>5. ASSUME NEW t \in Tasks, Timeout(t) PROVE FALSE
  <2> DEFINE w == [n |-> 0, status |-> status, elapsed |-> loop = "running", io |-> io]
  <2>1. Resume(t, w)
      BY <1>5 DEF Timeout
  <2> HIDE DEF w
  <2>2. ~w.elapsed /\ UNCHANGED loop
      BY <1>3, <2>1
  <2> QED
      BY <2>2 DEF w
<1>6. ASSUME NEW r \in io, Complete(r) PROVE FALSE
    BY <1>6 DEF Complete, stream
<1>7. ASSUME NEW r \in io, Deliver(r)
      PROVE  /\ life = "new" /\ UNCHANGED <<owed, unclaimed, up>>
             /\ \A q \in io' : q.kind = "connect"
             /\ \A t \in Tasks : op'[t] # "write"
             /\ up' \/ refused' \/ strayed'
  <2> DEFINE t == Target(r)
             w == [n |-> r.n, status |-> StatusAfter(r), elapsed |-> FALSE, io |-> io \ {r}]
  <2>1. t # nobody /\ op[t] # "none" /\ Resume(t, w) /\ loop = "running" /\ ~r.pending
      BY <1>7 DEF Deliver, stream
  <2>2. t \in Tasks /\ r.error # "aborted"
      BY <2>1, Resumes
  <2>3. w \in Found /\ ~w.elapsed
      BY <2>2, StatusKept, Types DEF Found
  <2>4. (strayed' <=> strayed \/ ~r.live)
      /\ (refused' <=> refused \/ (processor = "connect" /\ r.error = "fail"))
    <3>1. strayed' = (strayed \/ (t # nobody /\ ~r.live))
        BY <1>7 DEF Deliver
    <3>2. refused' = (refused \/ (processor = "connect" /\ r.error = "fail"))
        BY <1>7 DEF Deliver
    <3> QED
        BY <2>1, <3>1, <3>2, Zenon
  <2>5. r.live => t = r.task /\ op[r.task] = r.kind
      BY <2>1, Resumes
  <2> HIDE DEF t, w
  <2>6. op[t] = "connect" /\ EndConnect(t, w)
      BY <1>3, <2>1, <2>2
  <2>7. /\ life = "new" /\ processor = "connect" /\ UNCHANGED <<owed, unclaimed, up>>
        /\ \A q \in io' : q.kind = "connect"
        /\ \A u \in Tasks : op'[u] # "write"
      BY <1>4, <2>2, <2>3, <2>6
  <2>8. r.live => r.error = "fail" \/ up
      BY <2>1, <2>5, <2>6 DEF ConnectTells
  <2> QED
      BY <2>4, <2>7, <2>8, Types
<1>8. ASSUME Stop PROVE FALSE
    BY <1>8 DEF Stop
<1> QED
    BY <1>1, <1>2, <1>5, <1>6, <1>7, <1>8 DEF Next

(* what happened when t is resumed in a call of an open stream *)
Came(t, w) ==
    /\ w \in Found
    /\ status \cap {"read_timeout", "write_timeout"} \subseteq w.status
    /\ \/ w.elapsed /\ w.io = io /\ w.n = 0
       \/ ~w.elapsed /\ \E r \in io :
              /\ ~r.pending /\ w.io = io \ {r} /\ w.n = r.n
              /\ ~strayed' => r.live /\ r.task = t /\ r.kind = op[t]

(* and it is a read or a write *)
GoesOn(t, w) ==
    \/ op[t] = "read" /\ EndRead(t, w)
    \/ op[t] = "write" /\ EndWrite(t, w)

(* a read or a write starts *)
Begins(t, kind) ==
    /\ op[t] = "none" /\ \A u \in Tasks : op[u] # kind
    /\ op' = [op EXCEPT ![t] = kind]
    /\ \A u \in Tasks : offset'[u] = IF u = t /\ kind = "write" THEN 0 ELSE offset[u]
    /\ inexact => inexact'
    /\ \E r \in Operations : io' = io \cup {r} /\ r.pending /\ r.kind = kind
    /\ UNCHANGED <<status, owed, unclaimed, strayed>>

(* a call that ends at once *)
AtOnce ==
    /\ status \cap {"read_timeout", "write_timeout"} \subseteq status'
    /\ UNCHANGED <<op, offset, io, owed, unclaimed, inexact, strayed>>

(* a packet that resumes nobody *)
Dropped(r) ==
    /\ ~r.pending
    /\ Target(r) = nobody \/ op[Target(r)] = "none"
    /\ io' = io \ {r}
    /\ strayed => strayed'
    /\ UNCHANGED <<status, op, offset, owed, unclaimed, inexact>>

(* The steps of a stream that is and stays open.                           *)
LEMMA Continues ==
    ASSUME WinInv, Next, life = "open", life' = "open", loop' = "running"
    PROVE  /\ loop = "running"
           /\ strayed => strayed'
           /\ \/ \E t \in Tasks, kind \in {"read", "write"} : Begins(t, kind)
              \/ AtOnce
              \/ \E r \in io : Complete(r) \/ Dropped(r)
              \/ \E t \in Tasks, w \in Found : Came(t, w) /\ GoesOn(t, w)
<1> USE DEF WinInv
<1>1. \A t \in Tasks : op[t] # "connect"
    BY OneCaller
<1>2. ASSUME NEW t \in Tasks, Call(t)
      PROVE  /\ loop = "running" /\ (strayed => strayed')
             /\ AtOnce \/ \E kind \in {"read", "write"} : Begins(t, kind)
  <2>1. /\ ~Attach(t) /\ ~Close(t)
        /\ \A yes \in BOOLEAN : ~ConnectAtOnce(t, yes) /\ ~Connect(t, yes)
      BY DEF Attach, ConnectAtOnce, Connect, Close
  <2>2. \E yes \in BOOLEAN :
            \/ Write(t, yes) \/ WriteAtOnce(t, yes)
            \/ \E n \in 1..Length : Read(t, n, yes)
            \/ \E n \in 0..Length : ReadAtOnce(t, n, yes)
      BY <1>2, <2>1 DEF Call
  <2>3. ASSUME NEW yes \in BOOLEAN, Write(t, yes)
        PROVE  loop = "running" /\ (strayed => strayed') /\ Begins(t, "write")
    <3>1. /\ May(t, "write") /\ UNCHANGED <<status, owed, unclaimed, strayed>>
          /\ offset' = [offset EXCEPT ![t] = 0] /\ op' = [op EXCEPT ![t] = "write"]
        BY <2>3 DEF Write, CanWrite, Round
    <3>2. /\ Submit(t, "write", IF type = "file" THEN Length - 0 ELSE Length, io)
          /\ inexact' = (inexact \/ (0 > 0 /\ type = "tcp"))
        BY <2>3 DEF Write, Round
    <3>3. (IF type = "file" THEN Length - 0 ELSE Length) \in 0..Length
        BY WinAssumption
    <3>4. \E r \in Operations : io' = io \cup {r} /\ r.pending /\ r.kind = "write"
        BY <3>2, <3>3, SubmitAdds
    <3>5. inexact => inexact'
        BY <3>2, Zenon
    <3> QED
        BY <3>1, <3>4, <3>5, Types DEF May, Begins
  <2>4. ASSUME NEW yes \in BOOLEAN, NEW n \in 1..Length, Read(t, n, yes)
        PROVE  loop = "running" /\ (strayed => strayed') /\ Begins(t, "read")
    <3>1. /\ May(t, "read") /\ UNCHANGED <<status, owed, unclaimed, strayed, offset, inexact>>
          /\ op' = [op EXCEPT ![t] = "read"] /\ Submit(t, "read", n, io)
        BY <2>4 DEF Read, CanRead, history
    <3>2. n \in 0..Length
        BY WinAssumption
    <3>3. \E r \in Operations : io' = io \cup {r} /\ r.pending /\ r.kind = "read"
        BY <3>1, <3>2, SubmitAdds
    <3> QED
        BY <3>1, <3>3, Types DEF May, Begins
  <2>5. ASSUME \/ \E yes \in BOOLEAN : WriteAtOnce(t, yes)
               \/ \E yes \in BOOLEAN, n \in 0..Length : ReadAtOnce(t, n, yes)
        PROVE  loop = "running" /\ (strayed => strayed') /\ AtOnce
      BY <2>5 DEF WriteAtOnce, ReadAtOnce, CanWrite, CanRead, May, AtOnce, calls, history
  <2> QED
      BY <2>2, <2>3, <2>4, <2>5
<1>3. ASSUME NEW t \in Tasks, NEW w, Resume(t, w)
      PROVE  loop = "running" /\ GoesOn(t, w)
    BY <1>1, <1>3 DEF Resume, GoesOn
<1>4. ASSUME NEW t \in Tasks, Timeout(t)
      PROVE  /\ loop = "running" /\ (strayed => strayed')
             /\ \E w \in Found : Came(t, w) /\ GoesOn(t, w)
  <2> DEFINE w == [n |-> 0, status |-> status, elapsed |-> loop = "running", io |-> io]
  <2>1. Resume(t, w) /\ UNCHANGED strayed
      BY <1>4 DEF Timeout
  <2>2. w \in Found /\ w.io = io /\ w.n = 0 /\ w.status = status
      BY Types, WinAssumption DEF Found
  <2>3. w.elapsed <=> loop = "running"
      OBVIOUS
  <2> HIDE DEF w
  <2>4. loop = "running" /\ GoesOn(t, w)
      BY <1>3, <2>1
  <2>5. Came(t, w)
      BY <2>2, <2>3, <2>4 DEF Came
  <2> QED
      BY <2>1, <2>2, <2>4, <2>5
<1>5. ASSUME NEW r \in io, Complete(r)
      PROVE  loop = "running" /\ (strayed => strayed')
    BY <1>5 DEF Complete
<1>6. ASSUME NEW r \in io, Deliver(r)
      PROVE  /\ loop = "running" /\ (strayed => strayed')
             /\ \/ Dropped(r)
                \/ \E t \in Tasks, w \in Found : Came(t, w) /\ GoesOn(t, w)
  <2> DEFINE t == Target(r)
             w == [n |-> r.n, status |-> StatusAfter(r), elapsed |-> FALSE, io |-> io \ {r}]
  <2>1. loop = "running" /\ ~r.pending
      BY <1>6 DEF Deliver
  <2>2. strayed' <=> strayed \/ (t # nobody /\ ~r.live)
    <3>1. strayed' = (strayed \/ (t # nobody /\ ~r.live))
        BY <1>6 DEF Deliver
    <3> QED
        BY <3>1, Zenon
  <2>3. CASE t = nobody \/ op[t] = "none"
    <3>1. io' = io \ {r} /\ UNCHANGED <<status, op, offset, owed, unclaimed, inexact>>
        BY <1>6, <2>3 DEF Deliver, stream, calls
    <3> QED
        BY <2>1, <2>2, <2>3, <3>1 DEF Dropped
  <2>4. CASE ~(t = nobody \/ op[t] = "none")
    <3>1. Resume(t, w)
        BY <1>6, <2>4 DEF Deliver
    <3>2. t \in Tasks /\ r.error # "aborted"
        BY <2>1, <2>4, Resumes
    <3>3. /\ w \in Found /\ status \cap {"read_timeout", "write_timeout"} \subseteq w.status
          /\ ~w.elapsed /\ w.n = r.n /\ w.io = io \ {r}
        BY <3>2, StatusKept, Types DEF Found
    <3>4. ~strayed' => r.live /\ r.task = t /\ r.kind = op[t]
        BY <2>1, <2>2, <2>4, Resumes, Types
    <3> HIDE DEF t, w
    <3>5. GoesOn(t, w)
        BY <1>3, <3>1, <3>2
    <3>6. Came(t, w)
        BY <2>1, <3>3, <3>4 DEF Came
    <3> QED
        BY <2>1, <2>2, <3>2, <3>3, <3>5, <3>6
  <2> QED
      BY <2>3, <2>4
<1>7. ~Stop
    BY DEF Stop
<1> QED
    BY <1>2, <1>4, <1>5, <1>6, <1>7 DEF Next

LEMMA StepOpenMeansConnected ==
    WinInv /\ OpenMeansConnected /\ [Next]_vars => OpenMeansConnected'
<1> SUFFICES ASSUME WinInv, OpenMeansConnected, [Next]_vars, life' = "open",
                    loop' = "running"
             PROVE  up' \/ refused' \/ strayed'
    BY DEF OpenMeansConnected
<1>1. CASE UNCHANGED vars
    BY <1>1 DEF vars, stream, history, OpenMeansConnected
<1>2. CASE Next /\ life # "open"
    BY <1>2, Opens
<1>3. CASE Next /\ life = "open"
  <2>1. loop = "running" /\ (strayed => strayed')
      BY <1>3, Continues
  <2>2. up \/ refused \/ strayed
      BY <1>3, <2>1 DEF OpenMeansConnected
  <2>3. ASSUME NEW t \in Tasks, Call(t) PROVE UNCHANGED <<up, refused>>
    <3>1. \A yes \in BOOLEAN : ~Attach(t) /\ ~ConnectAtOnce(t, yes) /\ ~Connect(t, yes)
        BY <1>3 DEF Attach, ConnectAtOnce, Connect
    <3> QED
        BY <1>3, <2>3, <3>1 DEF Call, Close, Write, WriteAtOnce, Read, ReadAtOnce, history
  <2>4. ASSUME NEW t \in Tasks, NEW w, Resume(t, w) PROVE UNCHANGED up
      BY <1>3, <2>4, OneCaller DEF Resume, EndRead, EndWrite
  <2>5. ASSUME NEW t \in Tasks, Timeout(t) PROVE UNCHANGED <<up, refused>>
      BY <2>4, <2>5 DEF Timeout
  <2>6. ASSUME NEW r \in io, Complete(r) PROVE (up => up') /\ UNCHANGED refused
    <3>1. PICK o \in Outcomes(r) : up' = (up \/ (r.kind = "connect" /\ o[2] = "none"))
        BY <2>6 DEF Complete
    <3>2. up => up'
        BY <3>1, Zenon
    <3> QED
        BY <2>6, <3>2 DEF Complete
  <2>7. ASSUME NEW r \in io, Deliver(r) PROVE UNCHANGED up /\ (refused => refused')
    <3>1. refused' = (refused \/ (processor = "connect" /\ r.error = "fail"))
        BY <2>7 DEF Deliver
    <3>2. refused => refused'
        BY <3>1, Zenon
    <3>3. CASE Target(r) = nobody \/ op[Target(r)] = "none"
        BY <2>7, <3>3 DEF Deliver
    <3>4. CASE ~(Target(r) = nobody \/ op[Target(r)] = "none")
      <4>1. PICK t \in Tasks : t = Target(r)
          BY <2>7, <3>4, Resumes DEF Deliver
      <4>2. PICK w : Resume(t, w)
          BY <2>7, <3>4, <4>1 DEF Deliver
      <4> QED
          BY <2>4, <3>2, <4>2
    <3> QED
        BY <3>2, <3>3, <3>4
  <2> QED
      BY <1>3, <2>1, <2>2, <2>3, <2>5, <2>6, <2>7 DEF Next, Stop
<1> QED
    BY <1>1, <1>2, <1>3

(* A connect that returns an open stream has connected it, whatever the    *)
(* timers and the packets did meanwhile, with the two exceptions it names. *)
THEOREM OpenIsConnected == Spec => []OpenMeansConnected
<1>1. Init => OpenMeansConnected
    BY DEF Init, OpenMeansConnected
<1> QED
    BY <1>1, WinInvariance, StepOpenMeansConnected, PTL DEF Spec

(* An open stream that no call of this direction timed out on has at most  *)
(* one operation of it, that of the call that sleeps.                      *)
Alone ==
    \A kind \in {"read", "write"} :
        life = "open" /\ loop = "running" /\ ~strayed /\ TimeoutFlag(kind) \notin status =>
            /\ \A r \in io : r.kind = kind => /\ r.live /\ op[r.task] = kind
                                              /\ r.error # "aborted"
            /\ \A q, r \in io : q.kind = kind /\ r.kind = kind => q = r

LEMMA AloneHolds == WinInv => Alone
<1> SUFFICES ASSUME WinInv, NEW kind \in {"read", "write"}, life = "open", loop = "running",
                    ~strayed, TimeoutFlag(kind) \notin status
             PROVE  /\ \A r \in io : r.kind = kind => /\ r.live /\ op[r.task] = kind
                                                      /\ r.error # "aborted"
                    /\ \A q, r \in io : q.kind = kind /\ r.kind = kind => q = r
    BY DEF Alone
<1> USE DEF WinInv
<1>1. ASSUME NEW r \in io, r.kind = kind
      PROVE  r.live /\ op[r.task] = kind /\ r.error # "aborted"
    BY <1>1 DEF OperationsOfCalls, LeftBehind, TimeoutFlag
<1>2. ASSUME NEW q \in io, NEW r \in io, q.kind = kind, r.kind = kind
      PROVE  q = r
  <2>1. /\ q.live /\ r.live /\ op[q.task] = kind /\ op[r.task] = kind
        /\ q.task \in Tasks /\ r.task \in Tasks
      BY <1>1, <1>2, Types
  <2>2. q.task = r.task
      BY <2>1, OneCaller
  <2> QED
      BY <2>1, <2>2 DEF OperationsOfCalls
<1> QED
    BY <1>1, <1>2

(* `total' is what has been counted and what the packet brings, if there is*)
(* one of the kind.                                                        *)
Sums(ops, kind, total, counted) ==
    /\ \A r \in ops : r.kind = kind /\ ~r.pending => total = counted + r.n
    /\ (\A r \in ops : r.kind = kind => r.pending) => total = counted

LEMMA SumsMean ==
    ASSUME NEW ops, NEW kind, NEW total, NEW counted \in Nat,
           \A q, r \in ops : q.kind = kind /\ r.kind = kind => q = r
    PROVE  LET packets == {r \in ops : r.kind = kind /\ ~r.pending}
           IN  Sums(ops, kind, total, counted) <=>
                   \/ packets = {} /\ total = counted
                   \/ \E r \in packets : packets = {r} /\ total = counted + r.n
<1> DEFINE packets == {r \in ops : r.kind = kind /\ ~r.pending}
<1>1. CASE packets = {}
    BY <1>1 DEF Sums
<1>2. CASE packets # {}
  <2>1. PICK p \in ops : p.kind = kind /\ ~p.pending /\ packets = {p}
      BY <1>2
  <2>2. Sums(ops, kind, total, counted) <=> total = counted + p.n
      BY <2>1 DEF Sums
  <2> HIDE DEF packets
  <2> QED
      BY <2>1, <2>2 DEF packets
<1> QED
    BY <1>1, <1>2

(* What is under way of one kind has not changed.                          *)
SamePackets(kind) ==
    \A r : r.kind = kind /\ ~r.pending => (r \in io <=> r \in io')

LEMMA SamePacketsSum ==
    ASSUME NEW kind, NEW total, NEW counted, Sums(io, kind, total, counted),
           SamePackets(kind)
    PROVE  Sums(io', kind, total, counted)
    BY DEF Sums, SamePackets

(* A call of the other kind that returns or goes on leaves them alone.     *)
LEMMA OthersPackets ==
    ASSUME WinInv, Alone, NEW kind \in {"read", "write"}, life = "open", loop = "running",
           ~strayed, TimeoutFlag(kind) \notin status, NEW t \in Tasks, op[t] # kind,
           NEW ops \in SUBSET io, \A r \in io : r.kind = kind => r \in ops,
           \/ io' = Abandoned(t, ops)
           \/ \E more : (\A r \in more : r.pending) /\ io' = ops \cup more
    PROVE  SamePackets(kind)
<1>1. \A r \in io : r.kind = kind => r.live /\ op[r.task] = kind /\ r.task # t
    BY DEF Alone
<1>2. ops \in SUBSET Operations
    BY Types
<1>3. CASE io' = Abandoned(t, ops)
  <2>1. ASSUME NEW r \in io, r.kind = kind PROVE r \in io'
      BY <1>1, <1>2, <1>3, <2>1, AbandonedKeeps
  <2>2. ASSUME NEW q \in io', q.kind = kind PROVE q \in io
    <3>1. \/ q \in ops
          \/ \E r \in ops : r.live /\ r.task = t /\ r.kind = q.kind
        BY <1>2, <1>3, AbandonedKeeps
    <3> QED
        BY <1>1, <2>2, <3>1
  <2> QED
      BY <2>1, <2>2 DEF SamePackets
<1>4. CASE \E more : (\A r \in more : r.pending) /\ io' = ops \cup more
    BY <1>4 DEF SamePackets
<1> QED
    BY <1>3, <1>4

(* The one packet of a kind, when it resumes the call it is for, or the    *)
(* packet of another kind.                                                 *)
LEMMA CameAlone ==
    ASSUME WinInv, Alone, life = "open", loop = "running", ~strayed, ~strayed',
           NEW t \in Tasks, NEW w \in Found, Came(t, w), NEW kind \in {"read", "write"},
           TimeoutFlag(kind) \notin status
    PROVE  /\ w.io \in SUBSET io
           /\ op[t] # kind => \A r \in io : r.kind = kind => r \in w.io
           /\ op[t] = kind /\ ~w.elapsed =>
                 /\ \A r \in w.io : r.kind # kind
                 /\ \E r \in io : r.kind = kind /\ ~r.pending /\ w.n = r.n
<1>1. CASE w.elapsed
    BY <1>1 DEF Came
<1>2. CASE ~w.elapsed
  <2>1. PICK r \in io : /\ ~r.pending /\ w.io = io \ {r} /\ w.n = r.n
                        /\ r.live /\ r.task = t /\ r.kind = op[t]
      BY <1>2 DEF Came
  <2>2. op[t] = kind => \A q \in io \ {r} : q.kind # kind
      BY <2>1 DEF Alone
  <2> QED
      BY <2>1, <2>2
<1> QED
    BY <1>1, <1>2

(* An operation ends as a packet that brings the bytes that were counted.  *)
LEMMA CompleteSums ==
    ASSUME WinInv, Alone, NEW r \in io, Complete(r), life = "open", loop = "running",
           ~strayed, NEW kind \in {"read", "write"}, TimeoutFlag(kind) \notin status,
           NEW total \in Nat, NEW counted \in Nat, NEW after,
           Sums(io, kind, total, counted),
           kind = "read" => total = owed /\ after = owed',
           kind = "write" => total = unclaimed /\ after = unclaimed'
    PROVE  Sums(io', kind, after, counted)
<1>1. r.pending
    BY DEF Complete
<1> DEFINE Packet(o) == [r EXCEPT !.pending = FALSE, !.length = 0, !.n = o[1], !.error = o[2]]
<1>2. PICK o \in Outcomes(r) :
          /\ io' = (io \ {r}) \cup {Packet(o)}
          /\ owed' = IF r.kind = "read" /\ ~strayed THEN owed + o[1] ELSE owed
          /\ unclaimed' = IF r.kind = "write" /\ ~strayed THEN unclaimed + o[1] ELSE unclaimed
    BY DEF Complete
<1>3. o[1] \in Nat
  <2>1. o \in (0..r.length) \X {"none", "eof", "fail"}
      BY DEF Outcomes
  <2> QED
      BY <2>1, Types
<1>4. ~Packet(o).pending /\ Packet(o).n = o[1] /\ Packet(o).kind = r.kind
  <2>1. r \in Operations
      BY Types
  <2> QED
      BY <2>1 DEF Operations
<1> HIDE DEF Packet
<1>5. CASE r.kind = kind
  <2>1. \A q \in io : q.kind = kind => q = r
      BY <1>5 DEF Alone
  <2>2. total = counted
      BY <1>1, <2>1 DEF Sums
  <2>3. after = total + o[1]
      BY <1>2, <1>5
  <2> QED
      BY <1>2, <1>3, <1>4, <1>5, <2>1, <2>2, <2>3 DEF Sums
<1>6. CASE r.kind # kind
  <2>1. SamePackets(kind)
      BY <1>2, <1>4, <1>6 DEF SamePackets
  <2>2. after = total
      BY <1>2, <1>6
  <2> QED
      BY <2>1, <2>2, SamePacketsSum
<1> QED
    BY <1>5, <1>6

(* The packet that a call of an open stream waits for is never dropped.    *)
LEMMA DroppedOther ==
    ASSUME WinInv, Alone, NEW r \in io, Dropped(r), life = "open", loop = "running", ~strayed,
           NEW kind \in {"read", "write"}, TimeoutFlag(kind) \notin status
    PROVE  r.kind # kind /\ SamePackets(kind)
<1>1. ASSUME r.kind = kind PROVE FALSE
  <2>1. r.live /\ op[r.task] = kind /\ r.error # "aborted" /\ r.task \in Tasks
      BY <1>1, Types DEF Alone
  <2>2. processor = "stream" /\ reserved[kind] = r.task
      BY <2>1 DEF WinInv, CallsReserved, Overlapped
  <2>3. Target(r) = r.task
      BY <1>1, <2>1, <2>2 DEF Target, Overlapped, TimeoutFlag
  <2> QED
      BY <2>1, <2>3, WinAssumption DEF Dropped
<1> QED
    BY <1>1 DEF Dropped, SamePackets

(* when ReadsAccounted says something *)
ReadsCount ==
    life = "open" /\ loop = "running" /\ ~strayed /\ TimeoutFlag("read") \notin status

ReadsSum == ReadsCount => Sums(io, "read", owed, 0)

LEMMA ReadsMean == WinInv => (ReadsAccounted <=> ReadsSum)
<1> SUFFICES ASSUME WinInv
             PROVE  ReadsAccounted <=> (ReadsCount => Sums(io, "read", owed, 0))
    BY DEF ReadsSum
<1> DEFINE packets == {r \in io : r.kind = "read" /\ ~r.pending}
<1>1. ReadsAccounted <=> (ReadsCount => \/ packets = {} /\ owed = 0
                                        \/ \E r \in packets : packets = {r} /\ owed = r.n)
    BY DEF ReadsAccounted, ReadsCount, TimeoutFlag
<1>2. ASSUME ReadsCount
      PROVE  Sums(io, "read", owed, 0) <=>
                 \/ packets = {} /\ owed = 0
                 \/ \E r \in packets : packets = {r} /\ owed = 0 + r.n
  <2>1. \A q, r \in io : q.kind = "read" /\ r.kind = "read" => q = r
      BY <1>2, AloneHolds DEF Alone, ReadsCount
  <2> QED
      BY <2>1, SumsMean
<1>3. \A r \in packets : 0 + r.n = r.n
    BY Types
<1> HIDE DEF packets
<1> QED
    BY <1>1, <1>2, <1>3

LEMMA StepReads ==
    ASSUME WinInv, [Next]_vars, ReadsAccounted, ReadsCount'
    PROVE  Sums(io', "read", owed', 0)
<1>1. life' = "open" /\ loop' = "running" /\ ~strayed' /\ TimeoutFlag("read") \notin status'
    BY DEF ReadsCount
<1>2. CASE UNCHANGED vars
  <2>1. UNCHANGED <<life, loop, strayed, status, io, owed>>
      BY <1>2 DEF vars, stream, history
  <2>2. ReadsCount
      BY <1>1, <2>1 DEF ReadsCount
  <2>3. Sums(io, "read", owed, 0)
      BY <2>2, ReadsMean DEF ReadsSum
  <2> QED
      BY <2>1, <2>3 DEF Sums
<1>3. CASE Next /\ life # "open"
    BY <1>1, <1>3, Opens DEF Sums
<1>4. CASE Next /\ life = "open"
  <2>1. /\ loop = "running" /\ (strayed => strayed')
        /\ \/ \E t \in Tasks, kind \in {"read", "write"} : Begins(t, kind)
           \/ AtOnce
           \/ \E r \in io : Complete(r) \/ Dropped(r)
           \/ \E t \in Tasks, w \in Found : Came(t, w) /\ GoesOn(t, w)
      BY <1>1, <1>4, Continues
  <2>2. Alone /\ owed \in Nat /\ ~strayed
      BY <1>1, <2>1, AloneHolds, Types
  <2>3. ASSUME TimeoutFlag("read") \notin status PROVE Sums(io, "read", owed, 0)
      BY <1>4, <2>1, <2>2, <2>3, ReadsMean DEF ReadsCount, ReadsSum
  <2>4. ASSUME NEW t \in Tasks, NEW kind \in {"read", "write"}, Begins(t, kind)
        PROVE  Sums(io', "read", owed', 0)
    <3>1. SamePackets("read") /\ UNCHANGED <<owed, status>>
        BY <2>4 DEF Begins, SamePackets
    <3> QED
        BY <1>1, <2>3, <3>1, SamePacketsSum
  <2>5. ASSUME AtOnce PROVE Sums(io', "read", owed', 0)
    <3>1. TimeoutFlag("read") \notin status /\ UNCHANGED <<io, owed>>
        BY <1>1, <2>5 DEF AtOnce, TimeoutFlag
    <3> QED
        BY <2>3, <3>1 DEF Sums
  <2>6. ASSUME NEW r \in io, Complete(r) PROVE Sums(io', "read", owed', 0)
    <3>1. UNCHANGED status
        BY <2>6 DEF Complete, stream
    <3> QED
        BY <1>1, <1>4, <2>1, <2>2, <2>3, <2>6, <3>1, CompleteSums
  <2>7. ASSUME NEW r \in io, Dropped(r) PROVE Sums(io', "read", owed', 0)
    <3>1. UNCHANGED <<status, owed>>
        BY <2>7 DEF Dropped
    <3>2. SamePackets("read")
        BY <1>1, <1>4, <2>1, <2>2, <2>7, <3>1, DroppedOther
    <3> QED
        BY <1>1, <2>3, <3>1, <3>2, SamePacketsSum
  <2>8. ASSUME NEW t \in Tasks, NEW w \in Found, Came(t, w), op[t] = "read", EndRead(t, w)
        PROVE  Sums(io', "read", owed', 0)
    <3>1. /\ io' = Abandoned(t, w.io)
          /\ status' = IF w.elapsed THEN w.status \cup {"read_timeout"} ELSE w.status
          /\ owed' = owed - w.n
        BY <1>1, <2>8 DEF EndRead
    <3>2. ~w.elapsed /\ TimeoutFlag("read") \notin status
        BY <1>1, <2>8, <3>1 DEF Came, TimeoutFlag
    <3>3. /\ w.io \in SUBSET io /\ \A r \in w.io : r.kind # "read"
          /\ \E r \in io : r.kind = "read" /\ ~r.pending /\ w.n = r.n
        BY <1>1, <1>4, <2>1, <2>2, <2>8, <3>2, CameAlone
    <3>4. owed = 0 + w.n
        BY <2>3, <3>2, <3>3 DEF Sums
    <3>5. owed' = 0
        BY <2>2, <3>1, <3>3, <3>4, Types
    <3>6. \A q \in io' : q.kind # "read"
      <4>1. w.io \in SUBSET Operations
          BY <3>3, Types
      <4> QED
          BY <3>1, <3>3, <4>1, AbandonedKeeps
    <3> QED
        BY <3>5, <3>6 DEF Sums
  <2>9. ASSUME NEW t \in Tasks, NEW w \in Found, Came(t, w), op[t] = "write", EndWrite(t, w)
        PROVE  Sums(io', "read", owed', 0)
    <3>1. /\ UNCHANGED owed
          /\ \/ io' = Abandoned(t, w.io)
             \/ \E more : (\A r \in more : r.pending) /\ io' = w.io \cup more
          /\ w.status \subseteq status'
      <4>1. ASSUME NEW done, NEW v, Returns(t, done, v), v.io = w.io,
                   w.status \subseteq v.status
            PROVE  io' = Abandoned(t, w.io) /\ w.status \subseteq status'
          BY <4>1 DEF Returns
      <4>2. ASSUME NEW done, Round(t, done, w.io)
            PROVE  \E more : (\A r \in more : r.pending) /\ io' = w.io \cup more
        <5>1. PICK length, id :
                  io' = w.io \cup {[kind |-> "write", task |-> t, id |-> id,
                                    length |-> length, live |-> TRUE, pending |-> TRUE,
                                    n |-> 0, error |-> "none"]}
            BY <4>2 DEF Round, Submit
        <5>2. [kind |-> "write", task |-> t, id |-> id, length |-> length, live |-> TRUE,
               pending |-> TRUE, n |-> 0, error |-> "none"].pending
            OBVIOUS
        <5> QED
            BY <5>1, <5>2
      <4>3. LET v == [w EXCEPT !.status = @ \cup {"error"}]
            IN  v.io = w.io /\ w.status \subseteq v.status
          BY DEF Found
      <4>4. /\ UNCHANGED owed
            /\ \/ \E done : Returns(t, done, w)
               \/ \E done : Returns(t, done, [w EXCEPT !.status = @ \cup {"error"}])
               \/ \E done : Round(t, done, w.io) /\ status' = w.status
          BY <2>9 DEF EndWrite
      <4> QED
          BY <4>1, <4>2, <4>3, <4>4
    <3>2. TimeoutFlag("read") \notin status
        BY <1>1, <2>9, <3>1 DEF Came, TimeoutFlag
    <3>3. w.io \in SUBSET io /\ \A r \in io : r.kind = "read" => r \in w.io
        BY <1>1, <1>4, <2>1, <2>2, <2>9, <3>2, CameAlone
    <3>4. SamePackets("read")
        BY <1>4, <2>1, <2>2, <2>9, <3>1, <3>2, <3>3, OthersPackets
    <3> QED
        BY <2>3, <3>1, <3>2, <3>4, SamePacketsSum
  <2> QED
      BY <2>1, <2>4, <2>5, <2>6, <2>7, <2>8, <2>9 DEF GoesOn
<1> QED
    BY <1>2, <1>3, <1>4

(* when WritesAccounted says something *)
WritesCount ==
    /\ life = "open" /\ loop = "running" /\ ~inexact /\ ~strayed
    /\ TimeoutFlag("write") \notin status

(* what the write that is under way, if any, has counted *)
IsCounted(c) ==
    \/ \E t \in Tasks : op[t] = "write" /\ c = offset[t]
    \/ (\A t \in Tasks : op[t] # "write") /\ c = 0

WritesSum == WritesCount => \A c \in Nat : IsCounted(c) => Sums(io, "write", unclaimed, c)

LEMMA WritesMean == WinInv => (WritesAccounted <=> WritesSum)
<1> SUFFICES ASSUME WinInv
             PROVE  WritesAccounted <=>
                        (WritesCount => \A c \in Nat : IsCounted(c) =>
                                            Sums(io, "write", unclaimed, c))
    BY DEF WritesSum
<1> DEFINE packets == {r \in io : r.kind = "write" /\ ~r.pending}
           writers == {t \in Tasks : op[t] = "write"}
           counted == IF writers = {} THEN 0 ELSE offset[CHOOSE t \in writers : TRUE]
<1>1. WritesAccounted <=>
          (WritesCount => \/ packets = {} /\ unclaimed = counted
                          \/ \E r \in packets : packets = {r} /\ unclaimed = counted + r.n)
    BY DEF WritesAccounted, WritesCount, TimeoutFlag
<1>2. counted \in Nat /\ \A c \in Nat : IsCounted(c) <=> c = counted
  <2>1. CASE writers = {}
      BY <2>1 DEF IsCounted
  <2>2. CASE writers # {}
    <3> DEFINE w == CHOOSE t \in writers : TRUE
    <3>1. w \in writers
        BY <2>2
    <3>2. w \in Tasks /\ op[w] = "write" /\ counted = offset[w]
        BY <2>2, <3>1
    <3> HIDE DEF w, writers, counted
    <3>3. \A t \in Tasks : op[t] = "write" => t = w
        BY <3>2, OneCaller
    <3>4. offset[w] \in Nat
        BY <3>2, Types
    <3> QED
        BY <3>2, <3>3, <3>4 DEF IsCounted
  <2> QED
      BY <2>1, <2>2
<1> HIDE DEF counted, writers
<1>3. ASSUME WritesCount
      PROVE  Sums(io, "write", unclaimed, counted) <=>
                 \/ packets = {} /\ unclaimed = counted
                 \/ \E r \in packets : packets = {r} /\ unclaimed = counted + r.n
  <2>1. \A q, r \in io : q.kind = "write" /\ r.kind = "write" => q = r
      BY <1>3, AloneHolds DEF Alone, WritesCount
  <2> QED
      BY <1>2, <2>1, SumsMean
<1> HIDE DEF packets
<1> QED
    BY <1>1, <1>2, <1>3

LEMMA StepWrites ==
    ASSUME WinInv, [Next]_vars, WritesAccounted, WritesCount', NEW c \in Nat, IsCounted(c)'
    PROVE  Sums(io', "write", unclaimed', c)
<1>1. /\ life' = "open" /\ loop' = "running" /\ ~inexact' /\ ~strayed'
      /\ TimeoutFlag("write") \notin status'
    BY DEF WritesCount
<1>2. CASE UNCHANGED vars
  <2>1. UNCHANGED <<life, loop, inexact, strayed, status, io, unclaimed, op, offset>>
      BY <1>2 DEF vars, stream, calls, history
  <2>2. WritesCount /\ IsCounted(c)
      BY <1>1, <2>1 DEF WritesCount, IsCounted
  <2>3. Sums(io, "write", unclaimed, c)
      BY <2>2, WritesMean DEF WritesSum
  <2> QED
      BY <2>1, <2>3 DEF Sums
<1>3. CASE Next /\ life # "open"
    BY <1>1, <1>3, Opens DEF Sums, IsCounted
<1>4. CASE Next /\ life = "open"
  <2>1. /\ loop = "running" /\ (strayed => strayed')
        /\ \/ \E t \in Tasks, kind \in {"read", "write"} : Begins(t, kind)
           \/ AtOnce
           \/ \E r \in io : Complete(r) \/ Dropped(r)
           \/ \E t \in Tasks, w \in Found : Came(t, w) /\ GoesOn(t, w)
      BY <1>1, <1>4, Continues
  <2>2. Alone /\ unclaimed \in Nat /\ ~strayed
      BY <1>1, <2>1, AloneHolds, Types
  <2>3. ASSUME TimeoutFlag("write") \notin status, ~inexact
        PROVE  \A d \in Nat : IsCounted(d) => Sums(io, "write", unclaimed, d)
      BY <1>4, <2>1, <2>2, <2>3, WritesMean DEF WritesCount, WritesSum
  <2>4. ASSUME NEW t \in Tasks, NEW kind \in {"read", "write"}, Begins(t, kind)
        PROVE  Sums(io', "write", unclaimed', c)
    <3>1. SamePackets("write") /\ UNCHANGED <<unclaimed, status>> /\ ~inexact
        BY <1>1, <2>4 DEF Begins, SamePackets
    <3>2. IsCounted(c)
      <4>1. /\ \A u \in Tasks : op'[u] = IF u = t THEN kind ELSE op[u]
            /\ \A u \in Tasks : op[u] # kind
            /\ \A u \in Tasks : offset'[u] = IF u = t /\ kind = "write" THEN 0 ELSE offset[u]
          BY <2>4, Types DEF Begins
      <4>2. CASE kind = "write"
        <5>1. c = 0
            BY <4>1, <4>2 DEF IsCounted
        <5> QED
            BY <4>1, <4>2, <5>1 DEF IsCounted
      <4>3. CASE kind = "read"
          BY <2>4, <4>1, <4>3 DEF IsCounted, Begins
      <4> QED
          BY <4>2, <4>3
    <3> QED
        BY <1>1, <2>3, <3>1, <3>2, SamePacketsSum
  <2>5. ASSUME AtOnce PROVE Sums(io', "write", unclaimed', c)
    <3>1. /\ TimeoutFlag("write") \notin status
          /\ UNCHANGED <<io, unclaimed, op, offset, inexact>>
        BY <1>1, <2>5 DEF AtOnce, TimeoutFlag
    <3>2. IsCounted(c)
        BY <3>1 DEF IsCounted
    <3> QED
        BY <1>1, <2>3, <3>1, <3>2 DEF Sums
  <2>6. ASSUME NEW r \in io, Complete(r) PROVE Sums(io', "write", unclaimed', c)
    <3>1. UNCHANGED <<status, op, offset, inexact>>
        BY <2>6 DEF Complete, stream, calls
    <3>2. IsCounted(c)
        BY <3>1 DEF IsCounted
    <3>3. Sums(io, "write", unclaimed, c)
        BY <1>1, <2>3, <3>1, <3>2
    <3> QED
        BY <1>1, <1>4, <2>1, <2>2, <2>6, <3>1, <3>3, CompleteSums
  <2>7. ASSUME NEW r \in io, Dropped(r) PROVE Sums(io', "write", unclaimed', c)
    <3>1. UNCHANGED <<status, unclaimed, op, offset, inexact>>
        BY <2>7 DEF Dropped
    <3>2. IsCounted(c)
        BY <3>1 DEF IsCounted
    <3>3. SamePackets("write")
        BY <1>1, <1>4, <2>1, <2>2, <2>7, <3>1, DroppedOther
    <3> QED
        BY <1>1, <2>3, <3>1, <3>2, <3>3, SamePacketsSum
  <2>8. ASSUME NEW t \in Tasks, NEW w \in Found, Came(t, w), op[t] = "read", EndRead(t, w)
        PROVE  Sums(io', "write", unclaimed', c)
    <3>1. /\ io' = Abandoned(t, w.io) /\ w.status \subseteq status'
          /\ op' = [op EXCEPT ![t] = "none"] /\ UNCHANGED <<unclaimed, offset, inexact>>
        BY <2>8 DEF EndRead
    <3>2. TimeoutFlag("write") \notin status
        BY <1>1, <2>8, <3>1 DEF Came, TimeoutFlag
    <3>3. w.io \in SUBSET io /\ \A r \in io : r.kind = "write" => r \in w.io
        BY <1>1, <1>4, <2>1, <2>2, <2>8, <3>2, CameAlone
    <3>4. SamePackets("write")
        BY <1>4, <2>1, <2>2, <2>8, <3>1, <3>2, <3>3, OthersPackets
    <3>5. IsCounted(c)
      <4>1. \A u \in Tasks : op'[u] = IF u = t THEN "none" ELSE op[u]
          BY <3>1, Types
      <4> QED
          BY <2>8, <3>1, <4>1 DEF IsCounted
    <3> QED
        BY <1>1, <2>3, <3>1, <3>2, <3>4, <3>5, SamePacketsSum
  <2>9. ASSUME NEW t \in Tasks, NEW w \in Found, Came(t, w), op[t] = "write", EndWrite(t, w)
        PROVE  Sums(io', "write", unclaimed', c)
    <3> DEFINE done == offset[t] + w.n
               stop == w.status \cap WriteFailures # {} \/ w.elapsed
    <3>1. \/ /\ Returns(t, IF stop THEN offset[t] ELSE done, w)
             /\ inexact' = (inexact \/ (stop /\ w.n > 0))
          \/ /\ ~stop /\ Returns(t, done, [w EXCEPT !.status = @ \cup {"error"}])
             /\ UNCHANGED inexact
          \/ /\ ~stop /\ Round(t, done, w.io)
             /\ status' = w.status /\ UNCHANGED unclaimed
        BY <2>9 DEF EndWrite
    <3>2. /\ w.n \in 0..Length /\ w.io \in SUBSET io /\ w.io \in SUBSET Operations
          /\ w.elapsed \in BOOLEAN
          /\ offset[t] \in Nat /\ op \in [Tasks -> {"none", "read", "write", "connect"}]
          /\ offset \in [Tasks -> 0..(Length - 1)]
        BY Types DEF Found
    <3>3. ASSUME ~w.elapsed, TimeoutFlag("write") \notin status, ~inexact
          PROVE  unclaimed = done /\ \A r \in w.io : r.kind # "write"
      <4>1. /\ \A r \in w.io : r.kind # "write"
            /\ \E r \in io : r.kind = "write" /\ ~r.pending /\ w.n = r.n
          BY <1>1, <1>4, <2>1, <2>2, <2>9, <3>3, CameAlone
      <4>2. IsCounted(offset[t])
          BY <2>9 DEF IsCounted
      <4>3. Sums(io, "write", unclaimed, offset[t])
          BY <2>3, <3>2, <3>3, <4>2
      <4> QED
          BY <4>1, <4>3 DEF Sums
    <3>4. ASSUME NEW v, NEW bytes, Returns(t, bytes, v), v.io = w.io,
                 v.elapsed = w.elapsed, w.status \subseteq v.status, ~inexact,
                 ~w.elapsed => bytes = done
          PROVE  Sums(io', "write", unclaimed', c)
      <4>1. /\ io' = Abandoned(t, w.io) /\ op' = [op EXCEPT ![t] = "none"]
            /\ unclaimed' = unclaimed - bytes
            /\ status' = IF w.elapsed THEN v.status \cup {"write_timeout"} ELSE v.status
          BY <1>1, <3>4 DEF Returns
      <4>2. ~w.elapsed /\ TimeoutFlag("write") \notin status
          BY <1>1, <2>9, <3>4, <4>1 DEF Came, TimeoutFlag
      <4>3. unclaimed' = 0 /\ \A r \in w.io : r.kind # "write"
          BY <2>2, <3>2, <3>3, <3>4, <4>1, <4>2
      <4>4. \A q \in io' : q.kind # "write"
          BY <3>2, <4>1, <4>3, AbandonedKeeps
      <4>5. c = 0
        <5>1. \A u \in Tasks : op'[u] # "write"
            BY <2>9, <3>2, <4>1, OneCaller
        <5> QED
            BY <5>1 DEF IsCounted
      <4> QED
          BY <4>3, <4>4, <4>5 DEF Sums
    <3>5. CASE /\ Returns(t, IF stop THEN offset[t] ELSE done, w)
               /\ inexact' = (inexact \/ (stop /\ w.n > 0))
      <4>1. ~inexact /\ ~(stop /\ w.n > 0)
          BY <1>1, <3>5, Zenon
      <4>2. (IF stop THEN offset[t] ELSE done) = done
          BY <3>2, <4>1
      <4> HIDE DEF done, stop
      <4> QED
          BY <3>4, <3>5, <4>1, <4>2
    <3>6. CASE /\ Returns(t, done, [w EXCEPT !.status = @ \cup {"error"}])
               /\ UNCHANGED inexact
      <4> DEFINE v == [w EXCEPT !.status = @ \cup {"error"}]
      <4>1. v.io = w.io /\ v.elapsed = w.elapsed /\ w.status \subseteq v.status
          BY DEF Found
      <4>2. Returns(t, done, v) /\ ~inexact
          BY <1>1, <3>6
      <4> HIDE DEF v, done
      <4> QED
          BY <3>4, <4>1, <4>2
    <3>7. CASE /\ ~stop /\ Round(t, done, w.io)
               /\ status' = w.status /\ UNCHANGED unclaimed
      <4>1. inexact' = (inexact \/ (done > 0 /\ type = "tcp"))
          BY <3>7 DEF Round
      <4>2. ~inexact
          BY <1>1, <4>1, Zenon
      <4>3. ~w.elapsed /\ TimeoutFlag("write") \notin status
          BY <1>1, <2>9, <3>2, <3>7 DEF Came, TimeoutFlag
      <4>4. unclaimed' = done /\ \A r \in w.io : r.kind # "write"
          BY <3>3, <3>7, <4>2, <4>3
      <4>5. \A q \in io' : q.kind = "write" => q.pending
        <5>1. PICK length, id :
                  io' = w.io \cup {[kind |-> "write", task |-> t, id |-> id,
                                    length |-> length, live |-> TRUE, pending |-> TRUE,
                                    n |-> 0, error |-> "none"]}
            BY <3>7 DEF Round, Submit
        <5>2. [kind |-> "write", task |-> t, id |-> id, length |-> length, live |-> TRUE,
               pending |-> TRUE, n |-> 0, error |-> "none"].pending
            OBVIOUS
        <5> QED
            BY <4>4, <5>1, <5>2
      <4>6. c = done
        <5>1. op' = [op EXCEPT ![t] = "write"] /\ offset' = [offset EXCEPT ![t] = done]
            BY <3>7 DEF Round
        <5>2. op'[t] = "write" /\ offset'[t] = done
            BY <3>2, <5>1
        <5>3. \A u \in Tasks : op'[u] = "write" => u = t
            BY <2>9, <3>2, <5>1, OneCaller
        <5> QED
            BY <5>2, <5>3 DEF IsCounted
      <4> QED
          BY <4>4, <4>5, <4>6 DEF Sums
    <3> QED
        BY <3>1, <3>5, <3>6, <3>7
  <2> QED
      BY <2>1, <2>4, <2>5, <2>6, <2>7, <2>8, <2>9 DEF GoesOn
<1> QED
    BY <1>2, <1>3, <1>4

LEMMA StepBytesAccounted ==
    WinInv /\ WinInv' /\ BytesAccounted /\ [Next]_vars => BytesAccounted'
<1> SUFFICES ASSUME WinInv, WinInv', BytesAccounted, [Next]_vars PROVE BytesAccounted'
    OBVIOUS
<1>1. WinInv' => (ReadsAccounted' <=> ReadsSum')
    BY ReadsMean, PTL
<1>2. ReadsAccounted'
    BY <1>1, StepReads DEF BytesAccounted, ReadsSum
<1>3. WinInv' => (WritesAccounted' <=> WritesSum')
    BY WritesMean, PTL
<1>4. WritesAccounted'
    BY <1>3, StepWrites DEF BytesAccounted, WritesSum
<1> QED
    BY <1>2, <1>4 DEF BytesAccounted

(* Reads and writes return the bytes that the system transfers, whatever   *)
(* the order in which operations end, packets come and timers run down.    *)
THEOREM EveryByteAccounted == Spec => []BytesAccounted
<1>1. Init => BytesAccounted
    BY DEF Init, BytesAccounted, ReadsAccounted, WritesAccounted
<1> QED
    BY <1>1, WinInvariance, StepBytesAccounted, PTL DEF Spec
=============================================================================
