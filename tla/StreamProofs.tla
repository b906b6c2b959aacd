----------------------------- MODULE StreamProofs -----------------------------
(***************************************************************************)
(* Proofs about TCP streams for any lengths of data, reads and writes and  *)
(* any size of the send buffer.  StreamInv needs the bytes that writes     *)
(* report to be accounted for, to keep the counters within their bounds,   *)
(* so the two are proved together as Accounts.  The second part is about   *)
(* transfers between two streams, the module Transfer.                     *)
(***************************************************************************)
EXTENDS Stream, Transfer, SequenceTheorems, TLAPS

Accounts == StreamInv /\ WritesAccounted

(* Sequences of bytes stay sequences of bytes. *)
LEMMA Piece ==
    ASSUME NEW S, NEW s \in Seq(S), NEW m \in 1..(Len(s) + 1), NEW n \in 0..Len(s)
    PROVE  SubSeq(s, m, n) \in Seq(S)
    BY SubSeqProperties

LEMMA Joined ==
    ASSUME NEW S, NEW s \in Seq(S), NEW t \in Seq(S)
    PROVE  s \o t \in Seq(S)
    BY ConcatProperties

LEMMA Nothing ==
    ASSUME NEW S PROVE <<>> \in Seq(S)
    OBVIOUS

LEMMA Longer ==
    ASSUME NEW S, NEW s \in Seq(S), NEW e \in S
    PROVE  Append(s, e) \in Seq(S)
    BY AppendProperties

(* A read takes no more than there is. *)
LEMMA Part ==
    ASSUME NEW a \in Nat, NEW b \in Nat
    PROVE  Lesser(a, b) \in 0..b
    BY DEF Lesser

LEMMA InitAccounts == Init => Accounts
<1> USE StreamAssumption
<1> SUFFICES ASSUME Init PROVE Accounts
    OBVIOUS
<1>1. sock \in Socket
  <2> DEFINE in == <<>>
  <2>1. in \in Seq(1..MaxIn)
      BY Nothing
  <2>2. sock = [epoll |-> FALSE, up |-> FALSE, sent |-> 0, inbox |-> in,
                urgent |-> FALSE, fin |-> FALSE, reset |-> FALSE, error |-> FALSE,
                accepted |-> 0, acked |-> 0]
      BY DEF Init
  <2> HIDE DEF in
  <2> QED
      BY <2>1, <2>2 DEF Socket
<1>2. got \in Seq(1..MaxIn) /\ unread \in Seq(1..MaxIn)
    BY Nothing DEF Init
<1>3. /\ life = "new" /\ phase = "events" /\ running = TRUE /\ overwritten = FALSE
      /\ status = {} /\ asleep = {} /\ reserved = {} /\ mask = {} /\ timers = {}
      /\ want = 0 /\ offset = 0 /\ claimed = 0 /\ batch = {}
    BY DEF Init
<1>4. want \in 0..MaxRead /\ offset \in 0..WriteLength /\ claimed \in 0..MaxOut
    BY <1>3
<1>5. TypeOK
    BY <1>1, <1>2, <1>3, <1>4, Zenon DEF TypeOK, Lives
<1> QED
    BY <1>5 DEF Init, Accounts, StreamInv, InterestMatches, NoTimerDangles,
                RequestsFound, WriterBounds, WritesAccounted

-----------------------------------------------------------------------------
(* One lemma for each action *)

LEMMA AttachStep ==
    ASSUME Accounts, Attach
    PROVE  Accounts'
<1> USE StreamAssumption DEF Accounts, StreamInv, loop, history, stream
<1>1. TypeOK'
    BY DEF TypeOK, Attach, Socket, Lives
<1>2. InterestMatches' /\ NoTimerDangles'
    BY DEF Attach, InterestMatches, NoTimerDangles, RequestsFound
<1>3. RequestsFound'
    BY DEF Attach, RequestsFound
<1>4. WriterBounds' /\ WritesAccounted'
    BY DEF Attach, WriterBounds, WritesAccounted
<1> QED
    BY <1>1, <1>2, <1>3, <1>4

LEMMA ConnectAtOnceStep ==
    ASSUME Accounts, NEW ok \in BOOLEAN, ConnectAtOnce(ok)
    PROVE  Accounts'
<1> USE StreamAssumption DEF Accounts, StreamInv, loop, history, stream
<1>1. TypeOK'
    BY DEF TypeOK, ConnectAtOnce, Socket, Lives, Operations
<1>2. InterestMatches' /\ NoTimerDangles'
    BY DEF ConnectAtOnce, InterestMatches, NoTimerDangles, RequestsFound
<1>3. RequestsFound'
    BY DEF ConnectAtOnce, RequestsFound
<1>4. WriterBounds' /\ WritesAccounted'
    BY DEF ConnectAtOnce, WriterBounds, WritesAccounted
<1> QED
    BY <1>1, <1>2, <1>3, <1>4

LEMMA ConnectStep ==
    ASSUME Accounts, NEW timeout \in BOOLEAN, Connect(timeout)
    PROVE  Accounts'
<1> USE StreamAssumption DEF Accounts, StreamInv, loop, history, stream
<1>1. TypeOK'
    BY DEF TypeOK, Connect, Socket, Lives, Operations
<1>2. InterestMatches' /\ NoTimerDangles'
    BY DEF Connect, InterestMatches, NoTimerDangles
<1>3. RequestsFound'
    BY DEF Connect, RequestsFound
<1>4. WriterBounds' /\ WritesAccounted'
    BY DEF Connect, WriterBounds, WritesAccounted, RequestsFound
<1> QED
    BY <1>1, <1>2, <1>3, <1>4

LEMMA ReadStep ==
    ASSUME Accounts, NEW n \in 1..MaxRead, NEW timeout \in BOOLEAN, Read(n, timeout)
    PROVE  Accounts'
<1> USE StreamAssumption DEF Accounts, StreamInv, loop, history, stream
<1>1. TypeOK'
    BY DEF TypeOK, Read, Operations
<1>2. InterestMatches' /\ NoTimerDangles'
    BY DEF Read, InterestMatches, NoTimerDangles
<1>3. RequestsFound'
    BY DEF Read, RequestsFound
<1>4. WriterBounds' /\ WritesAccounted'
    BY DEF Read, WriterBounds, WritesAccounted
<1> QED
    BY <1>1, <1>2, <1>3, <1>4

LEMMA ReadUnreadStep ==
    ASSUME Accounts, NEW n \in 1..MaxRead, ReadUnread(n)
    PROVE  Accounts'
<1> USE StreamAssumption DEF Accounts, StreamInv, loop, history, stream
<1>1. TypeOK'
  <2>1. /\ unread \in Seq(1..MaxIn) /\ got \in Seq(1..MaxIn) /\ Len(unread) \in Nat
        /\ Lesser(n, Len(unread)) \in 0..Len(unread)
      BY DEF TypeOK, Lesser
  <2>2. /\ SubSeq(unread, 1, Lesser(n, Len(unread))) \in Seq(1..MaxIn)
        /\ SubSeq(unread, Lesser(n, Len(unread)) + 1, Len(unread)) \in Seq(1..MaxIn)
      BY <2>1, Piece
  <2>3. got' \in Seq(1..MaxIn) /\ unread' \in Seq(1..MaxIn)
      BY <2>1, <2>2, Joined, Zenon DEF ReadUnread
  <2> QED
      BY <2>3 DEF TypeOK, ReadUnread
<1>2. InterestMatches' /\ NoTimerDangles'
    BY DEF ReadUnread, InterestMatches, NoTimerDangles
<1>3. RequestsFound'
    BY DEF ReadUnread, RequestsFound
<1>4. WriterBounds' /\ WritesAccounted'
    BY DEF ReadUnread, WriterBounds, WritesAccounted
<1> QED
    BY <1>1, <1>2, <1>3, <1>4

LEMMA UnreadStep ==
    ASSUME Accounts, NEW n \in 1..MaxRead, Unread(n)
    PROVE  Accounts'
<1> USE StreamAssumption DEF Accounts, StreamInv, loop, history, stream
<1>1. TypeOK'
  <2>1. got \in Seq(1..MaxIn) /\ Len(got) \in Nat /\ n <= Len(got)
      BY DEF TypeOK, Unread
  <2>2. /\ SubSeq(got, Len(got) - n + 1, Len(got)) \in Seq(1..MaxIn)
        /\ SubSeq(got, 1, Len(got) - n) \in Seq(1..MaxIn)
      BY <2>1, Piece, SMTT(60)
  <2>3. got' \in Seq(1..MaxIn) /\ unread' \in Seq(1..MaxIn) /\ overwritten' \in BOOLEAN
      BY <2>2 DEF Unread
  <2> QED
      BY <2>3 DEF TypeOK, Unread
<1>2. InterestMatches' /\ NoTimerDangles'
    BY DEF Unread, InterestMatches, NoTimerDangles
<1>3. RequestsFound'
    BY DEF Unread, RequestsFound
<1>4. WriterBounds' /\ WritesAccounted'
    BY DEF Unread, WriterBounds, WritesAccounted
<1> QED
    BY <1>1, <1>2, <1>3, <1>4

LEMMA WriteStep ==
    ASSUME Accounts, NEW timeout \in BOOLEAN, Write(timeout)
    PROVE  Accounts'
<1> USE StreamAssumption DEF Accounts, StreamInv, loop, history, stream
<1>1. TypeOK'
    BY DEF TypeOK, Write, Operations
<1>2. InterestMatches' /\ NoTimerDangles'
    BY DEF Write, InterestMatches, NoTimerDangles
<1>3. RequestsFound'
    BY DEF Write, RequestsFound
<1>4. WriterBounds' /\ WritesAccounted'
    BY DEF Write, WriterBounds, WritesAccounted
<1> QED
    BY <1>1, <1>2, <1>3, <1>4

LEMMA CloseStep ==
    ASSUME Accounts, Close
    PROVE  Accounts'
<1> USE StreamAssumption DEF Accounts, StreamInv, loop, history, stream
<1>1. TypeOK'
  <2>1. unread' \in Seq(1..MaxIn)
      BY Nothing DEF Close
  <2>2. sock' \in Socket
      BY DEF Close, TypeOK, Socket
  <2> QED
      BY <2>1, <2>2 DEF TypeOK, Close, Lives, Flags
<1>2. InterestMatches' /\ NoTimerDangles'
    BY DEF Close, InterestMatches, NoTimerDangles
<1>3. RequestsFound'
    BY DEF Close, RequestsFound
<1>4. WriterBounds' /\ WritesAccounted'
    BY DEF Close, WriterBounds, WritesAccounted
<1> QED
    BY <1>1, <1>2, <1>3, <1>4

LEMMA PollStep ==
    ASSUME Accounts, Poll
    PROVE  Accounts'
<1> USE StreamAssumption DEF Accounts, StreamInv, loop, history, stream
<1>1. TypeOK'
    BY DEF TypeOK, Poll, Ready
<1>2. InterestMatches' /\ NoTimerDangles'
    BY DEF Poll, InterestMatches, NoTimerDangles
<1>3. RequestsFound'
    BY DEF Poll, InterestMatches, RequestsFound, Ready
<1>4. WriterBounds' /\ WritesAccounted'
    BY DEF Poll, WriterBounds, WritesAccounted
<1> QED
    BY <1>1, <1>2, <1>3, <1>4

LEMMA EventsDoneStep ==
    ASSUME Accounts, EventsDone
    PROVE  Accounts'
<1> USE StreamAssumption DEF Accounts, StreamInv, loop, history, stream
<1>1. TypeOK'
    BY DEF TypeOK, EventsDone
<1>2. InterestMatches' /\ NoTimerDangles'
    BY DEF EventsDone, InterestMatches, NoTimerDangles
<1>3. RequestsFound'
    BY DEF EventsDone, RequestsFound
<1>4. WriterBounds' /\ WritesAccounted'
    BY DEF EventsDone, WriterBounds, WritesAccounted
<1> QED
    BY <1>1, <1>2, <1>3, <1>4

LEMMA LeaveStep ==
    ASSUME Accounts, Leave
    PROVE  Accounts'
<1> USE StreamAssumption DEF Accounts, StreamInv, loop, history, stream
<1>1. TypeOK'
    BY DEF TypeOK, Leave
<1>2. InterestMatches' /\ NoTimerDangles'
    BY DEF Leave, InterestMatches, NoTimerDangles
<1>3. RequestsFound'
    BY DEF Leave, RequestsFound
<1>4. WriterBounds' /\ WritesAccounted'
    BY DEF Leave, WriterBounds, WritesAccounted
<1> QED
    BY <1>1, <1>2, <1>3, <1>4

LEMMA StopStep ==
    ASSUME Accounts, Stop
    PROVE  Accounts'
<1> USE StreamAssumption DEF Accounts, StreamInv, loop, history, stream
<1>1. TypeOK'
    BY DEF TypeOK, Stop, Socket
<1>2. InterestMatches' /\ NoTimerDangles'
    BY DEF Stop, InterestMatches, NoTimerDangles
<1>3. RequestsFound'
    BY DEF Stop, RequestsFound
<1>4. WriterBounds' /\ WritesAccounted'
    BY DEF Stop, WriterBounds, WritesAccounted
<1> QED
    BY <1>1, <1>2, <1>3, <1>4

LEMMA GoneStep ==
    ASSUME Accounts, Gone
    PROVE  Accounts'
<1> USE StreamAssumption DEF Accounts, StreamInv, loop, history, stream
<1>1. TypeOK'
    BY DEF TypeOK, Gone
<1>2. InterestMatches' /\ NoTimerDangles'
    BY DEF Gone, InterestMatches, NoTimerDangles
<1>3. RequestsFound'
    BY DEF Gone, RequestsFound
<1>4. WriterBounds' /\ WritesAccounted'
    BY DEF Gone, WriterBounds, WritesAccounted
<1> QED
    BY <1>1, <1>2, <1>3, <1>4

LEMMA CrashStep ==
    ASSUME Accounts, Crash
    PROVE  Accounts'
<1> USE StreamAssumption DEF Accounts, StreamInv, loop, history, stream
<1>1. TypeOK'
    BY DEF TypeOK, Crash
<1>2. InterestMatches' /\ NoTimerDangles'
    BY DEF Crash, InterestMatches, NoTimerDangles
<1>3. RequestsFound'
    BY DEF Crash, RequestsFound
<1>4. WriterBounds' /\ WritesAccounted'
    BY DEF Crash, WriterBounds, WritesAccounted
<1> QED
    BY <1>1, <1>2, <1>3, <1>4


LEMMA NetworkStep ==
    ASSUME Accounts, Network
    PROVE  Accounts'
<1> USE StreamAssumption DEF Accounts, StreamInv, loop, history, stream
<1>0. /\ life \in {"connecting", "open"}
      /\ UNCHANGED <<stream, loop, history>>
    BY DEF Network
<1>1. /\ sock \in Socket /\ sock.acked <= sock.accepted
      /\ sock.acked \in Nat /\ sock.accepted \in 0..MaxOut
    BY DEF TypeOK, WriterBounds, Socket
<1> DEFINE Good(s) == /\ s \in Socket /\ s.epoll = sock.epoll
                      /\ s.accepted = sock.accepted
                      /\ sock.acked <= s.acked /\ s.acked <= sock.accepted
<1>2. Good(sock')
  <2>1. CASE sock' = [sock EXCEPT !.up = TRUE]
    <3>1. sock' \in Socket
        BY <1>1, <2>1 DEF Socket
    <3>2. sock'.epoll = sock.epoll /\ sock'.accepted = sock.accepted /\ sock'.acked = sock.acked
        BY <1>1, <2>1 DEF Socket
    <3> QED
        BY <1>1, <3>1, <3>2
  <2>2. CASE sock' = [sock EXCEPT !.reset = TRUE, !.error = TRUE]
    <3>1. sock' \in Socket
        BY <1>1, <2>2 DEF Socket
    <3>2. sock'.epoll = sock.epoll /\ sock'.accepted = sock.accepted /\ sock'.acked = sock.acked
        BY <1>1, <2>2 DEF Socket
    <3> QED
        BY <1>1, <3>1, <3>2
  <2>3. CASE /\ sock.sent < MaxIn
             /\ sock' = [sock EXCEPT !.sent = @ + 1, !.inbox = Append(@, sock.sent + 1)]
    <3>1. sock.inbox \in Seq(1..MaxIn) /\ sock.sent + 1 \in 1..MaxIn
        BY <1>1, <2>3 DEF Socket
    <3> DEFINE longer == Append(sock.inbox, sock.sent + 1)
    <3>2. longer \in Seq(1..MaxIn)
        BY <3>1, Longer
    <3> DEFINE mid == [sock EXCEPT !.sent = sock.sent + 1]
    <3>3. sock' = [mid EXCEPT !.inbox = longer]
        BY <2>3
    <3> HIDE DEF longer
    <3>4. sock.sent + 1 \in 0..MaxIn
        BY <3>1
    <3>5. mid \in Socket
        BY <1>1, <3>4 DEF Socket
    <3>6. mid.epoll = sock.epoll /\ mid.accepted = sock.accepted /\ mid.acked = sock.acked
        BY <1>1 DEF Socket
    <3> HIDE DEF mid
    <3>7. /\ sock' \in Socket /\ sock'.epoll = sock.epoll
          /\ sock'.accepted = sock.accepted /\ sock'.acked = sock.acked
        BY <3>2, <3>3, <3>5, <3>6 DEF Socket
    <3> QED
        BY <1>1, <3>7
  <2>4. CASE sock' = [sock EXCEPT !.urgent = TRUE] \/ sock' = [sock EXCEPT !.fin = TRUE]
    <3>1. sock' \in Socket
        BY <1>1, <2>4 DEF Socket
    <3>2. sock'.epoll = sock.epoll /\ sock'.accepted = sock.accepted /\ sock'.acked = sock.acked
        BY <1>1, <2>4 DEF Socket
    <3> QED
        BY <1>1, <3>1, <3>2
  <2>5. CASE sock.acked < sock.accepted /\ sock' = [sock EXCEPT !.acked = @ + 1]
    <3>0. sock.acked + 1 \in 0..MaxOut
        BY <1>1, <2>5
    <3>1. sock' \in Socket
        BY <1>1, <2>5, <3>0 DEF Socket
    <3>2. sock'.epoll = sock.epoll /\ sock'.accepted = sock.accepted /\ sock'.acked = sock.acked + 1
        BY <1>1, <2>5 DEF Socket
    <3> QED
        BY <1>1, <2>5, <3>1, <3>2
  <2> QED
    BY <2>1, <2>2, <2>3, <2>4, <2>5 DEF Network
<1>3. TypeOK'
    BY <1>0, <1>2 DEF TypeOK
<1>4. InterestMatches' /\ NoTimerDangles' /\ RequestsFound'
    BY <1>0, <1>2 DEF InterestMatches, NoTimerDangles, RequestsFound
<1>5. WriterBounds' /\ WritesAccounted'
  <2>1. sock'.acked \in Nat
      BY <1>2 DEF Socket
  <2> QED
      BY <1>0, <1>1, <1>2, <2>1 DEF WriterBounds, WritesAccounted
<1> QED
    BY <1>3, <1>4, <1>5

(* Whoever resumes the reader of an open stream keeps the invariant. *)
LEMMA ReadResumed ==
    ASSUME Accounts, life = "open",
           NEW st \in SUBSET Flags, NEW bytes \in Seq(1..MaxIn),
           NEW elapsed \in BOOLEAN, NEW left \in SUBSET timers,
           ResumeRead(st, bytes, elapsed, left),
           UNCHANGED <<life, want, unread, phase, running>>,
           batch' = {} \/ (batch' = batch /\ phase # "events"),
           sock' \in Socket, sock'.accepted = sock.accepted, sock'.acked = sock.acked
    PROVE  Accounts'
<1> USE StreamAssumption DEF Accounts, StreamInv, ResumeRead
<1>1. TypeOK'
    BY Joined DEF TypeOK, Flags
<1>2. InterestMatches' /\ NoTimerDangles'
    BY DEF TypeOK, InterestMatches, NoTimerDangles
<1>3. RequestsFound'
    BY DEF TypeOK, RequestsFound
<1>4. WriterBounds' /\ WritesAccounted'
    BY DEF TypeOK, WriterBounds, WritesAccounted
<1> QED
    BY <1>1, <1>2, <1>3, <1>4

(* The same for the writer, which may go back to sleep; `off' has to agree *)
(* with what the socket took.                                              *)
LEMMA WriteResumed ==
    ASSUME Accounts, life = "open", "write" \in asleep,
           NEW st \in SUBSET Flags, NEW off \in 0..WriteLength,
           NEW elapsed \in BOOLEAN, NEW left \in SUBSET timers,
           ResumeWrite(st, off, elapsed, left),
           UNCHANGED <<life, want, unread, phase, running>>,
           batch' = {} \/ (batch' = batch /\ phase # "events"),
           sock' \in Socket, sock'.accepted = claimed + off,
           sock'.acked = sock.acked, sock'.accepted \in sock.acked..(sock.acked + TxSize)
    PROVE  Accounts'
<1> USE StreamAssumption DEF Accounts, StreamInv, history
<1>1. CASE st \cap WriteFailures = {} /\ ~elapsed /\ off < WriteLength
  <2>1. /\ status' = st /\ offset' = off /\ timers' = left
        /\ UNCHANGED <<asleep, reserved, mask, history>>
      BY <1>1 DEF ResumeWrite
  <2>2. TypeOK'
      BY <2>1 DEF TypeOK
  <2>3. InterestMatches' /\ NoTimerDangles' /\ RequestsFound'
      BY <2>1 DEF TypeOK, InterestMatches, NoTimerDangles, RequestsFound
  <2>4. WriterBounds' /\ WritesAccounted'
      BY <2>1 DEF TypeOK, Socket, WriterBounds, WritesAccounted
  <2> QED
      BY <2>2, <2>3, <2>4
<1>2. CASE ~(st \cap WriteFailures = {} /\ ~elapsed /\ off < WriteLength)
  <2>1. /\ asleep' = asleep \ {"write"} /\ reserved' = reserved \ {"write"}
        /\ mask' = mask \ {"write"} /\ timers' = left \ {"write"}
        /\ status' = IF elapsed THEN st \cup {"write_timeout"} ELSE st
        /\ claimed' = claimed + off /\ offset' = 0 /\ UNCHANGED <<got, overwritten>>
      BY <1>2 DEF ResumeWrite
  <2>2. TypeOK'
    <3>1. claimed' \in 0..MaxOut
        BY <2>1 DEF TypeOK, WriterBounds
    <3> QED
        BY <2>1, <3>1 DEF TypeOK, Flags
  <2>3. InterestMatches' /\ NoTimerDangles'
      BY <2>1 DEF TypeOK, InterestMatches, NoTimerDangles
  <2>4. RequestsFound'
      BY <2>1 DEF TypeOK, RequestsFound
  <2>5. WriterBounds' /\ WritesAccounted'
      BY <2>1 DEF TypeOK, Socket, WriterBounds, WritesAccounted
  <2> QED
      BY <2>2, <2>3, <2>4, <2>5
<1> QED
    BY <1>1, <1>2

LEMMA OnHangupStep ==
    ASSUME Accounts, NEW first \in {"ERR", "HUP", "RDHUP"}, OnHangup(first)
    PROVE  Accounts'
<1> DEFINE no == FALSE
<1>0. no \in BOOLEAN
    OBVIOUS
<1> HIDE DEF no
<1> USE DEF Accounts, StreamInv
<1>1. PICK st \in Flagged(first) : WakeOne(st)
    BY DEF OnHangup
<1>2. st \in SUBSET Flags
    BY <1>1 DEF Flagged, TypeOK, Flags
<1>3. /\ life = "open" /\ batch' = {}
      /\ UNCHANGED <<life, want, unread, phase, running, sock>>
    BY DEF OnHangup
<1>4. /\ sock \in Socket /\ offset \in 0..WriteLength
      /\ sock.accepted \in sock.acked..(sock.acked + TxSize)
      /\ sock.accepted = claimed + offset
    BY StreamAssumption DEF TypeOK, Socket, WriterBounds, WritesAccounted
<1>5. CASE "read" \in reserved
  <2>1. ResumeRead(st, <<>>, no, timers)
      BY <1>1, <1>5 DEF WakeOne, no
  <2> QED
      BY <1>2, <1>3, <1>4, <2>1, Nothing, <1>0, ReadResumed
<1>6. CASE "read" \notin reserved /\ "write" \in reserved
  <2>1. ResumeWrite(st, offset, no, timers)
      BY <1>1, <1>6 DEF WakeOne, no
  <2>2. "write" \in asleep
      BY <1>3, <1>6 DEF InterestMatches
  <2> QED
      BY <1>2, <1>3, <1>4, <2>1, <2>2, <1>0, WriteResumed
<1>7. CASE "read" \notin reserved /\ "write" \notin reserved
  <2>1. /\ status' = st
        /\ UNCHANGED <<asleep, reserved, mask, timers, offset, got, overwritten, claimed>>
      BY <1>1, <1>7 DEF WakeOne, history
  <2>2. TypeOK'
      BY <1>2, <1>3, <2>1 DEF TypeOK
  <2> QED
      BY <1>3, <2>1, <2>2 DEF InterestMatches, NoTimerDangles, RequestsFound,
                              WriterBounds, WritesAccounted
<1> QED
    BY <1>5, <1>6, <1>7

LEMMA OnReadableStep ==
    ASSUME Accounts, NEW first \in {"IN", "PRI"}, OnReadable(first)
    PROVE  Accounts'
<1> DEFINE no == FALSE
<1>0. no \in BOOLEAN
    OBVIOUS
<1> HIDE DEF no
<1> USE DEF Accounts, StreamInv
<1> DEFINE n == Lesser(want, Len(sock.inbox))
           bytes == SubSeq(sock.inbox, 1, n)
           rest == SubSeq(sock.inbox, n + 1, Len(sock.inbox))
<1>1. /\ sock \in Socket /\ sock.inbox \in Seq(1..MaxIn) /\ Len(sock.inbox) \in Nat
      /\ want \in Nat
    BY StreamAssumption DEF TypeOK, Socket
<1>2. n \in 0..Len(sock.inbox)
    BY <1>1, Part
<1>3. bytes \in Seq(1..MaxIn) /\ rest \in Seq(1..MaxIn)
  <2> HIDE DEF n
  <2>1. 1 \in 1..(Len(sock.inbox) + 1) /\ n + 1 \in 1..(Len(sock.inbox) + 1)
        /\ Len(sock.inbox) \in 0..Len(sock.inbox)
      BY <1>1, <1>2
  <2> QED
      BY <1>1, <1>2, <2>1, Piece
<1>4. /\ life = "open" /\ batch' = {} /\ UNCHANGED <<life, want, unread, phase, running>>
      /\ \E st \in {status, status \cup {"error"}, status \cup {"eof"}} :
            ResumeRead(st, bytes, no, timers)
      /\ \E u, e \in BOOLEAN :
            sock' = [sock EXCEPT !.inbox = rest, !.urgent = u, !.error = e]
  <2>1. sock.urgent \in BOOLEAN /\ sock.error \in BOOLEAN
      BY <1>1 DEF Socket
  <2>2. \E u, e \in BOOLEAN :
            sock' = [sock EXCEPT !.inbox = rest, !.urgent = u, !.error = e]
      BY <2>1, Zenon DEF OnReadable
  <2> QED
      BY <2>2 DEF OnReadable, no
<1>5. PICK st \in {status, status \cup {"error"}, status \cup {"eof"}} :
          ResumeRead(st, bytes, no, timers)
    BY <1>4
<1>6. st \in SUBSET Flags
    BY DEF TypeOK, Flags
<1> HIDE DEF n, bytes, rest
<1>7. /\ sock' \in Socket
      /\ sock'.accepted = sock.accepted /\ sock'.acked = sock.acked
    BY <1>1, <1>3, <1>4 DEF Socket
<1> QED
    BY <1>3, <1>4, <1>5, <1>6, <1>7, <1>0, ReadResumed

LEMMA OnWritableStep ==
    ASSUME Accounts, OnWritable
    PROVE  Accounts'
<1> DEFINE no == FALSE
<1>0. no \in BOOLEAN
    OBVIOUS
<1> HIDE DEF no
<1> USE StreamAssumption DEF Accounts, StreamInv
<1> DEFINE n == IF sock.reset THEN 0
                ELSE Lesser(WriteLength - offset, TxSize - (sock.accepted - sock.acked))
           st == IF sock.reset THEN status \cup {"error"} ELSE status
<1>1. /\ life = "open" /\ "OUT" \in batch /\ phase = "events"
      /\ batch' = {} /\ UNCHANGED <<life, want, unread, phase, running>>
      /\ ResumeWrite(st, offset + n, no, timers)
      /\ sock' = [sock EXCEPT !.accepted = @ + n, !.error = @ /\ ~sock.reset]
    BY DEF OnWritable, Processing, no
<1>2. "write" \in asleep
    BY <1>1 DEF RequestsFound, InterestMatches
<1>3. /\ sock \in Socket /\ offset \in 0..WriteLength /\ claimed \in Nat
      /\ sock.acked \in Nat /\ sock.accepted \in Nat
      /\ sock.acked <= sock.accepted /\ sock.accepted <= sock.acked + TxSize
      /\ sock.accepted = claimed + offset /\ claimed + WriteLength <= MaxOut
    BY <1>2 DEF TypeOK, Socket, WriterBounds, WritesAccounted
<1>4. n \in Nat /\ offset + n <= WriteLength /\ sock.accepted + n <= sock.acked + TxSize
    BY <1>3 DEF Lesser
<1>5. st \in SUBSET Flags
    BY DEF TypeOK, Flags
<1> HIDE DEF n, st
<1>6. \E e \in BOOLEAN : sock' = [sock EXCEPT !.accepted = sock.accepted + n, !.error = e]
  <2>1. sock.error \in BOOLEAN
      BY <1>3 DEF Socket
  <2> QED
      BY <1>1, <2>1, Zenon
<1>7. sock.accepted + n \in 0..MaxOut
    BY <1>3, <1>4
<1>8. /\ sock' \in Socket
      /\ sock'.accepted = sock.accepted + n /\ sock'.acked = sock.acked
    BY <1>3, <1>6, <1>7 DEF Socket
<1>9. /\ offset + n \in 0..WriteLength
      /\ sock'.accepted = claimed + (offset + n)
      /\ sock'.accepted \in sock.acked..(sock.acked + TxSize)
    BY <1>3, <1>4, <1>8
<1> QED
    BY <1>1, <1>2, <1>5, <1>8, <1>9, <1>0, WriteResumed

(* The rest of api_tcp_connect, after an event or a timer. *)
LEMMA Connected ==
    ASSUME Accounts, life = "connecting", NEW st \in SUBSET Flags, NEW elapsed \in BOOLEAN,
           ConnectReturn(st, elapsed), phase' = phase,
           batch' = {} \/ (batch' = batch /\ phase # "events")
    PROVE  Accounts'
<1> USE StreamAssumption DEF Accounts, StreamInv, history
<1>1. /\ asleep' = {} /\ timers' = {} /\ life' \in {"open", "failed"}
      /\ life' = "open" => mask' = {} /\ reserved' = {}
      /\ mask' \subseteq {"read", "write"} /\ reserved' \subseteq Operations
      /\ status' \subseteq Flags
      /\ UNCHANGED <<want, offset, unread, running, got, overwritten, claimed>>
    BY DEF ConnectReturn, TypeOK, Flags
<1>2. /\ sock' \in Socket
      /\ sock'.accepted = sock.accepted /\ sock'.acked = sock.acked
    BY DEF ConnectReturn, TypeOK, Socket
<1>3. TypeOK'
    BY <1>1, <1>2 DEF TypeOK, Lives
<1>4. InterestMatches' /\ NoTimerDangles' /\ RequestsFound'
    BY <1>1 DEF InterestMatches, NoTimerDangles, RequestsFound
<1>5. WriterBounds' /\ WritesAccounted'
    BY <1>1, <1>2 DEF WriterBounds, WritesAccounted, InterestMatches
<1> QED
    BY <1>3, <1>4, <1>5

LEMMA OnConnectStep ==
    ASSUME Accounts, NEW first \in {"ERR", "HUP", "OUT"}, OnConnect(first)
    PROVE  Accounts'
<1> DEFINE no == FALSE
<1>0. no \in BOOLEAN
    OBVIOUS
<1> HIDE DEF no
<1> DEFINE st == CASE first = "ERR" -> status \cup {"error"}
                   [] first = "HUP" -> status \cup {"closed"}
                   [] first = "OUT" -> status
<1>1. st \in SUBSET Flags
    BY DEF Accounts, StreamInv, TypeOK, Flags
<1>2. life = "connecting" /\ ConnectReturn(st, no) /\ phase' = phase /\ batch' = {}
    BY DEF OnConnect, no
<1> HIDE DEF st
<1> QED
    BY <1>1, <1>2, <1>0, Connected

LEMMA OnClosedStep ==
    ASSUME Accounts, NEW first \in EventBits, OnClosed(first)
    PROVE  Accounts'
<1> USE DEF Accounts, StreamInv, history
<1>1. CASE Crash
    BY <1>1, CrashStep
<1>2. CASE ~Crash
  <2>1. /\ life = "closed" /\ first \in {"ERR", "HUP", "RDHUP"} /\ status' \in Flagged(first)
        /\ batch' = {}
        /\ UNCHANGED <<life, asleep, reserved, mask, timers, want, offset, unread,
                       phase, running, got, overwritten, claimed, sock>>
      BY <1>2 DEF OnClosed
  <2>2. TypeOK'
      BY <2>1 DEF TypeOK, Flagged, Flags
  <2> QED
      BY <2>1, <2>2 DEF InterestMatches, NoTimerDangles, RequestsFound,
                        WriterBounds, WritesAccounted
<1> QED
    BY <1>1, <1>2

(* A timer that elapses or is terminated. *)
LEMMA TimerStep ==
    ASSUME Accounts, NEW op \in Operations, NEW elapsed \in BOOLEAN,
           op \in timers, phase # "events", TimerWakes(op, elapsed)
    PROVE  Accounts'
<1> USE DEF Accounts, StreamInv
<1>1. CASE life = "closed"
    BY <1>1, CrashStep DEF TimerWakes
<1>2. CASE life # "closed" /\ op = "connect"
  <2>1. life = "connecting"
      BY <1>2 DEF TypeOK, Lives, NoTimerDangles, InterestMatches, RequestsFound
  <2>2. ConnectReturn(status, elapsed) /\ UNCHANGED <<phase, batch>>
      BY <1>2 DEF TimerWakes
  <2>3. status \in SUBSET Flags
      BY DEF TypeOK
  <2> QED
      BY <2>1, <2>2, <2>3, Connected
<1>3. CASE life # "closed" /\ op \in {"read", "write"}
  <2>1. life = "open" /\ op \in asleep
      BY <1>3 DEF TypeOK, Lives, NoTimerDangles, InterestMatches, RequestsFound
  <2>2. status \in SUBSET Flags /\ timers \ {op} \in SUBSET timers
      BY DEF TypeOK
  <2>3. /\ sock \in Socket /\ offset \in 0..WriteLength
        /\ sock.accepted \in sock.acked..(sock.acked + TxSize)
        /\ sock.accepted = claimed + offset
      BY StreamAssumption DEF TypeOK, Socket, WriterBounds, WritesAccounted
  <2>4. CASE op = "read"
    <3>1. /\ ResumeRead(status, <<>>, elapsed, timers \ {op})
          /\ UNCHANGED <<life, want, unread, phase, batch, running, sock>>
        BY <1>3, <2>4 DEF TimerWakes, loop
    <3> QED
        BY <2>1, <2>2, <2>3, <3>1, Nothing, ReadResumed
  <2>5. CASE op = "write"
    <3>1. /\ ResumeWrite(status, offset, elapsed, timers \ {op})
          /\ UNCHANGED <<life, want, unread, phase, batch, running, sock>>
        BY <1>3, <2>5 DEF TimerWakes, loop
    <3> QED
        BY <2>1, <2>2, <2>3, <2>5, <3>1, WriteResumed
  <2> QED
      BY <1>3, <2>4, <2>5
<1> QED
    BY <1>1, <1>2, <1>3 DEF Operations

LEMMA StepAccounts == Accounts /\ [Next]_vars => Accounts'
<1> SUFFICES ASSUME Accounts, [Next]_vars PROVE Accounts'
    OBVIOUS
<1>1. CASE Operate
    BY <1>1, AttachStep, ConnectAtOnceStep, ConnectStep, WriteStep, ReadStep,
       ReadUnreadStep, UnreadStep, CloseStep DEF Operate
<1>2. CASE LoopStep
    BY <1>2, PollStep, EventsDoneStep, LeaveStep, OnHangupStep, OnReadableStep,
       OnWritableStep, OnConnectStep, OnClosedStep DEF LoopStep
<1>3. CASE Expire
  <2>1. PICK op \in Operations : Timeout(op) \/ Terminate(op)
      BY <1>3 DEF Expire
  <2>2. /\ op \in timers /\ phase # "events"
        /\ \E elapsed \in BOOLEAN : TimerWakes(op, elapsed)
      BY <2>1 DEF Timeout, Terminate
  <2> QED
      BY <2>2, TimerStep
<1>4. CASE Stop \/ Gone \/ Network
    BY <1>4, StopStep, GoneStep, NetworkStep
<1>5. CASE UNCHANGED vars
    BY <1>5 DEF vars, stream, loop, history, Accounts, StreamInv, TypeOK,
                InterestMatches, NoTimerDangles, RequestsFound, WriterBounds,
                WritesAccounted, Ready
<1> QED
    BY <1>1, <1>2, <1>3, <1>4, <1>5 DEF Next

LEMMA Always == Spec => []Accounts
    BY InitAccounts, StepAccounts, PTL DEF Spec

(* Whatever resumes an operation of a stream finds its request, its timer  *)
(* and its interest exactly while the operation is suspended: for any      *)
(* lengths of data, reads and writes, and any size of the send buffer.     *)
THEOREM StreamInvariance == Spec => []StreamInv
<1>1. Accounts => StreamInv
    BY DEF Accounts
<1> QED
    BY <1>1, Always, PTL

(* What api_stream_write reports is what the socket took. *)
THEOREM WritesCounted == Spec => []WritesAccounted
<1>1. Accounts => WritesAccounted
    BY DEF Accounts
<1> QED
    BY <1>1, Always, PTL

-----------------------------------------------------------------------------
(* Short writes *)

Explained ==
    "write" \in asleep /\ "write" \notin asleep' /\ claimed' - claimed < WriteLength
        => status' \cap WriteFailures # {}

(* A write that ends early was broken off by the status or by its timer. *)
LEMMA WriteEnds ==
    ASSUME Accounts, NEW st \in SUBSET Flags, NEW off \in 0..WriteLength,
           NEW elapsed \in BOOLEAN, NEW left,
           ResumeWrite(st, off, elapsed, left)
    PROVE  Explained
<1>1. claimed \in Nat /\ WriteLength \in Nat
    BY StreamAssumption DEF Accounts, StreamInv, TypeOK
<1>2. CASE st \cap WriteFailures = {} /\ ~elapsed /\ off < WriteLength
    BY <1>2 DEF ResumeWrite, Explained
<1>3. CASE off = WriteLength /\ st \cap WriteFailures = {} /\ ~elapsed
  <2>1. claimed' = claimed + off
      BY <1>3 DEF ResumeWrite
  <2> QED
      BY <1>1, <1>3, <2>1 DEF Explained
<1>4. CASE elapsed
  <2>1. status' = st \cup {"write_timeout"}
      BY <1>4 DEF ResumeWrite
  <2> QED
      BY <2>1 DEF Explained, WriteFailures, Flags
<1>5. CASE st \cap WriteFailures # {} /\ ~elapsed
  <2>1. status' = st
      BY <1>5 DEF ResumeWrite
  <2> QED
      BY <1>5, <2>1 DEF Explained
<1> QED
    BY <1>1, <1>2, <1>3, <1>4, <1>5

LEMMA StepExplained == Accounts /\ Next => Explained
<1> SUFFICES ASSUME Accounts, Next PROVE Explained
    OBVIOUS
<1> DEFINE no == FALSE
<1>0. no \in BOOLEAN
    OBVIOUS
<1> HIDE DEF no
<1>1. /\ status \in SUBSET Flags /\ offset \in 0..WriteLength
      /\ life \in {"new", "connecting", "failed"} => "write" \notin asleep
      /\ timers \subseteq asleep
    BY DEF Accounts, StreamInv, TypeOK, InterestMatches, RequestsFound, NoTimerDangles
<1>2. CASE Operate
  <2>1. asleep \subseteq asleep' \/ life = "new"
      BY <1>2 DEF Operate, Attach, ConnectAtOnce, Connect, Write, Read, ReadUnread, Unread,
                  Close
  <2> QED
      BY <1>1, <2>1 DEF Explained
<1>3. CASE Stop \/ Gone \/ Network \/ Poll \/ EventsDone \/ Leave \/ Crash
  <2>1. asleep' = asleep
      BY <1>3 DEF Stop, Gone, Network, Poll, EventsDone, Leave, Crash, stream
  <2> QED
      BY <2>1 DEF Explained
<1>4. ASSUME NEW first \in {"ERR", "HUP", "RDHUP"}, OnHangup(first)
      PROVE  Explained
  <2>1. PICK st \in Flagged(first) : WakeOne(st)
      BY <1>4 DEF OnHangup
  <2>2. st \in SUBSET Flags
      BY <1>1, <2>1 DEF Flagged, Flags
  <2>3. CASE "read" \in reserved
      BY <2>1, <2>3 DEF WakeOne, ResumeRead, Explained
  <2>4. CASE "read" \notin reserved /\ "write" \in reserved
    <3>1. ResumeWrite(st, offset, no, timers)
        BY <2>1, <2>4 DEF WakeOne, no
    <3> QED
        BY <1>0, <1>1, <2>2, <3>1, WriteEnds
  <2>5. CASE "read" \notin reserved /\ "write" \notin reserved
      BY <2>1, <2>5 DEF WakeOne, Explained
  <2> QED
      BY <2>3, <2>4, <2>5
<1>5. ASSUME NEW first \in {"IN", "PRI"}, OnReadable(first)
      PROVE  Explained
  <2>1. asleep' = asleep \ {"read"}
      BY <1>5 DEF OnReadable, ResumeRead
  <2> QED
      BY <2>1 DEF Explained
<1>6. CASE OnWritable
  <2> DEFINE n == IF sock.reset THEN 0
                  ELSE Lesser(WriteLength - offset, TxSize - (sock.accepted - sock.acked))
             st == IF sock.reset THEN status \cup {"error"} ELSE status
  <2>1. ResumeWrite(st, offset + n, no, timers)
      BY <1>6 DEF OnWritable, no
  <2>2. /\ sock.acked \in Nat /\ sock.accepted \in Nat /\ TxSize \in Nat
        /\ WriteLength \in Nat /\ sock.accepted <= sock.acked + TxSize
      BY StreamAssumption DEF Accounts, StreamInv, TypeOK, Socket, WriterBounds
  <2>3. offset + n \in 0..WriteLength
      BY <1>1, <2>2 DEF Lesser
  <2>4. st \in SUBSET Flags
      BY <1>1 DEF Flags
  <2> HIDE DEF n, st
  <2> QED
      BY <1>0, <2>1, <2>3, <2>4, WriteEnds
<1>7. ASSUME NEW first \in {"ERR", "HUP", "OUT"}, OnConnect(first)
      PROVE  Explained
    BY <1>1, <1>7 DEF OnConnect, Explained
<1>8. ASSUME NEW first \in EventBits, OnClosed(first)
      PROVE  Explained
  <2>1. asleep' = asleep
      BY <1>8 DEF OnClosed, Crash, stream
  <2> QED
      BY <2>1 DEF Explained
<1>9. CASE Expire
  <2>1. PICK op \in timers, elapsed \in BOOLEAN : TimerWakes(op, elapsed)
      BY <1>9 DEF Expire, Timeout, Terminate
  <2>2. CASE life = "closed"
      BY <2>1, <2>2, <1>3 DEF TimerWakes
  <2>3. CASE life # "closed" /\ op = "connect"
    <3>1. life = "connecting"
        BY <1>1, <2>3 DEF Accounts, StreamInv, TypeOK, Lives, InterestMatches, RequestsFound
    <3> QED
        BY <1>1, <3>1 DEF Explained
  <2>4. CASE life # "closed" /\ op = "read"
      BY <2>1, <2>4 DEF TimerWakes, ResumeRead, Explained
  <2>5. CASE life # "closed" /\ op = "write"
    <3>1. ResumeWrite(status, offset, elapsed, timers \ {op})
        BY <2>1, <2>5 DEF TimerWakes
    <3> QED
        BY <1>1, <3>1, WriteEnds
  <2> QED
      BY <2>2, <2>3, <2>4, <2>5 DEF Accounts, StreamInv, TypeOK, Operations
<1> QED
    BY <1>2, <1>3, <1>4, <1>5, <1>6, <1>7, <1>8, <1>9 DEF Next, LoopStep

(* A write that returns less than its length leaves a reason in the        *)
(* status: api_stream_on_write gives up only after a failure or a timeout. *)
THEOREM ShortWrites == Spec => ShortWriteExplained
<1>1. Accounts /\ [Next]_vars => [Explained]_vars
    BY StepExplained
<1>2. Spec => [][Explained]_vars
    BY <1>1, Always, PTL DEF Spec
<1> QED
    BY <1>2 DEF ShortWriteExplained, Explained

-----------------------------------------------------------------------------
(* The order of the bytes.  What matters is the sequence of all bytes on   *)
(* this side: reads move it, only the network extends it, and only bytes   *)
(* put back on top of others leave some of it out.                         *)

Received == got \o unread \o sock.inbox

InHand == Accounts /\ ReadsInOrder

LEMMA ReceivedBytes ==
    ASSUME Accounts
    PROVE  /\ got \in Seq(1..MaxIn) /\ unread \in Seq(1..MaxIn)
           /\ sock.inbox \in Seq(1..MaxIn)
           /\ got \o unread \in Seq(1..MaxIn) /\ Received \in Seq(1..MaxIn)
           /\ sock.sent \in 0..MaxIn /\ sock \in Socket
<1>1. /\ got \in Seq(1..MaxIn) /\ unread \in Seq(1..MaxIn)
      /\ sock.inbox \in Seq(1..MaxIn) /\ sock.sent \in 0..MaxIn /\ sock \in Socket
    BY DEF Accounts, StreamInv, TypeOK, Socket
<1>2. got \o unread \in Seq(1..MaxIn)
    BY <1>1, Joined
<1>3. Received \in Seq(1..MaxIn)
    BY <1>1, <1>2, Joined DEF Received
<1> QED
    BY <1>1, <1>2, <1>3

(* Appending sequences of bytes does not depend on where one begins. *)
LEMMA Regrouped ==
    ASSUME NEW s \in Seq(1..MaxIn), NEW t \in Seq(1..MaxIn), NEW u \in Seq(1..MaxIn)
    PROVE  (s \o t) \o u = s \o (t \o u)
    BY ConcatAssociative

(* A sequence is what is taken from its front and what is left. *)
LEMMA Divided ==
    ASSUME NEW S, NEW s \in Seq(S), NEW k \in 0..Len(s)
    PROVE  /\ SubSeq(s, 1, k) \in Seq(S) /\ SubSeq(s, k + 1, Len(s)) \in Seq(S)
           /\ SubSeq(s, 1, k) \o SubSeq(s, k + 1, Len(s)) = s
<1>1. Len(s) \in Nat
    OBVIOUS
<1>2. /\ 1 \in 1..(Len(s) + 1) /\ k + 1 \in 1..(Len(s) + 1)
      /\ Len(s) \in 0..Len(s)
    BY <1>1
<1>3. SubSeq(s, 1, k) \in Seq(S) /\ SubSeq(s, k + 1, Len(s)) \in Seq(S)
    BY <1>2, Piece
<1>4. k \in (1 - 1)..Len(s) /\ Len(s) \in k..Len(s)
    BY <1>1
<1>5. SubSeq(s, 1, k) \o SubSeq(s, k + 1, Len(s)) = SubSeq(s, 1, Len(s))
    BY <1>2, <1>4, ConcatAdjacentSubSeq
<1> QED
    BY <1>3, <1>5, SubSeqFull

(* One byte more, the next one of the peer, keeps the order. *)
LEMMA OrderExtended ==
    ASSUME NEW s \in Seq(Nat), NEW top \in Nat, Ordered(s, top)
    PROVE  Ordered(Append(s, top + 1), top + 1)
<1> DEFINE t == Append(s, top + 1)
<1>1. /\ Len(s) \in Nat /\ Len(t) = Len(s) + 1
      /\ \A i \in 1..Len(s) : t[i] = s[i] /\ s[i] \in Nat
      /\ t[Len(s) + 1] = top + 1
    BY AppendProperties, ElementOfSeq
<1> HIDE DEF t
<1>2. ASSUME NEW i \in 1..Len(t) PROVE t[i] <= top + 1
    BY <1>1 DEF Ordered
<1>3. ASSUME NEW i \in 1..Len(t), NEW j \in 1..Len(t), i < j
      PROVE  t[i] < t[j]
  <2>1. i \in 1..Len(s)
      BY <1>1, <1>3
  <2>2. CASE j \in 1..Len(s)
      BY <1>1, <1>3, <2>1, <2>2 DEF Ordered
  <2>3. CASE j = Len(s) + 1
      BY <1>1, <2>1, <2>3 DEF Ordered
  <2> QED
      BY <1>1, <2>2, <2>3
<1> QED
    BY <1>2, <1>3 DEF Ordered, t

(* Bytes left out of the middle leave the others in order. *)
LEMMA OrderOfRest ==
    ASSUME NEW a \in Seq(Nat), NEW b \in Seq(Nat), NEW c \in Seq(Nat), NEW top \in Nat,
           Ordered((a \o b) \o c, top)
    PROVE  Ordered(a \o c, top)
<1> DEFINE s == (a \o b) \o c
           t == a \o c
           at(i) == IF i <= Len(a) THEN i ELSE i + Len(b)
<1>1. Len(a) \in Nat /\ Len(b) \in Nat /\ Len(c) \in Nat
    OBVIOUS
<1>2. /\ a \o b \in Seq(Nat) /\ Len(a \o b) = Len(a) + Len(b)
      /\ \A i \in 1..(Len(a) + Len(b)) :
            (a \o b)[i] = IF i <= Len(a) THEN a[i] ELSE b[i - Len(a)]
    BY ConcatProperties
<1>3. /\ Len(s) = Len(a \o b) + Len(c)
      /\ \A i \in 1..(Len(a \o b) + Len(c)) :
            s[i] = IF i <= Len(a \o b) THEN (a \o b)[i] ELSE c[i - Len(a \o b)]
    BY <1>2, ConcatProperties
<1>4. /\ Len(t) = Len(a) + Len(c)
      /\ \A i \in 1..(Len(a) + Len(c)) :
            t[i] = IF i <= Len(a) THEN a[i] ELSE c[i - Len(a)]
    BY ConcatProperties
<1>5. Ordered(s, top)
    OBVIOUS
<1> HIDE DEF s, t
<1>6. ASSUME NEW i \in 1..Len(t)
      PROVE  at(i) \in 1..Len(s) /\ t[i] = s[at(i)]
  <2>1. CASE i <= Len(a)
    <3>1. /\ i \in 1..(Len(a) + Len(b)) /\ i \in 1..(Len(a \o b) + Len(c))
          /\ i <= Len(a \o b)
        BY <1>1, <1>2, <1>4, <1>6, <2>1
    <3>2. s[i] = a[i]
        BY <1>2, <1>3, <2>1, <3>1
    <3>3. t[i] = a[i]
        BY <1>4, <1>6, <2>1
    <3> QED
        BY <1>3, <2>1, <3>1, <3>2, <3>3
  <2>2. CASE ~(i <= Len(a))
    <3>1. /\ i \in Nat /\ i + Len(b) \in 1..(Len(a \o b) + Len(c))
          /\ ~(i + Len(b) <= Len(a \o b))
          /\ (i + Len(b)) - Len(a \o b) = i - Len(a)
        BY <1>1, <1>2, <1>4, <1>6, <2>2
    <3>2. s[i + Len(b)] = c[i - Len(a)]
        BY <1>3, <3>1
    <3>3. t[i] = c[i - Len(a)]
        BY <1>1, <1>4, <1>6, <2>2
    <3> QED
        BY <1>3, <2>2, <3>1, <3>2, <3>3
  <2> QED
      BY <2>1, <2>2
<1>7. \A i, j \in 1..Len(t) : i < j => at(i) < at(j)
    BY <1>1, <1>4
<1> HIDE DEF at
<1>8. Ordered(t, top)
    BY <1>5, <1>6, <1>7 DEF Ordered
<1> QED
    BY <1>8 DEF t

(* Whatever only moves bytes keeps them in order. *)
LEMMA BytesMoved ==
    ASSUME ReadsInOrder, Received' = Received, sock'.sent = sock.sent,
           overwritten' = overwritten,
           life' \in {"new", "connecting", "open"} => life \in {"new", "connecting", "open"},
           life' = "open" /\ "read" \in asleep' => unread' = <<>>
    PROVE  ReadsInOrder'
    BY DEF ReadsInOrder, Received

(* A step that leaves the bytes where they are. *)
LEMMA BytesStay ==
    ASSUME ReadsInOrder,
           UNCHANGED <<got, unread, overwritten>>,
           sock'.inbox = sock.inbox, sock'.sent = sock.sent,
           life' \in {"new", "connecting", "open"} => life \in {"new", "connecting", "open"},
           life' = "open" /\ "read" \in asleep' =>
              unread = <<>> \/ (life = "open" /\ "read" \in asleep)
    PROVE  ReadsInOrder'
<1>1. Received' = Received
    BY DEF Received
<1>2. life' = "open" /\ "read" \in asleep' => unread' = <<>>
    BY DEF ReadsInOrder
<1> QED
    BY <1>1, <1>2, BytesMoved

LEMMA InitOrder == Init => ReadsInOrder
<1> SUFFICES ASSUME Init PROVE ReadsInOrder
    OBVIOUS
<1>1. got \o unread \o sock.inbox = <<>>
    BY DEF Init
<1>2. Len(<<>>) = 0 /\ 1..0 = {}
    OBVIOUS
<1>3. asleep = {} /\ sock.sent = 0
    BY DEF Init
<1>4. Ordered(<<>>, sock.sent)
    BY <1>2 DEF Ordered
<1> QED
    BY <1>1, <1>2, <1>3, <1>4 DEF ReadsInOrder

LEMMA ReadUnreadOrder ==
    ASSUME InHand, NEW n \in 1..MaxRead, ReadUnread(n)
    PROVE  ReadsInOrder'
<1> USE StreamAssumption DEF InHand
<1> DEFINE put == Lesser(n, Len(unread))
           front == SubSeq(unread, 1, put)
           rest == SubSeq(unread, put + 1, Len(unread))
<1>1. got \in Seq(1..MaxIn) /\ unread \in Seq(1..MaxIn) /\ sock.inbox \in Seq(1..MaxIn)
    BY ReceivedBytes
<1>2. put \in 0..Len(unread)
    BY <1>1, Part
<1>3. got' = got \o front /\ unread' = rest
    BY DEF ReadUnread
<1> HIDE DEF put
<1>4. /\ front \in Seq(1..MaxIn) /\ rest \in Seq(1..MaxIn)
      /\ front \o rest = unread
    BY <1>1, <1>2, Divided
<1> HIDE DEF front, rest
<1>5. (got \o front) \o rest = got \o unread
    BY <1>1, <1>4, Regrouped, ZenonT(60)
<1>6. UNCHANGED <<life, asleep, overwritten, sock>> /\ "read" \notin asleep
    BY DEF ReadUnread
<1>7. Received' = Received
    BY <1>3, <1>5, <1>6 DEF Received
<1> QED
    BY <1>6, <1>7, BytesMoved

LEMMA UnreadOrder ==
    ASSUME InHand, NEW n \in 1..MaxRead, Unread(n)
    PROVE  ReadsInOrder'
<1> USE StreamAssumption DEF InHand
<1> DEFINE k == Len(got) - n
           front == SubSeq(got, 1, k)
           back == SubSeq(got, k + 1, Len(got))
<1>1. got \in Seq(1..MaxIn) /\ unread \in Seq(1..MaxIn) /\ sock.inbox \in Seq(1..MaxIn)
      /\ sock.sent \in Nat
    BY ReceivedBytes
<1>2. k \in 0..Len(got)
    BY <1>1 DEF Unread
<1>3. got' = front /\ unread' = back
    BY DEF Unread
<1> HIDE DEF k
<1>4. front \o back = got
    BY <1>1, <1>2, Divided
<1> HIDE DEF front, back
<1>5. /\ UNCHANGED <<life, asleep, sock>> /\ "read" \notin asleep /\ life = "open"
      /\ overwritten' = (overwritten \/ unread # <<>>)
    BY DEF Unread
<1>6. Received' = got \o sock.inbox
    BY <1>3, <1>4, <1>5 DEF Received
<1>7. CASE unread = <<>>
  <2>1. got \o unread = got
      BY <1>1, <1>7, ConcatEmptySeq
  <2>2. Received' = Received
      BY <1>6, <2>1 DEF Received
  <2>3. overwritten' = overwritten
      BY <1>5, <1>7 DEF Accounts, StreamInv, TypeOK
  <2> QED
      BY <1>5, <2>2, <2>3, BytesMoved
<1>8. CASE unread # <<>>
  <2>1. got \in Seq(Nat) /\ unread \in Seq(Nat) /\ sock.inbox \in Seq(Nat)
    <3>1. 1..MaxIn \subseteq Nat
        OBVIOUS
    <3> QED
        BY <1>1, <3>1, SeqMonotonic
  <2>2. Ordered((got \o unread) \o sock.inbox, sock.sent)
      BY <1>5 DEF ReadsInOrder
  <2>3. Ordered(got \o sock.inbox, sock.sent)
      BY <1>1, <2>1, <2>2, OrderOfRest
  <2>4. overwritten'
      BY <1>5, <1>8
  <2> QED
      BY <1>5, <1>6, <2>3, <2>4 DEF ReadsInOrder, Received
<1> QED
    BY <1>7, <1>8

LEMMA OnReadableOrder ==
    ASSUME InHand, NEW first \in {"IN", "PRI"}, OnReadable(first)
    PROVE  ReadsInOrder'
<1> USE StreamAssumption DEF InHand
<1> DEFINE n == Lesser(want, Len(sock.inbox))
           bytes == SubSeq(sock.inbox, 1, n)
           rest == SubSeq(sock.inbox, n + 1, Len(sock.inbox))
<1>1. /\ got \in Seq(1..MaxIn) /\ unread \in Seq(1..MaxIn) /\ sock.inbox \in Seq(1..MaxIn)
      /\ sock \in Socket
    BY ReceivedBytes
<1>2. n \in 0..Len(sock.inbox)
  <2>1. want \in Nat /\ Len(sock.inbox) \in Nat
      BY <1>1 DEF Accounts, StreamInv, TypeOK
  <2> QED
      BY <2>1, Part
<1>3. /\ bytes \in Seq(1..MaxIn) /\ rest \in Seq(1..MaxIn)
      /\ bytes \o rest = sock.inbox
  <2> HIDE DEF n
  <2> QED
      BY <1>1, <1>2, Divided
<1>4. /\ life = "open" /\ life' = life /\ unread' = unread /\ got' = got \o bytes
      /\ overwritten' = overwritten /\ asleep' = asleep \ {"read"}
    BY DEF OnReadable, ResumeRead
<1>5. \E u, e : sock' = [sock EXCEPT !.inbox = rest, !.urgent = u, !.error = e]
    BY Zenon DEF OnReadable
<1> HIDE DEF n, bytes, rest
<1>6. sock'.inbox = rest /\ sock'.sent = sock.sent
    BY <1>1, <1>5 DEF Socket
<1>7. unread = <<>>
  <2>1. "read" \in asleep
      BY DEF OnReadable, Processing, Accounts, StreamInv, RequestsFound, InterestMatches
  <2> QED
      BY <1>4, <2>1 DEF ReadsInOrder
<1>8. Received' = Received
  <2>1. got \o bytes \in Seq(1..MaxIn)
      BY <1>1, <1>3, Joined
  <2>2. (got \o bytes) \o <<>> = got \o bytes /\ got \o <<>> = got
      BY <1>1, <2>1, ConcatEmptySeq
  <2>3. (got \o bytes) \o rest = got \o (bytes \o rest)
      BY <1>1, <1>3, Regrouped
  <2> QED
      BY <1>3, <1>4, <1>6, <1>7, <2>2, <2>3 DEF Received
<1> QED
    BY <1>4, <1>6, <1>8, BytesMoved

LEMMA NetworkOrder ==
    ASSUME InHand, Network
    PROVE  ReadsInOrder'
<1> USE StreamAssumption DEF InHand
<1>1. /\ got \in Seq(1..MaxIn) /\ unread \in Seq(1..MaxIn) /\ sock.inbox \in Seq(1..MaxIn)
      /\ got \o unread \in Seq(1..MaxIn) /\ Received \in Seq(1..MaxIn)
      /\ sock.sent \in 0..MaxIn /\ sock \in Socket
    BY ReceivedBytes
<1>2. /\ life \in {"connecting", "open"}
      /\ UNCHANGED <<life, asleep, got, unread, overwritten>>
    BY DEF Network, stream, history
<1>3. CASE sock'.inbox = sock.inbox /\ sock'.sent = sock.sent
    BY <1>2, <1>3, BytesStay
<1>4. CASE /\ sock.sent < MaxIn
           /\ sock' = [sock EXCEPT !.sent = @ + 1, !.inbox = Append(@, sock.sent + 1)]
  <2> DEFINE next == sock.sent + 1
  <2>1. next \in 1..MaxIn
      BY <1>1, <1>4
  <2>2. sock' = [sock EXCEPT !.sent = next, !.inbox = Append(sock.inbox, next)]
      BY <1>4
  <2> HIDE DEF next
  <2>3. sock'.sent = next /\ sock'.inbox = Append(sock.inbox, next)
      BY <1>1, <2>2 DEF Socket
  <2>4. Received' = Append(Received, next)
    <3>1. <<next>> \in Seq(1..MaxIn)
        BY <2>1
    <3>2. Append(sock.inbox, next) = sock.inbox \o <<next>>
        BY <1>1, <2>1, AppendIsConcat
    <3>3. Append(Received, next) = Received \o <<next>>
        BY <1>1, <2>1, AppendIsConcat
    <3> DEFINE one == <<next>>
    <3> HIDE DEF one
    <3>4. (got \o unread) \o (sock.inbox \o one) = Received \o one
        BY <1>1, <3>1, Regrouped, ZenonT(60) DEF Received, one
    <3> QED
        BY <1>2, <2>3, <3>2, <3>3, <3>4 DEF Received, one
  <2>5. Ordered(Received, sock.sent) /\ (~overwritten => Len(Received) = sock.sent)
      BY <1>2 DEF ReadsInOrder, Received
  <2>6. Received \in Seq(Nat)
    <3>1. 1..MaxIn \subseteq Nat
        OBVIOUS
    <3> QED
        BY <1>1, <3>1, SeqMonotonic
  <2>7. Ordered(Append(Received, next), next)
      BY <1>1, <2>5, <2>6, OrderExtended DEF next
  <2>8. Len(Append(Received, next)) = Len(Received) + 1
      BY <1>1, <2>1, AppendProperties
  <2>9. Ordered(Received', sock'.sent) /\ (~overwritten' => Len(Received') = sock'.sent)
      BY <1>2, <2>3, <2>4, <2>5, <2>7, <2>8 DEF next
  <2> QED
      BY <1>2, <2>9 DEF ReadsInOrder, Received
<1> QED
    BY <1>1, <1>3, <1>4 DEF Network, Socket

(* A suspended operation that is resumed with nothing read leaves the      *)
(* bytes where they are, and only removes operations from those asleep.    *)
LEMMA ResumedOrder ==
    ASSUME InHand, NEW st, NEW off, NEW elapsed, NEW left,
           ResumeRead(st, <<>>, elapsed, left) \/ ResumeWrite(st, off, elapsed, left),
           UNCHANGED <<life, unread, sock>>
    PROVE  ReadsInOrder'
<1>1. got \o <<>> = got
    BY ReceivedBytes, ConcatEmptySeq DEF InHand
<1>2. UNCHANGED <<got, overwritten>> /\ asleep' \subseteq asleep
    BY <1>1 DEF ResumeRead, ResumeWrite, history
<1> QED
    BY <1>2, BytesStay DEF InHand

LEMMA ConnectedOrder ==
    ASSUME InHand, NEW st, NEW elapsed, life = "connecting", ConnectReturn(st, elapsed)
    PROVE  ReadsInOrder'
<1>1. /\ UNCHANGED <<got, unread, overwritten>> /\ asleep' = {}
      /\ life' \in {"open", "failed"}
    BY DEF ConnectReturn, history
<1>2. sock'.inbox = sock.inbox /\ sock'.sent = sock.sent
    BY ReceivedBytes DEF ConnectReturn, InHand, Socket
<1> QED
    BY <1>1, <1>2, BytesStay DEF InHand

LEMMA OperateOrder ==
    ASSUME InHand, Operate
    PROVE  ReadsInOrder'
<1> USE DEF InHand
<1>0. sock \in Socket /\ (life = "new" => asleep = {})
    BY ReceivedBytes DEF Accounts, StreamInv, RequestsFound
<1>1. CASE \/ Attach \/ \E ok \in BOOLEAN : ConnectAtOnce(ok)
           \/ \E timeout \in BOOLEAN : Connect(timeout)
  <2>1. /\ life = "new" /\ UNCHANGED <<got, unread, overwritten>>
        /\ "read" \notin asleep'
      BY <1>0, <1>1 DEF Attach, ConnectAtOnce, Connect, history
  <2>2. sock'.inbox = sock.inbox /\ sock'.sent = sock.sent
      BY <1>0, <1>1 DEF Attach, ConnectAtOnce, Connect, Socket
  <2> QED
      BY <2>1, <2>2, BytesStay
<1>2. ASSUME NEW timeout \in BOOLEAN, Write(timeout)
      PROVE  ReadsInOrder'
    BY <1>2, BytesStay DEF Write, history
<1>3. ASSUME NEW n \in 1..MaxRead, NEW timeout \in BOOLEAN, Read(n, timeout)
      PROVE  ReadsInOrder'
    BY <1>3, BytesStay DEF Read, history
<1>4. CASE Close
    BY <1>4 DEF Close, ReadsInOrder
<1> QED
    BY <1>1, <1>2, <1>3, <1>4, ReadUnreadOrder, UnreadOrder DEF Operate

LEMMA LoopOrder ==
    ASSUME InHand, LoopStep
    PROVE  ReadsInOrder'
<1> USE DEF InHand
<1>1. CASE Poll \/ EventsDone \/ Leave
    BY <1>1, BytesStay DEF Poll, EventsDone, Leave, stream, history
<1>2. ASSUME NEW first \in {"ERR", "HUP", "RDHUP"}, OnHangup(first)
      PROVE  ReadsInOrder'
  <2>1. UNCHANGED <<life, unread, sock>> /\ \E st : WakeOne(st)
      BY <1>2 DEF OnHangup
  <2>2. PICK st : WakeOne(st)
      BY <2>1
  <2>3. CASE "read" \in reserved
      BY <2>1, <2>2, <2>3, ResumedOrder DEF WakeOne
  <2>4. CASE "read" \notin reserved /\ "write" \in reserved
      BY <2>1, <2>2, <2>4, ResumedOrder DEF WakeOne
  <2>5. CASE "read" \notin reserved /\ "write" \notin reserved
      BY <2>1, <2>2, <2>5, BytesStay DEF WakeOne, history
  <2> QED
      BY <2>3, <2>4, <2>5
<1>3. CASE OnWritable
  <2>1. PICK st, off : ResumeWrite(st, off, FALSE, timers)
      BY <1>3 DEF OnWritable
  <2>2. UNCHANGED <<life, unread>>
      BY <1>3 DEF OnWritable
  <2>3. \E n, e : sock' = [sock EXCEPT !.accepted = n, !.error = e]
      BY <1>3, Zenon DEF OnWritable
  <2>4. sock'.inbox = sock.inbox /\ sock'.sent = sock.sent
      BY <2>3, ReceivedBytes DEF Socket
  <2>5. UNCHANGED <<got, overwritten>> /\ asleep' \subseteq asleep
      BY <2>1 DEF ResumeWrite, history
  <2> QED
      BY <2>2, <2>4, <2>5, BytesStay
<1>4. ASSUME NEW first \in {"ERR", "HUP", "OUT"}, OnConnect(first)
      PROVE  ReadsInOrder'
    BY <1>4, ConnectedOrder DEF OnConnect
<1>5. ASSUME NEW first \in EventBits, OnClosed(first)
      PROVE  ReadsInOrder'
    BY <1>5 DEF OnClosed, Crash, stream, ReadsInOrder
<1> QED
    BY <1>1, <1>2, <1>3, <1>4, <1>5, OnReadableOrder DEF LoopStep

LEMMA ExpireOrder ==
    ASSUME InHand, Expire
    PROVE  ReadsInOrder'
<1> USE DEF InHand
<1>1. PICK op \in timers, elapsed \in BOOLEAN : TimerWakes(op, elapsed)
    BY DEF Expire, Timeout, Terminate
<1>2. CASE life = "closed"
    BY <1>1, <1>2 DEF TimerWakes, Crash, stream, ReadsInOrder
<1>3. CASE life # "closed" /\ op = "connect"
  <2>1. life = "connecting"
      BY <1>1, <1>3 DEF Accounts, StreamInv, TypeOK, Lives, NoTimerDangles,
                        InterestMatches, RequestsFound
  <2>2. ConnectReturn(status, elapsed)
      BY <1>1, <1>3 DEF TimerWakes
  <2> QED
      BY <2>1, <2>2, ConnectedOrder
<1>4. CASE life # "closed" /\ op = "read"
    BY <1>1, <1>4, ResumedOrder DEF TimerWakes
<1>5. CASE life # "closed" /\ op = "write"
    BY <1>1, <1>5, ResumedOrder DEF TimerWakes
<1> QED
    BY <1>2, <1>3, <1>4, <1>5 DEF Accounts, StreamInv, TypeOK, Operations

LEMMA StepOrder == InHand /\ [Next]_vars => ReadsInOrder'
<1> SUFFICES ASSUME InHand, [Next]_vars PROVE ReadsInOrder'
    OBVIOUS
<1> USE DEF InHand
<1>1. CASE Stop
  <2>1. sock'.inbox = sock.inbox /\ sock'.sent = sock.sent
      BY <1>1, ReceivedBytes DEF Stop, Socket
  <2> QED
      BY <1>1, <2>1, BytesStay DEF Stop, stream, history
<1>2. CASE Gone \/ UNCHANGED vars
    BY <1>2, BytesStay DEF Gone, vars, stream, history
<1> QED
    BY <1>1, <1>2, OperateOrder, LoopOrder, ExpireOrder, NetworkOrder DEF Next

(* A reader gets the bytes of the peer in their order, none twice and none *)
(* lost, whatever is put back, times out or fails: for any number of bytes *)
(* and any lengths of reads.                                               *)
THEOREM BytesInOrder == Spec => []ReadsInOrder
<1>1. Init => InHand
    BY InitAccounts, InitOrder DEF InHand
<1>2. InHand /\ [Next]_vars => InHand'
    BY StepAccounts, StepOrder DEF InHand
<1>3. InHand => ReadsInOrder
    BY DEF InHand
<1> QED
    BY <1>1, <1>2, <1>3, PTL DEF Spec
-----------------------------------------------------------------------------
(***************************************************************************)
(* api_stream_transfer, for any number of chunks of any size.  TransferInv *)
(* is inductive as it stands: WriterHolds says that the writer has nothing *)
(* in its hands when it returns, which makes the chunks reported written,  *)
(* in hand and queued all chunks that were read; OutputAgrees then carries *)
(* that over to what dst has got, which a file may have got repeatedly.    *)
(***************************************************************************)

(* Moving a chunk from one end of a concatenation to the other part. *)
LEMMA HeadAndTail ==
    ASSUME NEW S, NEW s \in Seq(S), s # <<>>
    PROVE  /\ <<Head(s)>> \in Seq(S) /\ Len(<<Head(s)>>) = 1 /\ <<Head(s)>> # <<>>
           /\ <<Head(s)>> \o Tail(s) = s /\ Tail(s) \in Seq(S)
<1>1. Len(s) \in Nat /\ Len(s) # 0 /\ Head(s) \in S /\ Tail(s) \in Seq(S)
    BY EmptySeq, HeadTailProperties
<1>2. s = SubSeq(s, 1, Len(s)) /\ Tail(s) = SubSeq(s, 2, Len(s)) /\ Head(s) = s[1]
    BY <1>1, SubSeqFull, TailIsSubSeq
<1>3. s = <<Head(s)>> \o Tail(s)
    BY <1>1, <1>2, SubSeqRecursiveFirst
<1> QED
    BY <1>1, <1>3

LEMMA Regroup ==
    ASSUME NEW s \in Seq(Chunks), NEW t \in Seq(Chunks), NEW u \in Seq(Chunks)
    PROVE  (s \o t) \o u = s \o (t \o u)
    BY ConcatAssociative

LEMMA PrefixOfConcat ==
    ASSUME NEW S, NEW s \in Seq(S), NEW t \in Seq(S)
    PROVE  IsPrefix(s, s \o t)
<1>1. /\ Len(s) \in Nat /\ Len(t) \in Nat /\ s \o t \in Seq(S)
      /\ Len(s \o t) = Len(s) + Len(t)
    BY ConcatProperties
<1>2. SubSeq(s \o t, 1, Len(s)) = SubSeq(s, 1, Len(s))
  <2>1. CASE Len(s) = 0
      BY <2>1, SubSeqEmpty
  <2>2. CASE Len(s) # 0
      BY <1>1, <2>2, SubSeqOfConcat1
  <2> QED
      BY <2>1, <2>2
<1> QED
    BY <1>1, <1>2 DEF IsPrefix

LEMMA PrefixExtends ==
    ASSUME NEW S, NEW s \in Seq(S), NEW t \in Seq(S), NEW u \in Seq(S), IsPrefix(s, t)
    PROVE  IsPrefix(s, t \o u)
<1>1. /\ Len(s) \in Nat /\ Len(t) \in Nat /\ Len(u) \in Nat /\ Len(s) <= Len(t)
      /\ Len(t \o u) = Len(t) + Len(u)
      /\ SubSeq(s, 1, Len(s)) = SubSeq(t, 1, Len(s))
    BY ConcatProperties, LenProperties DEF IsPrefix
<1>2. SubSeq(t \o u, 1, Len(s)) = SubSeq(t, 1, Len(s))
  <2>1. CASE Len(s) = 0
      BY <2>1, SubSeqEmpty
  <2>2. CASE Len(s) # 0
      BY <1>1, <2>2, SubSeqOfConcat1
  <2> QED
      BY <2>1, <2>2
<1> QED
    BY <1>1, <1>2 DEF IsPrefix

LEMMA InitTransfer == TransferInit => TransferInv
<1> SUFFICES ASSUME TransferInit PROVE TransferInv
    OBVIOUS
<1> DEFINE none == <<>>
<1>1. none \in Seq(Chunks) /\ Len(none) = 0 /\ none \o none = none /\ DOMAIN none = {}
    BY EmptySeq, ConcatEmptySeq
<1>2. IsPrefix(none, none)
    BY <1>1, PrefixOfConcat
<1>3. /\ dst \in {"socket", "file", "windows"}
      /\ reader = "posted" /\ writer = "asleep" /\ buffers = none /\ writing = none
      /\ flying = 0 /\ landed = FALSE /\ behind = 0 /\ again = FALSE
      /\ wakeups = 0 /\ req = 0 /\ done = 0 /\ readDone = FALSE /\ total = 0 /\ wrote = 0
      /\ input = none /\ told = none /\ output = none
    BY DEF TransferInit
<1> HIDE DEF none
<1>4. TransferTypeOK
  <2>1. 0 \in 0..ChunkSize /\ 0 \in Nat /\ 0 <= 1
      BY TransferAssumption
  <2> QED
      BY <1>1, <1>3, <2>1, Zenon DEF TransferTypeOK
<1>5. InOrder /\ OneWakeup
    BY <1>1, <1>2, <1>3 DEF InOrder, OneWakeup
<1>6. WriterHolds
    BY <1>3 DEF WriterHolds, none
<1>7. OutputAgrees
    BY <1>1, <1>2, <1>3 DEF OutputAgrees, none
<1> QED
    BY <1>4, <1>5, <1>6, <1>7 DEF TransferInv

(* The reader asks for a wakeup only when none is under way. *)
LEMMA Asked ==
    ASSUME TransferInv, WakeOnce, UNCHANGED <<done, dst, flying, behind, writer, writing>>
    PROVE  wakeups' \in Nat /\ req' \in Nat /\ OneWakeup'
<1>1. /\ wakeups \in Nat /\ req \in Nat /\ done \in Nat /\ flying \in Nat /\ behind \in Nat
      /\ Len(writing) \in Nat
    BY LenProperties DEF TransferInv, TransferTypeOK
<1> QED
    BY <1>1 DEF TransferInv, WakeOnce, OneWakeup

LEMMA OneChunk ==
    ASSUME NEW s \in Seq(Chunks), s # <<>>, Len(s) <= 1
    PROVE  Len(s) = 1
<1>1. Len(s) \in Nat \ {0}
    BY EmptySeq
<1> QED
    BY <1>1

LEMMA OneMore ==
    ASSUME NEW n \in Nat
    PROVE  \A k \in 1..(n + 1) : k \in 1..n \/ k = n + 1
    OBVIOUS

LEMMA NoneOrOne ==
    ASSUME NEW n, n \in {0, 1}
    PROVE  n \in Nat /\ n <= 1
    OBVIOUS

(* What is in the hands of a writer that writes: one chunk, the next one   *)
(* after those it has reported written.                                    *)
LEMMA InHandOfWriter ==
    ASSUME TransferInv, writer = "writing"
    PROVE  /\ writing \in Seq(Chunks) /\ Len(writing) = 1 /\ writing[1] \in Chunks
           /\ told \o writing \in Seq(Chunks) /\ input = (told \o writing) \o buffers
           /\ Len(told) \in Nat /\ writing[1].id = Len(told) + 1
           /\ \A k \in DOMAIN told : (told \o writing)[k] = told[k]
           /\ (told \o writing)[Len(told) + 1] = writing[1]
           /\ DOMAIN (told \o writing) = DOMAIN told \cup {Len(told) + 1}
<1> USE DEF TransferInv
<1>1. /\ writing \in Seq(Chunks) /\ told \in Seq(Chunks) /\ buffers \in Seq(Chunks)
      /\ input \in Seq(Chunks) /\ writing # <<>> /\ Len(writing) <= 1
      /\ input = (told \o writing) \o buffers
      /\ \A k \in DOMAIN input : input[k].id = k
    BY DEF TransferTypeOK, WriterHolds, InOrder
<1>2. Len(writing) = 1
  <2>1. Len(writing) <= 1
      BY <1>1
  <2> QED
      BY <1>1, <2>1, OneChunk, Zenon
<1>3. writing[1] \in Chunks
    BY <1>1, <1>2, ElementOfSeq
<1>4. /\ told \o writing \in Seq(Chunks) /\ Len(told) \in Nat
      /\ Len(told \o writing) = Len(told) + 1
      /\ \A k \in 1..(Len(told) + 1) :
            (told \o writing)[k] = IF k <= Len(told) THEN told[k] ELSE writing[k - Len(told)]
  <2>1. /\ told \o writing \in Seq(Chunks) /\ Len(told) \in Nat
        /\ Len(told \o writing) = Len(told) + Len(writing)
        /\ \A k \in 1..(Len(told) + Len(writing)) :
              (told \o writing)[k] =
                  IF k <= Len(told) THEN told[k] ELSE writing[k - Len(told)]
      BY <1>1, ConcatProperties, LenProperties
  <2> QED
      BY <1>2, <2>1
<1>5. /\ DOMAIN told = 1..Len(told) /\ DOMAIN (told \o writing) = 1..(Len(told) + 1)
    BY <1>1, <1>4, LenProperties
<1>6. (told \o writing)[Len(told) + 1] = writing[1]
    BY <1>4
<1> DEFINE both == told \o writing
<1>7. both \in Seq(Chunks) /\ Len(both) = Len(told) + 1 /\ input = both \o buffers
      /\ both[Len(told) + 1] = writing[1]
    BY <1>1, <1>4, <1>6
<1> HIDE DEF both
<1>8. Len(told) + 1 \in DOMAIN input /\ input[Len(told) + 1] = writing[1]
  <2>0. Len(buffers) \in Nat
      BY <1>1, LenProperties
  <2>1. /\ Len(both \o buffers) = Len(both) + Len(buffers)
        /\ \A k \in 1..(Len(both) + Len(buffers)) :
              (both \o buffers)[k] = IF k <= Len(both) THEN both[k] ELSE buffers[k - Len(both)]
      BY <1>1, <1>7, ConcatProperties, Zenon
  <2>2. DOMAIN input = 1..Len(input)
      BY <1>1, LenProperties
  <2>3. Len(told) + 1 \in 1..(Len(both) + Len(buffers)) /\ Len(told) + 1 <= Len(both)
      BY <1>4, <1>7, <2>0
  <2> QED
      BY <1>7, <2>1, <2>2, <2>3
<1>9. writing[1].id = Len(told) + 1
    BY <1>1, <1>8
<1> QED
    BY <1>1, <1>2, <1>3, <1>4, <1>5, <1>6, <1>9

(* The same chunk put into dst: it stands behind all others. *)
LEMMA PutIntoDst ==
    ASSUME TransferInv, writer = "writing"
    PROVE  LET o == output \o writing
           IN  /\ o \in Seq(Chunks)
               /\ \A i, j \in DOMAIN o : i < j => o[i].id <= o[j].id
               /\ \A i \in DOMAIN o : o[i].id <= Len(told) + 1
               /\ \A k \in DOMAIN told : \E i \in DOMAIN o : o[i] = told[k]
               /\ \E i \in DOMAIN o : o[i] = writing[1]
<1> DEFINE o == output \o writing
<1>1. /\ writing \in Seq(Chunks) /\ Len(writing) = 1 /\ Len(told) \in Nat
      /\ writing[1].id = Len(told) + 1 /\ output \in Seq(Chunks)
    BY InHandOfWriter DEF TransferInv, TransferTypeOK
<1>2. /\ \A i, j \in DOMAIN output : i < j => output[i].id <= output[j].id
      /\ \A i \in DOMAIN output : output[i].id <= Len(told) + 1
      /\ \A k \in DOMAIN told : \E i \in DOMAIN output : output[i] = told[k]
    BY <1>1 DEF TransferInv, OutputAgrees
<1>3. /\ o \in Seq(Chunks) /\ Len(output) \in Nat /\ Len(o) = Len(output) + 1
      /\ \A i \in 1..(Len(output) + 1) :
            o[i] = IF i <= Len(output) THEN output[i] ELSE writing[i - Len(output)]
  <2>1. /\ o \in Seq(Chunks) /\ Len(output) \in Nat /\ Len(o) = Len(output) + Len(writing)
        /\ \A i \in 1..(Len(output) + Len(writing)) :
              o[i] = IF i <= Len(output) THEN output[i] ELSE writing[i - Len(output)]
      BY <1>1, ConcatProperties, LenProperties
  <2> QED
      BY <1>1, <2>1
<1>4. DOMAIN o = 1..(Len(output) + 1) /\ DOMAIN output = 1..Len(output)
    BY <1>1, <1>3, LenProperties
<1> HIDE DEF o
<1>5. /\ \A i \in DOMAIN output : i \in DOMAIN o /\ o[i] = output[i]
      /\ Len(output) + 1 \in DOMAIN o /\ o[Len(output) + 1] = writing[1]
      /\ \A i \in DOMAIN o : i \in DOMAIN output \/ i = Len(output) + 1
    BY <1>3, <1>4
<1>6. \A i \in DOMAIN o : o[i].id <= Len(told) + 1
    BY <1>1, <1>2, <1>5
<1>7. ASSUME NEW i \in DOMAIN o, NEW j \in DOMAIN o, i < j
      PROVE  o[i].id <= o[j].id
  <2>1. CASE j \in DOMAIN output
      BY <1>2, <1>3, <1>4, <1>5, <1>7, <2>1
  <2>2. CASE j = Len(output) + 1
      BY <1>1, <1>5, <1>6, <2>2
  <2> QED
      BY <1>5, <2>1, <2>2
<1>8. \A k \in DOMAIN told : \E i \in DOMAIN o : o[i] = told[k]
    BY <1>2, <1>5
<1> QED
    BY <1>3, <1>5, <1>6, <1>7, <1>8 DEF o

(* What dst has got agrees with what the writer goes on with, when nothing *)
(* of a new write has landed yet.                                          *)
LEMMA OutputNext ==
    ASSUME ~landed', flying' \in Nat, flying' <= 1, behind' > 0 => again', writer' # "astray",
           told' \in Seq(Chunks), writing' \in Seq(Chunks),
           again' \/ output' = told', IsPrefix(told', input'),
           \A i \in DOMAIN output' : output'[i].id \in Nat,
           \A i, j \in DOMAIN output' : i < j => output'[i].id <= output'[j].id,
           \A i \in DOMAIN output' : output'[i].id <= Len(told'),
           \A k \in DOMAIN told' : \E i \in DOMAIN output' : output'[i] = told'[k]
    PROVE  OutputAgrees'
<1>1. told' \o <<>> = told' /\ Len(told') \in Nat /\ Len(writing') \in Nat
    BY ConcatEmptySeq, LenProperties
<1>2. \A i \in DOMAIN output' : output'[i].id <= Len(told') + Len(writing')
    BY <1>1
<1> QED
    BY <1>1, <1>2 DEF OutputAgrees

LEMMA IdsAreNat ==
    ASSUME NEW s \in Seq(Chunks)
    PROVE  \A i \in DOMAIN s : s[i].id \in Nat
<1>1. \A i \in DOMAIN s : s[i] \in Chunks
    BY ElementOfSeq, LenProperties
<1> QED
    BY <1>1, TransferAssumption DEF Chunks

LEMMA ReadChunkStep ==
    ASSUME TransferInv, NEW size \in 1..ChunkSize, ReadChunk(size)
    PROVE  TransferInv'
<1> USE TransferAssumption DEF TransferInv
<1> DEFINE c == [id |-> Len(input) + 1, size |-> size]
<1>1. /\ input \in Seq(Chunks) /\ Len(input) \in Nat /\ buffers \in Seq(Chunks)
      /\ writing \in Seq(Chunks) /\ told \in Seq(Chunks) /\ output \in Seq(Chunks)
    BY LenProperties DEF TransferTypeOK
<1>2. c \in Chunks /\ c.id = Len(input) + 1
    BY <1>1 DEF ReadChunk, Chunks
<1>3. /\ buffers' = Append(buffers, c) /\ input' = Append(input, c)
      /\ UNCHANGED <<dst, reader, writer, writing, flying, landed, behind, done, readDone,
                     total, wrote, told, output, again>>
      /\ writer \in {"asleep", "writing"}
    BY DEF ReadChunk, Shared, requests
<1> HIDE DEF c
<1>4. /\ buffers' = buffers \o <<c>> /\ input' = input \o <<c>> /\ <<c>> \in Seq(Chunks)
      /\ buffers' \in Seq(Chunks) /\ input' \in Seq(Chunks)
    BY <1>1, <1>2, <1>3, AppendIsConcat, AppendProperties
<1>5. wakeups' \in Nat /\ req' \in Nat /\ OneWakeup'
    BY <1>3, Asked DEF ReadChunk
<1>6. TransferTypeOK'
    BY <1>3, <1>4, <1>5 DEF TransferTypeOK
<1>7. InOrder'
  <2> DEFINE before == told \o writing
  <2>1. before \in Seq(Chunks) /\ input = before \o buffers
      BY <1>1, <1>3, ConcatProperties DEF InOrder
  <2> HIDE DEF before
  <2> DEFINE one == <<c>>
  <2>0. one \in Seq(Chunks) /\ buffers' = buffers \o one /\ input' = input \o one
      BY <1>4
  <2> HIDE DEF one
  <2>6. (before \o buffers) \o one = before \o (buffers \o one)
      BY <1>1, <2>0, <2>1, Regroup, Zenon
  <2>2. input' = before \o buffers'
      BY <2>0, <2>1, <2>6
  <2>4. IsPrefix(told, input')
      BY <1>1, <2>0, PrefixExtends DEF InOrder
  <2>8. \A k \in DOMAIN input' : input'[k].id = k
    <3>1. /\ DOMAIN input = 1..Len(input) /\ DOMAIN input' = 1..(Len(input) + 1)
          /\ \A k \in 1..Len(input) : input'[k] = input[k]
          /\ input'[Len(input) + 1] = c
        BY <1>1, <1>2, <1>3, <1>4, AppendProperties, LenProperties
    <3>2. \A k \in 1..Len(input) : input'[k].id = k
        BY <3>1 DEF InOrder
    <3>3. input'[Len(input) + 1].id = Len(input) + 1
        BY <1>2, <3>1
    <3>4. \A k \in DOMAIN input' : k \in 1..Len(input) \/ k = Len(input) + 1
        BY <1>1, <3>1, OneMore, Zenon
    <3> QED
        BY <3>2, <3>3, <3>4, Zenon
  <2> QED
      BY <1>3, <2>2, <2>4, <2>8 DEF InOrder, before
<1>8. WriterHolds'
    BY <1>3 DEF WriterHolds
<1>9. OutputAgrees'
  <2>1. again' \/ IsPrefix(output', input')
      BY <1>1, <1>3, <1>4, PrefixExtends DEF OutputAgrees
  <2> QED
      BY <1>3, <2>1 DEF OutputAgrees
<1> QED
    BY <1>5, <1>6, <1>7, <1>8, <1>9

(* The writer takes the next buffer, or ends its round: all that was read  *)
(* is either reported written or queued.                                   *)
LEMMA NextBufferStep ==
    ASSUME TransferInv, NEW w \in 0..ChunkSize, NextBuffer(buffers, w),
           writer \in {"asleep", "writing"},
           told' \in Seq(Chunks), input = told' \o buffers,
           UNCHANGED <<dst, readDone, input>>
    PROVE  /\ writer' \in {"asleep", "writing", "returned"}
           /\ buffers' \in Seq(Chunks) /\ writing' \in Seq(Chunks) /\ Len(writing') <= 1
           /\ total' \in Nat
           /\ ~landed' /\ landed' \in BOOLEAN /\ behind' = behind + flying
           /\ flying' = IF dst = "file" THEN Len(writing') ELSE 0
           /\ Len(writing') \in Nat
           /\ InOrder' /\ WriterHolds'
<1>0. input' = input /\ dst' = dst
    OBVIOUS
<1> USE TransferAssumption DEF TransferInv
<1>1. buffers \in Seq(Chunks) /\ total \in Nat /\ w \in Nat /\ input \in Seq(Chunks)
    BY DEF TransferTypeOK
<1>2. IsPrefix(told', input)
    BY <1>1, PrefixOfConcat
<1>5. /\ behind' = behind + flying /\ landed' = FALSE
      /\ \A k \in DOMAIN input' : input'[k].id = k
    BY <1>0 DEF NextBuffer, InOrder
<1>3. CASE buffers # <<>>
  <2>1. /\ writer' = "writing" /\ writing' = <<Head(buffers)>> /\ buffers' = Tail(buffers)
        /\ total' = total /\ flying' = IF dst = "file" THEN 1 ELSE 0
      BY <1>3 DEF NextBuffer
  <2>2. /\ writing' \in Seq(Chunks) /\ Len(writing') = 1 /\ writing' # <<>>
        /\ writing' \o buffers' = buffers /\ buffers' \in Seq(Chunks)
      BY <1>1, <1>3, <2>1, HeadAndTail
  <2>3. (told' \o writing') \o buffers' = input
    <3>1. (told' \o writing') \o buffers' = told' \o (writing' \o buffers')
        BY <2>2, Regroup
    <3> QED
        BY <2>2, <3>1
  <2>4. WriterHolds'
      BY <1>0, <1>5, <2>1, <2>2 DEF WriterHolds
  <2>5. InOrder'
      BY <1>0, <1>2, <1>5, <2>3, Zenon DEF InOrder
  <2>6. flying' = IF dst = "file" THEN Len(writing') ELSE 0
      BY <2>1, <2>2
  <2>7. Len(writing') \in Nat /\ Len(writing') <= 1
      BY <2>2, NoneOrOne
  <2>8. writer' \in {"asleep", "writing", "returned"} /\ total' \in Nat
      BY <1>1, <2>1
  <2>9. ~landed' /\ landed' \in BOOLEAN /\ behind' = behind + flying
      BY <1>5, Zenon
  <2> QED
      BY <2>2, <2>4, <2>5, <2>6, <2>7, <2>8, <2>9, Zenon
<1>4. CASE buffers = <<>>
  <2> DEFINE none == <<>>
  <2>1. /\ writer' = (IF readDone THEN "returned" ELSE "asleep")
        /\ writing' = none /\ buffers' = none /\ total' = total + w /\ flying' = 0
      BY <1>4 DEF NextBuffer
  <2>2. none \in Seq(Chunks) /\ Len(none) = 0 /\ told' \o none = told'
      BY EmptySeq, ConcatEmptySeq
  <2>3. (told' \o none) \o none = input
    <3>1. input = told' \o none
        BY <1>4
    <3> QED
        BY <2>2, <3>1
  <2>4. WriterHolds'
      BY <1>5, <2>1 DEF WriterHolds
  <2>5. total' \in Nat
      BY <1>1, <2>1
  <2>6. writer' \in {"asleep", "writing", "returned"}
      BY <2>1
  <2>7. flying' = IF dst = "file" THEN Len(writing') ELSE 0
      BY <2>1, <2>2
  <2> HIDE DEF none
  <2>8. InOrder'
      BY <1>0, <1>2, <1>5, <2>1, <2>2, <2>3, Zenon DEF InOrder
  <2>9. /\ writing' \in Seq(Chunks) /\ buffers' \in Seq(Chunks)
        /\ Len(writing') \in Nat /\ Len(writing') <= 1
    <3>1. Len(writing') = 0
        BY <2>1, <2>2
    <3> QED
        BY <2>1, <2>2, <3>1, NoneOrOne
  <2>10. ~landed' /\ landed' \in BOOLEAN /\ behind' = behind + flying
      BY <1>5, Zenon
  <2> QED
      BY <2>4, <2>5, <2>6, <2>7, <2>8, <2>9, <2>10, Zenon
<1> QED
    BY <1>3, <1>4

LEMMA WriterWokenStep ==
    ASSUME TransferInv, WriterWoken
    PROVE  TransferInv'
<1> USE TransferAssumption DEF TransferInv
<1> DEFINE none == <<>>
<1>1. /\ output \in Seq(Chunks) /\ buffers \in Seq(Chunks) /\ input \in Seq(Chunks)
      /\ told \in Seq(Chunks) /\ flying \in Nat /\ behind \in Nat
      /\ wakeups \in Nat /\ req \in Nat /\ done \in Nat
      /\ wrote \in 0..ChunkSize /\ writer = "asleep" /\ writing = none
    BY DEF WriterWoken, TransferTypeOK, WriterHolds
<1>a. Len(none) = 0 /\ told \o none = told /\ Len(told) \in Nat
    BY <1>1, EmptySeq, ConcatEmptySeq, LenProperties
<1>b. flying = 0 /\ ~landed
    BY <1>1 DEF WriterHolds, TransferTypeOK
<1> HIDE DEF none
<1>2. input = told \o buffers
    BY <1>1, <1>a DEF InOrder
<1>3. /\ NextBuffer(buffers, wrote) /\ wakeups > 0 /\ wakeups' = wakeups - 1 /\ done' = done + 1
      /\ UNCHANGED <<dst, reader, req, readDone, wrote, input, told, output, again>>
    BY DEF WriterWoken
<1>4. /\ writer' \in {"asleep", "writing", "returned"}
      /\ buffers' \in Seq(Chunks) /\ writing' \in Seq(Chunks) /\ Len(writing') <= 1
      /\ total' \in Nat /\ ~landed' /\ landed' \in BOOLEAN /\ behind' = behind + flying
      /\ flying' = (IF dst = "file" THEN Len(writing') ELSE 0) /\ Len(writing') \in Nat
      /\ InOrder' /\ WriterHolds'
    BY <1>1, <1>2, <1>3, NextBufferStep
<1>5. wakeups' \in Nat /\ done' \in Nat /\ OneWakeup'
  <2>1. /\ req - done <= 1 /\ done <= req
        /\ dst # "file" => wakeups <= req - done /\ behind = 0
        /\ dst = "file" => wakeups + flying + behind = req - done
      BY <1>1, <1>a DEF OneWakeup
  <2>2. wakeups <= req - done
      BY <1>1, <2>1
  <2> HIDE DEF TransferInv
  <2>3. wakeups \in Nat \ {0} /\ req \in Nat /\ done \in Nat /\ behind \in Nat
        /\ wakeups' = wakeups - 1 /\ done' = done + 1 /\ req' = req /\ dst' = dst
        /\ behind' = behind /\ (dst = "file" => flying' = Len(writing'))
      BY <1>1, <1>3, <1>4, <1>b
  <2>4. wakeups' \in Nat /\ done' \in Nat /\ req' - done' <= 1 /\ done' <= req'
        /\ wakeups' <= req' - done'
      BY <2>1, <2>2, <2>3
  <2>5. dst' = "file" => wakeups' + flying' + behind' = req' - done' + Len(writing')
      BY <1>b, <1>4, <2>1, <2>3
  <2> QED
      BY <2>1, <2>3, <2>4, <2>5 DEF OneWakeup
<1>6. TransferTypeOK'
  <2>1. /\ dst' \in {"socket", "file", "windows"} /\ reader' \in {"posted", "reading", "ended"}
        /\ again' \in BOOLEAN /\ readDone' \in BOOLEAN /\ req' \in Nat
        /\ wrote' \in 0..ChunkSize
        /\ input' \in Seq(Chunks) /\ told' \in Seq(Chunks) /\ output' \in Seq(Chunks)
      BY <1>1, <1>3 DEF TransferTypeOK
  <2>2. flying' \in Nat /\ behind' \in Nat
      BY <1>1, <1>4
  <2>3. writer' \in {"asleep", "writing", "returned", "failed", "astray"}
      BY <1>4
  <2> HIDE DEF TransferInv
  <2> QED
      BY <1>4, <1>5, <2>1, <2>2, <2>3 DEF TransferTypeOK
<1>7. OutputAgrees'
  <2>1. again \/ output = told
      BY <1>1, <1>a, <1>b DEF OutputAgrees, none
  <2>2. /\ \A i \in DOMAIN output : output[i].id \in Nat
        /\ \A i, j \in DOMAIN output : i < j => output[i].id <= output[j].id
        /\ \A i \in DOMAIN output : output[i].id <= Len(told)
        /\ \A k \in DOMAIN told : \E i \in DOMAIN output : output[i] = told[k]
      BY <1>1, <1>a, IdsAreNat DEF OutputAgrees
  <2>3. behind' > 0 => again'
      BY <1>1, <1>3, <1>4, <1>b DEF OutputAgrees
  <2>4. IsPrefix(told', input')
      BY <1>4 DEF InOrder
  <2>5. flying' \in Nat /\ flying' <= 1
      BY <1>4
  <2> QED
      BY <1>1, <1>3, <1>4, <2>1, <2>2, <2>3, <2>4, <2>5, OutputNext
<1> QED
    BY <1>4, <1>5, <1>6, <1>7

(* The write is over: its chunk has landed, and `output' holds it. *)
LEMMA WriteOverStep ==
    ASSUME TransferInv, writer = "writing",
           NextBuffer(buffers, writing[1].size),
           told' = told \o writing, wrote' = writing[1].size,
           UNCHANGED <<dst, reader, readDone, input, again, req, done>>,
           output' \in Seq(Chunks), wakeups' \in Nat,
           dst = "file" => wakeups > 0 /\ wakeups' = wakeups - 1,
           dst # "file" => wakeups' = wakeups,
           behind + flying > 0 => again,
           again \/ output' = told \o writing,
           \A i, j \in DOMAIN output' : i < j => output'[i].id <= output'[j].id,
           \A i \in DOMAIN output' : output'[i].id <= Len(told) + 1,
           \A k \in DOMAIN told : \E i \in DOMAIN output' : output'[i] = told[k],
           \E i \in DOMAIN output' : output'[i] = writing[1]
    PROVE  TransferInv'
<1> USE TransferAssumption DEF TransferInv
<1>1. /\ Len(writing) = 1 /\ writing[1] \in Chunks /\ Len(told) \in Nat
      /\ told' \in Seq(Chunks) /\ input = told' \o buffers
      /\ \A k \in DOMAIN told : told'[k] = told[k]
      /\ told'[Len(told) + 1] = writing[1]
      /\ DOMAIN told' = DOMAIN told \cup {Len(told) + 1}
    BY InHandOfWriter
<1>2. writing[1].size \in 0..ChunkSize
    BY <1>1 DEF Chunks
<1>3. /\ writer' \in {"asleep", "writing", "returned"}
      /\ buffers' \in Seq(Chunks) /\ writing' \in Seq(Chunks) /\ Len(writing') <= 1
      /\ total' \in Nat /\ ~landed' /\ landed' \in BOOLEAN /\ behind' = behind + flying
      /\ flying' = (IF dst = "file" THEN Len(writing') ELSE 0) /\ Len(writing') \in Nat
      /\ InOrder' /\ WriterHolds'
    BY <1>1, <1>2, NextBufferStep
<1>4. /\ flying \in Nat /\ behind \in Nat /\ wakeups \in Nat /\ req \in Nat /\ done \in Nat
      /\ flying' \in Nat /\ flying' <= 1
    BY <1>3 DEF TransferTypeOK
<1>5. TransferTypeOK'
  <2>1. /\ dst' \in {"socket", "file", "windows"} /\ reader' \in {"posted", "reading", "ended"}
        /\ again' \in BOOLEAN /\ readDone' \in BOOLEAN /\ req' \in Nat /\ done' \in Nat
        /\ input' \in Seq(Chunks)
      BY DEF TransferTypeOK
  <2>2. flying' \in Nat /\ behind' \in Nat
      BY <1>3, <1>4
  <2>3. /\ writer' \in {"asleep", "writing", "returned", "failed", "astray"}
        /\ wrote' \in 0..ChunkSize
      BY <1>2, <1>3
  <2>4. told' \in Seq(Chunks) /\ output' \in Seq(Chunks) /\ wakeups' \in Nat
      BY <1>1
  <2> HIDE DEF TransferInv
  <2> QED
      BY <1>3, <2>1, <2>2, <2>3, <2>4 DEF TransferTypeOK
<1>6. OneWakeup'
  <2>1. CASE dst = "file"
      BY <1>1, <1>3, <1>4, <2>1 DEF OneWakeup
  <2>2. CASE dst # "file"
    <3>1. flying = 0
        BY <1>4, <2>2 DEF WriterHolds
    <3> QED
        BY <1>3, <1>4, <2>2, <3>1 DEF OneWakeup
  <2> QED
      BY <2>1, <2>2
<1>7. OutputAgrees'
  <2>1. Len(told') = Len(told) + 1
    <3>1. /\ writing \in Seq(Chunks) /\ told \in Seq(Chunks)
        BY DEF TransferTypeOK
    <3>2. Len(told \o writing) = Len(told) + Len(writing)
        BY <3>1, ConcatProperties
    <3> QED
        BY <1>1, <3>2
  <2>2. \A k \in DOMAIN told' : \E i \in DOMAIN output' : output'[i] = told'[k]
      BY <1>1
  <2>3. \A i \in DOMAIN output' : output'[i].id \in Nat
      BY IdsAreNat
  <2>4. IsPrefix(told', input')
      BY <1>3 DEF InOrder
  <2>5. behind' > 0 => again'
      BY <1>3
  <2> QED
      BY <1>1, <1>3, <1>4, <2>1, <2>2, <2>3, <2>4, <2>5, OutputNext
<1> QED
    BY <1>3, <1>5, <1>6, <1>7

LEMMA WriteDoneStep ==
    ASSUME TransferInv, WriteDone
    PROVE  TransferInv'
<1> USE DEF TransferInv
<1> DEFINE none == <<>>
<1>1. /\ writer = "writing" /\ dst # "file" /\ output' = output \o writing
      /\ told' = told \o writing /\ wrote' = writing[1].size
      /\ NextBuffer(buffers, writing[1].size)
      /\ UNCHANGED <<dst, reader, wakeups, req, done, readDone, input, again>>
    BY DEF WriteDone
<1>2. ~landed /\ ~(flying > 0) /\ behind = 0 /\ flying \in Nat /\ wakeups \in Nat
    BY <1>1 DEF WriterHolds, OneWakeup, TransferTypeOK
<1>3. behind + flying = 0
    BY <1>2
<1>4. again \/ output = told
  <2>1. told \o <<>> = told
      BY ConcatEmptySeq DEF TransferTypeOK
  <2> QED
      BY <1>1, <1>2, <2>1 DEF OutputAgrees
<1>5. /\ output' \in Seq(Chunks)
      /\ \A i, j \in DOMAIN output' : i < j => output'[i].id <= output'[j].id
      /\ \A i \in DOMAIN output' : output'[i].id <= Len(told) + 1
      /\ \A k \in DOMAIN told : \E i \in DOMAIN output' : output'[i] = told[k]
      /\ \E i \in DOMAIN output' : output'[i] = writing[1]
    BY <1>1, PutIntoDst
<1>6. (again \/ output' = told \o writing) /\ ~(behind + flying > 0) /\ wakeups' \in Nat
    BY <1>1, <1>2, <1>3, <1>4
<1> QED
    BY <1>1, <1>5, <1>6, WriteOverStep

LEMMA FileWrittenStep ==
    ASSUME TransferInv, FileWritten
    PROVE  TransferInv'
<1> USE DEF TransferInv
<1>1. /\ writer = "writing" /\ dst = "file" /\ landed /\ wakeups > 0 /\ wakeups' = wakeups - 1
      /\ told' = told \o writing /\ wrote' = writing[1].size
      /\ NextBuffer(buffers, writing[1].size)
      /\ UNCHANGED <<dst, reader, req, done, readDone, input, output, again>>
    BY DEF FileWritten
<1>2. wakeups' \in Nat /\ flying \in Nat /\ behind \in Nat /\ output \in Seq(Chunks)
    BY <1>1 DEF TransferTypeOK
<1>3. behind + flying > 0 => again
    BY <1>1, <1>2 DEF OutputAgrees
<1>4. Len(writing) = 1
    BY <1>1, InHandOfWriter
<1>5. /\ again \/ output = told \o writing
      /\ \A i, j \in DOMAIN output : i < j => output[i].id <= output[j].id
      /\ \A i \in DOMAIN output : output[i].id <= Len(told) + 1
      /\ \A k \in DOMAIN told : \E i \in DOMAIN output : output[i] = told[k]
      /\ \E i \in DOMAIN output : output[i] = writing[1]
    BY <1>1, <1>4 DEF OutputAgrees
<1> QED
    BY <1>1, <1>2, <1>3, <1>5, WriteOverStep

LEMMA WriteEndsStep ==
    ASSUME TransferInv, WriteFailed \/ WriteCutShort
    PROVE  TransferInv'
<1> USE DEF TransferInv
<1> DEFINE none == <<>>
<1>1. none \in Seq(Chunks) /\ Len(none) = 0
    BY EmptySeq
<1>2. /\ writer' = "failed" /\ writing' = none /\ buffers' = none /\ writer = "writing"
      /\ wakeups' = wakeups \/ (wakeups > 0 /\ wakeups' = wakeups - 1)
      /\ UNCHANGED <<dst, reader, flying, landed, behind, req, done, readDone, total, wrote,
                     input, told, output, again>>
    BY DEF WriteFailed, WriteCutShort, requests
<1>3. WriterHolds'
    BY <1>2 DEF WriterHolds
<1> HIDE DEF none
<1>4. wakeups \in Nat /\ wakeups' \in Nat /\ wakeups' <= wakeups /\ req \in Nat /\ done \in Nat
    BY <1>2 DEF TransferTypeOK
<1>5. OneWakeup'
    BY <1>2, <1>4 DEF OneWakeup
<1>6. TransferTypeOK'
    BY <1>1, <1>2, <1>4 DEF TransferTypeOK
<1> QED
    BY <1>2, <1>3, <1>5, <1>6 DEF InOrder, OutputAgrees

LEMMA LandStep ==
    ASSUME TransferInv, Land
    PROVE  TransferInv'
<1> USE DEF TransferInv
<1>1. /\ writer = "writing" /\ flying > 0 /\ flying' = flying - 1 /\ landed' = TRUE
      /\ output' = output \o writing /\ wakeups' = wakeups + 1
      /\ UNCHANGED <<dst, reader, writer, buffers, writing, behind, req, done, readDone, total,
                     wrote, input, told, again>>
    BY DEF Land
<1>2. /\ flying \in Nat /\ behind \in Nat /\ wakeups \in Nat /\ req \in Nat /\ done \in Nat
      /\ dst = "file"
    BY <1>1 DEF TransferTypeOK, WriterHolds
<1>3. Len(writing) = 1 /\ told \o writing \in Seq(Chunks) /\ input = (told \o writing) \o buffers
    BY <1>1, InHandOfWriter
<1>4. /\ output' \in Seq(Chunks)
      /\ \A i, j \in DOMAIN output' : i < j => output'[i].id <= output'[j].id
      /\ \A i \in DOMAIN output' : output'[i].id <= Len(told) + 1
      /\ \A k \in DOMAIN told : \E i \in DOMAIN output' : output'[i] = told[k]
      /\ \E i \in DOMAIN output' : output'[i] = writing[1]
    BY <1>1, PutIntoDst
<1>5. TransferTypeOK'
    BY <1>1, <1>2, <1>4 DEF TransferTypeOK
<1>6. OneWakeup'
    BY <1>1, <1>2, <1>3 DEF OneWakeup
<1>7. InOrder' /\ WriterHolds'
    BY <1>1, <1>2 DEF InOrder, WriterHolds
<1>8. OutputAgrees'
  <2>1. again \/ (output' = told \o writing /\ ~landed /\ flying <= 1)
    <3>1. told \o <<>> = told
        BY ConcatEmptySeq DEF TransferTypeOK
    <3>2. again \/ (flying <= 1 /\ ~(flying > 0 /\ landed))
        BY <1>2 DEF OutputAgrees
    <3>3. again \/ ~landed
        BY <1>1, <3>2
    <3>4. again \/ output = told \o (IF landed THEN writing ELSE <<>>)
        BY <1>1 DEF OutputAgrees
    <3> QED
        BY <1>1, <3>1, <3>2, <3>3, <3>4
  <2>2. again' \/ IsPrefix(output', input')
    <3>1. buffers \in Seq(Chunks)
        BY DEF TransferTypeOK
    <3>2. IsPrefix(told \o writing, input)
        BY <1>3, <3>1, PrefixOfConcat, Zenon
    <3> QED
        BY <1>1, <2>1, <3>2
  <2>3. behind' > 0 \/ flying' > 1 \/ (flying' > 0 /\ landed') \/ writer' = "astray" => again'
      BY <1>1, <1>2, <2>1 DEF OutputAgrees
  <2> QED
      BY <1>1, <1>3, <1>4, <2>1, <2>2, <2>3 DEF OutputAgrees
<1> QED
    BY <1>5, <1>6, <1>7, <1>8

LEMMA ResubmitUnseenStep ==
    ASSUME TransferInv, ResubmitUnseen
    PROVE  TransferInv'
<1> USE DEF TransferInv
<1>1. /\ writer = "writing" /\ ~landed /\ output' = output \o writing /\ again' = TRUE
      /\ UNCHANGED <<dst, reader, writer, buffers, writing, flying, landed, behind, wakeups,
                     req, done, readDone, total, wrote, input, told>>
    BY DEF ResubmitUnseen, requests
<1>2. Len(writing) = 1
    BY <1>1, InHandOfWriter
<1>3. /\ output' \in Seq(Chunks)
      /\ \A i, j \in DOMAIN output' : i < j => output'[i].id <= output'[j].id
      /\ \A i \in DOMAIN output' : output'[i].id <= Len(told) + 1
      /\ \A k \in DOMAIN told : \E i \in DOMAIN output' : output'[i] = told[k]
    BY <1>1, PutIntoDst
<1> QED
    BY <1>1, <1>2, <1>3 DEF TransferTypeOK, InOrder, OutputAgrees, OneWakeup, WriterHolds

LEMMA WokenStep ==
    ASSUME TransferInv, WriteWoken \/ Resubmit \/ LandAstray
    PROVE  TransferInv'
<1> USE DEF TransferInv
<1>0. /\ flying \in Nat /\ behind \in Nat /\ wakeups \in Nat /\ req \in Nat /\ done \in Nat
      /\ Len(writing) \in Nat
    BY LenProperties DEF TransferTypeOK
<1>1. CASE WriteWoken
  <2>1. /\ dst = "socket" /\ wakeups > 0 /\ wakeups' = wakeups - 1
        /\ UNCHANGED <<dst, reader, writer, buffers, writing, flying, landed, behind, req, done,
                       readDone, total, wrote, input, told, output, again>>
      BY <1>1 DEF WriteWoken, requests
  <2> QED
      BY <1>0, <2>1 DEF TransferTypeOK, InOrder, OutputAgrees, OneWakeup, WriterHolds
<1>2. CASE Resubmit
  <2>1. /\ writer = "writing" /\ dst = "file" /\ ~landed /\ wakeups > 0
        /\ wakeups' = wakeups - 1 /\ flying' = flying + 1 /\ again' = TRUE
        /\ UNCHANGED <<dst, reader, writer, buffers, writing, landed, behind, req, done,
                       readDone, total, wrote, input, told, output>>
      BY <1>2 DEF Resubmit
  <2>2. writing # <<>>
      BY <2>1 DEF WriterHolds
  <2>3. TransferTypeOK' /\ InOrder' /\ OneWakeup'
    <3>1. wakeups' \in Nat /\ flying' \in Nat
        BY <1>0, <2>1
    <3>2. wakeups' + flying' + behind' = wakeups + flying + behind
        BY <1>0, <2>1
    <3>3. TransferTypeOK'
        BY <2>1, <3>1 DEF TransferTypeOK
    <3>4. OneWakeup'
        BY <2>1, <3>2 DEF OneWakeup
    <3> QED
        BY <2>1, <3>3, <3>4 DEF InOrder
  <2>4. OutputAgrees' /\ WriterHolds'
      BY <1>0, <2>1, <2>2 DEF OutputAgrees, WriterHolds
  <2> QED
      BY <2>3, <2>4
<1>3. CASE LandAstray
  <2>1. /\ writer \in {"asleep", "writing", "returned"} /\ behind > 0 /\ writer' = "astray"
        /\ behind' = behind - 1 /\ wakeups' = wakeups + 1
        /\ UNCHANGED <<dst, reader, buffers, writing, flying, landed, req, done, readDone,
                       total, wrote, input, told, output, again>>
      BY <1>3 DEF LandAstray
  <2>2. again /\ dst = "file"
      BY <1>0, <2>1 DEF OutputAgrees, OneWakeup, TransferTypeOK
  <2>3. TransferTypeOK' /\ InOrder' /\ OneWakeup'
    <3>1. wakeups' \in Nat /\ behind' \in Nat
        BY <1>0, <2>1
    <3>2. wakeups' + flying' + behind' = wakeups + flying + behind
        BY <1>0, <2>1
    <3>3. TransferTypeOK'
        BY <2>1, <3>1 DEF TransferTypeOK
    <3>4. OneWakeup'
        BY <2>1, <2>2, <3>2 DEF OneWakeup
    <3> QED
        BY <2>1, <3>3, <3>4 DEF InOrder
  <2>4. OutputAgrees' /\ WriterHolds'
      BY <1>0, <2>1, <2>2 DEF OutputAgrees, WriterHolds
  <2> QED
      BY <2>3, <2>4
<1> QED
    BY <1>1, <1>2, <1>3

LEMMA StepTransfer == TransferInv /\ [TransferNext]_transferVars => TransferInv'
<1> SUFFICES ASSUME TransferInv, [TransferNext]_transferVars PROVE TransferInv'
    OBVIOUS
<1> USE DEF TransferInv
<1>1. CASE ReaderStarts
  <2>1. /\ reader' = "reading"
        /\ UNCHANGED <<dst, writer, buffers, writing, flying, landed, behind, wakeups, req, done,
                       readDone, total, wrote, input, told, output, again>>
      BY <1>1 DEF ReaderStarts, requests
  <2> QED
      BY <2>1 DEF TransferTypeOK, InOrder, OutputAgrees, OneWakeup, WriterHolds
<1>2. CASE ReadEnd
  <2>1. /\ reader' = "ended" /\ readDone' = TRUE /\ WakeOnce
        /\ UNCHANGED <<dst, writer, buffers, writing, flying, landed, behind, done, total, wrote,
                       input, told, output, again>>
      BY <1>2 DEF ReadEnd, requests
  <2>2. wakeups' \in Nat /\ req' \in Nat /\ OneWakeup'
      BY <2>1, Asked
  <2> QED
      BY <2>1, <2>2 DEF TransferTypeOK, InOrder, OutputAgrees, WriterHolds
<1>4. CASE UNCHANGED transferVars
    BY <1>4 DEF transferVars, requests, TransferTypeOK, InOrder, OutputAgrees, OneWakeup,
                WriterHolds
<1> QED
    BY <1>1, <1>2, <1>4, ReadChunkStep, WriterWokenStep, WriteDoneStep, FileWrittenStep,
       WriteEndsStep, LandStep, ResubmitUnseenStep, WokenStep DEF TransferNext

(* Reader and writer always agree on the chunks between them: what was     *)
(* reported written, is being written and is queued is what came from src, *)
(* in order, dst holds what was reported, and there is never more than one *)
(* wakeup under way.  It is so for a socket, for a file, which may hold a  *)
(* chunk repeatedly once a wakeup has met a write, and on Windows.         *)
THEOREM TransferInvariance == TransferSpec => []TransferInv
    BY InitTransfer, StepTransfer, PTL DEF TransferSpec

(* A transfer that returns has put everything that src had into dst, each  *)
(* chunk once, or into a file whose write met a wakeup at least once.      *)
THEOREM NothingLeftBehind == TransferSpec => []CompleteOnReturn
<1>1. TransferInv => CompleteOnReturn
  <2> SUFFICES ASSUME TransferInv, writer = "returned"
               PROVE  /\ readDone /\ (again \/ output = input)
                      /\ \A k \in DOMAIN input : \E i \in DOMAIN output : output[i] = input[k]
      BY DEF CompleteOnReturn
  <2>1. /\ writing = <<>> /\ buffers = <<>> /\ readDone /\ told \in Seq(Chunks) /\ ~landed
        /\ input = told \o writing \o buffers
      BY DEF TransferInv, WriterHolds, TransferTypeOK, InOrder
  <2>2. input = told /\ told \o <<>> = told
      BY <2>1, ConcatEmptySeq
  <2> QED
      BY <2>1, <2>2 DEF TransferInv, OutputAgrees
<1> QED
    BY <1>1, TransferInvariance, PTL
=============================================================================
