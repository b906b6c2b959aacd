------------------------------ MODULE FifoQueue ------------------------------
(***************************************************************************)
(* What the multi-producer single-consumer queue of src/api/src/unix/      *)
(* api_mpscq.h promises its users: nodes leave in the order in which they  *)
(* were pushed, each exactly once, and a pop may come back empty-handed    *)
(* only if the queue is empty or if some push overlapped the pop.          *)
(*                                                                         *)
(* The second clause is weaker than linearizability, and it is the reason  *)
(* why every pusher writes the eventfd AFTER its push (api_async.c): a pop *)
(* that failed because of a push in flight will be repeated.               *)
(***************************************************************************)
EXTENDS Sequences, Naturals

CONSTANTS Producers, Nodes, Null

VARIABLES
    queue,      \* the nodes in the queue, oldest first
    inflight,   \* the producers inside api_mpscq_push, after its exchange
    popping,    \* is the consumer inside api_mpscq_pop?
    raced,      \* did a push overlap the pop under way?
    ret         \* what the last pop returned

vars == <<queue, inflight, popping, raced, ret>>

TypeOK ==
    /\ queue \in Seq(Nodes)
    /\ inflight \subseteq Producers
    /\ popping \in BOOLEAN
    /\ raced \in BOOLEAN
    /\ ret \in Nodes \cup {Null}

Init ==
    /\ queue = <<>>
    /\ inflight = {}
    /\ popping = FALSE
    /\ raced = FALSE
    /\ ret = Null

(* A push takes effect.  The caller pushes a node that is in no queue.     *)
Push(p, n) ==
    /\ p \notin inflight
    /\ \A i \in 1..Len(queue) : queue[i] # n
    /\ queue' = Append(queue, n)
    /\ inflight' = inflight \cup {p}
    /\ raced' = (raced \/ popping)
    /\ UNCHANGED <<popping, ret>>

(* The push returns to its caller.                                         *)
PushReturn(p) ==
    /\ p \in inflight
    /\ inflight' = inflight \ {p}
    /\ UNCHANGED <<queue, popping, raced, ret>>

PopCall ==
    /\ ~popping
    /\ popping' = TRUE
    /\ raced' = (inflight # {})
    /\ UNCHANGED <<queue, inflight, ret>>

PopNode ==
    /\ popping
    /\ queue # <<>>
    /\ ret' = Head(queue)
    /\ queue' = Tail(queue)
    /\ popping' = FALSE
    /\ raced' = FALSE
    /\ UNCHANGED inflight

PopNull ==
    /\ popping
    /\ queue = <<>> \/ raced
    /\ ret' = Null
    /\ popping' = FALSE
    /\ raced' = FALSE
    /\ UNCHANGED <<queue, inflight>>

Next ==
    \/ \E p \in Producers : PushReturn(p) \/ \E n \in Nodes : Push(p, n)
    \/ PopCall \/ PopNode \/ PopNull

Spec == Init /\ [][Next]_vars
=============================================================================
