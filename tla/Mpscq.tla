-------------------------------- MODULE Mpscq --------------------------------
(***************************************************************************)
(* The intrusive multi-producer single-consumer queue of                   *)
(* src/api/src/unix/api_mpscq.h, one action per access to shared memory.   *)
(*                                                                         *)
(* Any thread pushes (api_async_post, _wakeup, _exec and api_wait_exec);   *)
(* only the thread of the loop that owns the queue pops, and it pushes the *)
(* stub from inside its pop.  A node that was popped is released at once:  *)
(* its memory goes back to `free' and may be pushed again by any producer, *)
(* as api_async_task_fn does with api_free and api_wait_notify by pushing  *)
(* the very node it popped.                                                *)
(*                                                                         *)
(* The build modelled is x86: __sync_lock_test_and_set is an xchg, a full  *)
(* barrier, so a store that lingers in a store buffer is only the link of  *)
(* a push, which is a step of its own here.  pop's local `tail' equals     *)
(* self->tail at every shared access and has no variable of its own.       *)
(***************************************************************************)
EXTENDS Sequences, Naturals

CONSTANTS
    Producers,      \* the threads that push
    Consumer,       \* the thread of the loop
    Nodes,          \* the nodes of asyncs
    Stub,           \* &self->stub
    Null

ASSUME MpscqAssumption ==
    /\ Consumer \notin Producers
    /\ Stub \notin Nodes
    /\ Null \notin Nodes \cup {Stub}

Threads == Producers \cup {Consumer}
AllNodes == Nodes \cup {Stub}

VARIABLES
    head,           \* self->head
    tail,           \* self->tail
    next,           \* next[n]: n->next
    pc,             \* where each thread is
    arg,            \* arg[t]: the node t is pushing
    prev,           \* prev[t]: push's local prev
    ret,            \* what the last pop returned
    free,           \* the nodes that are in nobody's hands
    chain,          \* history: nodes exchanged in and not yet retired, in order
    raced           \* history: did a push overlap the pop under way?

vars == <<head, tail, next, pc, arg, prev, ret, free, chain, raced>>

ProducerPC == {"idle", "swap", "link"}
ConsumerPC == ProducerPC \cup {"next", "again", "head", "reread"}

TypeOK ==
    /\ head \in AllNodes
    /\ tail \in AllNodes
    /\ next \in [AllNodes -> AllNodes \cup {Null}]
    /\ pc \in [Threads -> ConsumerPC]
    /\ \A p \in Producers : pc[p] \in ProducerPC
    /\ arg \in [Threads -> AllNodes]
    /\ prev \in [Threads -> AllNodes]
    /\ ret \in Nodes \cup {Null}
    /\ free \subseteq Nodes
    /\ chain \in Seq(AllNodes)
    /\ raced \in BOOLEAN

(* api_mpscq_create *)
Init ==
    /\ head = Stub
    /\ tail = Stub
    /\ next = [n \in AllNodes |-> Null]
    /\ pc = [t \in Threads |-> "idle"]
    /\ arg = [t \in Threads |-> Stub]
    /\ prev = [t \in Threads |-> Stub]
    /\ ret = Null
    /\ free = Nodes
    /\ chain = <<Stub>>
    /\ raced = FALSE

Goto(t, label) == pc' = [pc EXCEPT ![t] = label]

-----------------------------------------------------------------------------
(* api_mpscq_push *)

(* n->next = 0, on a node that only t can reach *)
BeginPush(t, n) ==
    /\ Goto(t, "swap")
    /\ arg' = [arg EXCEPT ![t] = n]
    /\ next' = [next EXCEPT ![n] = Null]

PushCall(p, n) ==
    /\ pc[p] = "idle"
    /\ n \in free
    /\ BeginPush(p, n)
    /\ free' = free \ {n}
    /\ UNCHANGED <<head, tail, prev, ret, chain, raced>>

(* prev = xchg(&self->head, n) *)
PushSwap(t) ==
    /\ pc[t] = "swap"
    /\ Goto(t, "link")
    /\ prev' = [prev EXCEPT ![t] = head]
    /\ head' = arg[t]
    /\ chain' = Append(chain, arg[t])
    /\ raced' = (raced \/ (t # Consumer /\ pc[Consumer] # "idle"))
    /\ UNCHANGED <<tail, next, arg, ret, free>>

(* prev->next = n *)
PushLink(t) ==
    /\ pc[t] = "link"
    /\ Goto(t, IF t = Consumer THEN "reread" ELSE "idle")
    /\ next' = [next EXCEPT ![prev[t]] = arg[t]]
    /\ UNCHANGED <<head, tail, arg, prev, ret, free, chain, raced>>

-----------------------------------------------------------------------------
(* api_mpscq_pop *)

PopCall ==
    /\ pc[Consumer] = "idle"
    /\ Goto(Consumer, "next")
    /\ raced' = (\E p \in Producers : pc[p] = "link")
    /\ UNCHANGED <<head, tail, next, arg, prev, ret, free, chain>>

(* return 0 *)
ReturnNull ==
    /\ Goto(Consumer, "idle")
    /\ ret' = Null
    /\ raced' = FALSE
    /\ UNCHANGED <<head, tail, next, arg, prev, free, chain>>

(* self->tail = next; return tail *)
ReturnTail ==
    /\ Goto(Consumer, "idle")
    /\ tail' = next[tail]
    /\ ret' = tail
    /\ free' = free \cup {tail}
    /\ chain' = Tail(chain)
    /\ raced' = FALSE
    /\ UNCHANGED <<head, next, arg, prev>>

(* Mutation: the stub at the tail is taken for an empty queue. *)
PopStubNullAlways ==
    /\ pc[Consumer] = "next"
    /\ tail = Stub
    /\ ReturnNull

(* the stub is at the tail and nothing is linked behind it *)
PopStubNull ==
    /\ pc[Consumer] = "next"
    /\ tail = Stub
    /\ next[Stub] = Null
    /\ ReturnNull

(* the stub is at the tail: step over it and read its successor's next *)
PopStubSkip ==
    /\ pc[Consumer] = "next"
    /\ tail = Stub
    /\ next[Stub] # Null
    /\ Goto(Consumer, "again")
    /\ tail' = next[Stub]
    /\ chain' = Tail(chain)
    /\ UNCHANGED <<head, next, arg, prev, ret, free, raced>>

AtNode ==
    \/ pc[Consumer] = "next" /\ tail # Stub
    \/ pc[Consumer] = "again"

PopTake ==
    /\ AtNode
    /\ next[tail] # Null
    /\ ReturnTail

(* no successor yet: head must be looked at *)
PopLast ==
    /\ AtNode
    /\ next[tail] = Null
    /\ Goto(Consumer, "head")
    /\ UNCHANGED <<head, tail, next, arg, prev, ret, free, chain, raced>>

(* Mutation: pop does not wait for the link and goes on at the head. *)
PopHeadMovedTakes ==
    /\ pc[Consumer] = "head"
    /\ head # tail
    /\ Goto(Consumer, "idle")
    /\ tail' = head
    /\ ret' = tail
    /\ free' = free \cup {tail}
    /\ chain' = Tail(chain)
    /\ raced' = FALSE
    /\ UNCHANGED <<head, next, arg, prev>>

PopHeadMoved ==
    /\ pc[Consumer] = "head"
    /\ head # tail
    /\ ReturnNull

(* tail is the only node: push the stub behind it *)
PopPushStub ==
    /\ pc[Consumer] = "head"
    /\ head = tail
    /\ BeginPush(Consumer, Stub)
    /\ UNCHANGED <<head, tail, prev, ret, free, chain, raced>>

PopTakeLast ==
    /\ pc[Consumer] = "reread"
    /\ next[tail] # Null
    /\ ReturnTail

PopGiveUp ==
    /\ pc[Consumer] = "reread"
    /\ next[tail] = Null
    /\ ReturnNull

Push(t) == PushSwap(t) \/ PushLink(t)

Pop ==
    \/ PopStubNull \/ PopStubSkip \/ PopTake \/ PopLast
    \/ PopHeadMoved \/ PopPushStub \/ PopTakeLast \/ PopGiveUp

Next ==
    \/ \E p \in Producers, n \in Nodes : PushCall(p, n)
    \/ \E t \in Threads : Push(t)
    \/ PopCall
    \/ Pop

Spec == Init /\ [][Next]_vars
-----------------------------------------------------------------------------
(* The inductive invariant, one named part per idea. *)

InChain(n) == \E i \in 1..Len(chain) : chain[i] = n

(* chain runs from tail to head, without repetition *)
ChainEnds ==
    /\ Len(chain) >= 1
    /\ chain[1] = tail
    /\ chain[Len(chain)] = head
    /\ \A i, j \in 1..Len(chain) : chain[i] = chain[j] => i = j

(* t has exchanged the head and still owes the link out of chain[i] *)
Owes(t, i) ==
    /\ pc[t] = "link"
    /\ prev[t] = chain[i]
    /\ arg[t] = chain[i + 1]

(* every node of the chain points to the next one, or somebody will still *)
(* make it do so; the last one points nowhere                             *)
ChainLinks ==
    /\ next[chain[Len(chain)]] = Null
    /\ \A i \in 1..(Len(chain) - 1) :
          \/ next[chain[i]] = chain[i + 1]
          \/ next[chain[i]] = Null /\ \E t \in Threads : Owes(t, i)

(* who owes a link owes it to a node that has not been retired *)
LinkersInChain ==
    \A t \in Threads : pc[t] = "link" =>
        \E i \in 1..(Len(chain) - 1) : Owes(t, i) /\ next[chain[i]] = Null

(* a node about to be exchanged in is in its pusher's hands alone *)
PushersOwn ==
    /\ \A t \in Threads : pc[t] = "swap" =>
          ~InChain(arg[t]) /\ arg[t] \notin free /\ next[arg[t]] = Null
    /\ \A t, u \in Threads :
          pc[t] \in {"swap", "link"} /\ pc[u] \in {"swap", "link"} /\ t # u
             => arg[t] # arg[u]
    /\ \A p \in Producers : pc[p] \in {"swap", "link"} => arg[p] \in Nodes
    /\ pc[Consumer] \in {"swap", "link"} => arg[Consumer] = Stub

FreeApart == \A n \in free : ~InChain(n)

(* where the consumer is tells what it knows about tail *)
ConsumerKnows ==
    /\ pc[Consumer] \in {"again", "head", "swap", "link", "reread"} => tail # Stub
    /\ pc[Consumer] \in {"link", "reread"} => Len(chain) >= 2

(* a push under way during a pop is remembered, and so is one that made   *)
(* a lone tail stop being alone                                           *)
RacesSeen ==
    /\ pc[Consumer] = "idle" => ~raced
    /\ pc[Consumer] # "idle" /\ (\E p \in Producers : pc[p] = "link") => raced
    /\ pc[Consumer] = "head" => Len(chain) = 1 \/ raced

IInv ==
    /\ TypeOK
    /\ ChainEnds
    /\ ChainLinks
    /\ LinkersInChain
    /\ PushersOwn
    /\ FreeApart
    /\ ConsumerKnows
    /\ RacesSeen

-----------------------------------------------------------------------------
(* Properties *)

(* The write prev->next = n that ends a push never lands in a node that    *)
(* the consumer has already handed out (it may have been freed, or is      *)
(* being pushed again by somebody else).                                   *)
NoWriteToReleasedNode ==
    \A t \in Threads : pc[t] = "link" =>
        /\ prev[t] \notin free
        /\ \A u \in Threads : pc[u] = "swap" => arg[u] # prev[t]

(* A pop that finds the queue without a stub in it and with nothing behind *)
(* the tail pushes the stub: the stub is never pushed while it is queued,  *)
(* which would close the list into a cycle.                                *)
StubPushedOnce ==
    pc[Consumer] = "swap" => ~InChain(Stub)

(* chain without its stub: what the users of the queue see *)
Items(c) ==
    IF \E i \in 1..Len(c) : c[i] = Stub
    THEN LET k == CHOOSE i \in 1..Len(c) : c[i] = Stub
         IN  [i \in 1..(Len(c) - 1) |-> c[IF i < k THEN i ELSE i + 1]]
    ELSE c

Linking == {p \in Producers : pc[p] = "link"}
Popping == pc[Consumer] # "idle"

Fifo == INSTANCE FifoQueue
            WITH queue <- Items(chain), inflight <- Linking, popping <- Popping

(* The list with its stub, its half-done pushes and its split pop behaves  *)
(* as the FIFO queue: order of the exchanges, every node once, and a pop   *)
(* fails only on an empty queue or because a push overlapped it.           *)
RefinesFifo == Fifo!Spec
=============================================================================
