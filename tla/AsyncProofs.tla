----------------------------- MODULE AsyncProofs -----------------------------
(***************************************************************************)
(* Proofs about the asyncs of a loop and the queue they travel in, for any *)
(* set of producers and nodes: Mpscq first, then Async, which extends it.  *)
(***************************************************************************)
EXTENDS Async, TLAPS

-----------------------------------------------------------------------------
(* Mpscq *)

(* What Append and Tail do to the chain, index by index. *)
LEMMA AppendFacts ==
    ASSUME NEW S, NEW c \in Seq(S), NEW x \in S
    PROVE  /\ Append(c, x) \in Seq(S)
           /\ Len(Append(c, x)) = Len(c) + 1
           /\ \A i \in 1..Len(c) : Append(c, x)[i] = c[i]
           /\ Append(c, x)[Len(c) + 1] = x
  OBVIOUS

LEMMA TailFacts ==
    ASSUME NEW S, NEW c \in Seq(S), Len(c) >= 1
    PROVE  /\ Tail(c) \in Seq(S)
           /\ Len(Tail(c)) = Len(c) - 1
           /\ \A i \in 1..(Len(c) - 1) : Tail(c)[i] = c[i + 1]
           /\ Len(c) \in Nat
           /\ \A i \in 1..Len(c) : c[i] \in S
  OBVIOUS

LEMMA InitIInv == Init => IInv
<1> SUFFICES ASSUME Init PROVE IInv
    OBVIOUS
<1> USE MpscqAssumption DEF Init, Threads, AllNodes
<1>1. TypeOK
  <2>1. chain \in Seq(AllNodes)
    OBVIOUS
  <2>2. raced \in BOOLEAN
    OBVIOUS
  <2>3. pc \in [Threads -> ConsumerPC] /\ \A p \in Producers : pc[p] \in ProducerPC
    BY DEF ConsumerPC, ProducerPC
  <2> QED
    BY <2>1, <2>2, <2>3 DEF TypeOK
<1>2. ChainEnds
    BY DEF ChainEnds
<1>3. ChainLinks
    BY DEF ChainLinks
<1>4. LinkersInChain /\ PushersOwn
    BY DEF LinkersInChain, PushersOwn
<1>5. FreeApart
    BY DEF FreeApart, InChain
<1>6. ConsumerKnows /\ RacesSeen
    BY DEF ConsumerKnows, RacesSeen
<1> QED
    BY <1>1, <1>2, <1>3, <1>4, <1>5, <1>6 DEF IInv


(* A producer takes a free node and clears its next. *)
LEMMA PushCallStep ==
    ASSUME IInv, NEW p \in Producers, NEW n \in Nodes, PushCall(p, n)
    PROVE  IInv'
<1> USE MpscqAssumption DEF IInv, PushCall, BeginPush, Goto, Threads, AllNodes
<1>1. TypeOK'
    BY DEF TypeOK, ConsumerPC, ProducerPC
<1>2. ChainEnds'
    BY DEF ChainEnds
<1>3. ~InChain(n)
    BY DEF FreeApart
<1>4. ChainLinks'
    BY <1>3 DEF ChainLinks, ChainEnds, InChain, Owes, TypeOK
<1>5. LinkersInChain'
    BY <1>3 DEF LinkersInChain, InChain, Owes, TypeOK
<1>6. PushersOwn'
    BY <1>3 DEF PushersOwn, LinkersInChain, InChain, Owes, TypeOK
<1>7. FreeApart'
    BY DEF FreeApart, InChain
<1>8. ConsumerKnows' /\ RacesSeen'
    BY DEF ConsumerKnows, RacesSeen, TypeOK
<1> QED
    BY <1>1, <1>2, <1>4, <1>5, <1>6, <1>7, <1>8

(* The exchange appends the node to the chain. *)
LEMMA PushSwapStep ==
    ASSUME IInv, NEW t \in Threads, PushSwap(t)
    PROVE  IInv'
<1> USE MpscqAssumption DEF IInv, PushSwap, Goto, Threads, AllNodes
<1> DEFINE x == arg[t]
           L == Len(chain)
<1>1. /\ x \in AllNodes /\ chain \in Seq(AllNodes) /\ L \in Nat /\ L >= 1
      /\ chain' \in Seq(AllNodes) /\ Len(chain') = L + 1
      /\ \A i \in 1..L : chain'[i] = chain[i]
      /\ chain'[L + 1] = x
    BY AppendFacts DEF TypeOK, ChainEnds
<1>2. \A i \in 1..L : chain[i] # x
    BY DEF PushersOwn, InChain
<1>3. TypeOK'
    BY <1>1 DEF TypeOK, ConsumerPC, ProducerPC
<1> HIDE DEF x, L
<1>4. ChainEnds'
    BY <1>1, <1>2 DEF ChainEnds, x, L
<1>5. ChainLinks'
    BY <1>1, <1>2 DEF ChainLinks, ChainEnds, PushersOwn, Owes, TypeOK, x, L
<1>6. LinkersInChain'
    BY <1>1, <1>2 DEF LinkersInChain, ChainLinks, ChainEnds, Owes, TypeOK, x, L
<1>7. PushersOwn'
    BY <1>1, <1>2 DEF PushersOwn, InChain, TypeOK, x, L
<1>8. FreeApart'
    BY <1>1, <1>2 DEF FreeApart, PushersOwn, InChain, TypeOK, x, L
<1>9. ConsumerKnows'
    BY <1>1 DEF ConsumerKnows, TypeOK, L
<1>10. RacesSeen'
  <2>1. CASE t = Consumer
    <3>1. raced' = raced /\ \A p \in Producers : pc'[p] = pc[p]
      BY <2>1 DEF TypeOK
    <3> QED
      BY <2>1, <3>1 DEF RacesSeen, TypeOK
  <2>2. CASE t # Consumer
    <3>1. pc'[Consumer] = pc[Consumer]
      BY <2>2 DEF TypeOK
    <3>2. CASE pc[Consumer] = "idle"
      BY <2>2, <3>1, <3>2 DEF RacesSeen
    <3>3. CASE pc[Consumer] # "idle"
      BY <2>2, <3>1, <3>3 DEF RacesSeen
    <3> QED
      BY <3>2, <3>3
  <2> QED
    BY <2>1, <2>2
<1> QED
    BY <1>3, <1>4, <1>5, <1>6, <1>7, <1>8, <1>9, <1>10

(* The link is made, in a node that is still in the chain. *)
LEMMA PushLinkStep ==
    ASSUME IInv, NEW t \in Threads, PushLink(t)
    PROVE  IInv'
<1> USE MpscqAssumption DEF IInv, PushLink, Goto, Threads, AllNodes
<1>1. PICK k \in 1..(Len(chain) - 1) : Owes(t, k) /\ next[chain[k]] = Null
    BY DEF LinkersInChain
<1>2. /\ chain \in Seq(AllNodes) /\ Len(chain) \in Nat
      /\ k \in 1..Len(chain) /\ k + 1 \in 1..Len(chain)
      /\ next' = [next EXCEPT ![chain[k]] = chain[k + 1]]
    BY <1>1 DEF TypeOK, Owes
<1>3. TypeOK'
    BY DEF TypeOK, ConsumerPC, ProducerPC
<1>4. ChainEnds'
    BY DEF ChainEnds
<1>5. ChainLinks'
    BY <1>1, <1>2 DEF ChainLinks, ChainEnds, Owes, TypeOK
<1>6. LinkersInChain'
  <2> SUFFICES ASSUME NEW u \in Threads, pc'[u] = "link"
               PROVE  \E i \in 1..(Len(chain) - 1) :
                         Owes(u, i)' /\ next'[chain[i]] = Null
    BY DEF LinkersInChain
  <2>1. u # t /\ pc[u] = "link"
    BY DEF TypeOK
  <2>2. PICK i \in 1..(Len(chain) - 1) : Owes(u, i) /\ next[chain[i]] = Null
    BY <2>1 DEF LinkersInChain
  <2>3. i # k
    BY <1>1, <2>1, <2>2 DEF PushersOwn, Owes
  <2>4. chain[i] # chain[k] /\ chain[i] \in AllNodes
    BY <1>2, <2>3 DEF ChainEnds
  <2>5. next'[chain[i]] = Null
    BY <1>2, <2>2, <2>4 DEF TypeOK
  <2> QED
    BY <2>1, <2>2, <2>5 DEF Owes, TypeOK
<1>7. PushersOwn'
    BY <1>1, <1>2 DEF PushersOwn, InChain, TypeOK
<1>8. FreeApart'
    BY DEF FreeApart, InChain
<1>9. ConsumerKnows' /\ RacesSeen'
    BY DEF ConsumerKnows, RacesSeen, TypeOK
<1> QED
    BY <1>3, <1>4, <1>5, <1>6, <1>7, <1>8, <1>9


(* ReturnTail and PopStubSkip retire the first node of the chain, once its *)
(* link has been made.                                                     *)
LEMMA TailLinked ==
    ASSUME IInv, next[tail] # Null
    PROVE  /\ Len(chain) \in Nat /\ Len(chain) >= 2
           /\ next[tail] = chain[2]
           /\ \A t \in Threads : pc[t] = "link" => prev[t] # tail
           /\ chain[2] \in AllNodes
<1> USE DEF IInv
<1>1. Len(chain) \in Nat /\ Len(chain) >= 2
    BY DEF ChainEnds, ChainLinks, TypeOK
<1>2. next[tail] = chain[2]
    BY <1>1 DEF ChainEnds, ChainLinks
<1>3. ASSUME NEW t \in Threads, pc[t] = "link" PROVE prev[t] # tail
  <2>1. PICK i \in 1..(Len(chain) - 1) : Owes(t, i) /\ next[chain[i]] = Null
    BY <1>3 DEF LinkersInChain
  <2> QED
    BY <2>1 DEF Owes
<1> QED
    BY <1>1, <1>2, <1>3 DEF TypeOK

(* What dropping the first node does to the parts about the chain. *)
LEMMA RetireStep ==
    ASSUME IInv, next[tail] # Null,
           tail' = next[tail], chain' = Tail(chain),
           head' = head, next' = next, arg' = arg, prev' = prev,
           NEW label, pc' = [pc EXCEPT ![Consumer] = label],
           label # "swap", label # "link",
           pc[Consumer] # "swap", pc[Consumer] # "link"
    PROVE  /\ chain' \in Seq(AllNodes) /\ tail' \in AllNodes
           /\ ChainEnds' /\ ChainLinks' /\ LinkersInChain'
           /\ \A n : InChain(n)' <=> InChain(n) /\ n # tail
<1> USE MpscqAssumption DEF IInv, Threads
<1> DEFINE L == Len(chain)
<1>1. /\ L \in Nat /\ L >= 2 /\ next[tail] = chain[2]
      /\ \A t \in Threads : pc[t] = "link" => prev[t] # tail
      /\ chain[2] \in AllNodes
    BY TailLinked
<1>2. /\ chain' \in Seq(AllNodes) /\ Len(chain') = L - 1
      /\ \A i \in 1..(L - 1) : chain'[i] = chain[i + 1]
      /\ \A i \in 1..L : chain[i] \in AllNodes
    BY <1>1, TailFacts DEF TypeOK
<1>3. \A t \in Threads : (pc'[t] = "link" <=> pc[t] = "link")
    BY DEF TypeOK
<1> HIDE DEF L
<1>4. ChainEnds'
    BY <1>1, <1>2 DEF ChainEnds, L
<1>5. ChainLinks'
  <2>1. (next[chain[Len(chain)]] = Null)'
    BY <1>1, <1>2 DEF ChainLinks, L
  <2>2. ASSUME NEW i \in 1..(L - 2)
        PROVE  \/ next'[chain'[i]] = chain'[i + 1]
               \/ next'[chain'[i]] = Null /\ \E t \in Threads : Owes(t, i)'
    <3>1. i + 1 \in 1..(L - 1) /\ chain'[i] = chain[i + 1]
          /\ chain'[i + 1] = chain[i + 1 + 1]
      BY <1>1, <1>2
    <3>2. \/ next[chain[i + 1]] = chain[i + 1 + 1]
          \/ next[chain[i + 1]] = Null /\ \E t \in Threads : Owes(t, i + 1)
      BY <3>1 DEF ChainLinks, L
    <3> QED
      BY <1>3, <3>1, <3>2 DEF Owes
  <2>3. Len(chain') - 1 = L - 2
    BY <1>1, <1>2
  <2> HIDE DEF Owes
  <2> QED
    BY <2>1, <2>2, <2>3 DEF ChainLinks
<1>6. LinkersInChain'
  <2> SUFFICES ASSUME NEW t \in Threads, pc'[t] = "link"
               PROVE  \E i \in 1..(Len(chain') - 1) :
                         Owes(t, i)' /\ next'[chain'[i]] = Null
    BY DEF LinkersInChain
  <2>1. PICK k \in 1..(L - 1) : Owes(t, k) /\ next[chain[k]] = Null
    BY <1>3 DEF LinkersInChain, L
  <2>2. k # 1
    BY <1>1, <1>3, <2>1 DEF Owes, ChainEnds
  <2>3. k - 1 \in 1..(Len(chain') - 1) /\ chain'[k - 1] = chain[k]
        /\ chain'[(k - 1) + 1] = chain[k + 1]
    BY <1>1, <1>2, <2>1, <2>2
  <2> QED
    BY <1>3, <2>1, <2>3 DEF Owes
<1>7. \A n : InChain(n)' <=> InChain(n) /\ n # tail
  <2>1. ASSUME NEW n, InChain(n)' PROVE InChain(n) /\ n # tail
    <3>1. PICK i \in 1..(L - 1) : chain'[i] = n
      BY <1>2, <2>1 DEF InChain
    <3>2. i + 1 \in 1..L /\ chain[i + 1] = n /\ 1 \in 1..L /\ i + 1 # 1
      BY <1>1, <1>2, <3>1
    <3> QED
      BY <3>2 DEF InChain, ChainEnds, L
  <2>2. ASSUME NEW n, InChain(n), n # tail PROVE InChain(n)'
    <3>1. PICK i \in 1..L : chain[i] = n
      BY <2>2 DEF InChain, L
    <3>2. i # 1
      BY <2>2, <3>1 DEF ChainEnds
    <3>3. i - 1 \in 1..(L - 1) /\ chain'[i - 1] = n
      BY <1>1, <1>2, <3>1, <3>2
    <3> QED
      BY <1>2, <3>3 DEF InChain
  <2> QED
    BY <2>1, <2>2
<1> QED
    BY <1>1, <1>2, <1>4, <1>5, <1>6, <1>7


LEMMA OneOrMore ==
    \A k \in Nat : (k >= 1 => k = 1 \/ k >= 2) /\ (k >= 2 => k # 1)
  OBVIOUS

(* A step of pop that changes nothing but where the consumer is. *)
LEMMA PopMoveStep ==
    ASSUME IInv, PopCall \/ PopLast \/ (Pop /\ ReturnNull)
    PROVE  IInv'
<1> USE MpscqAssumption DEF IInv, Threads, AllNodes
<1>1. PICK label \in {"next", "head", "idle"} :
        /\ pc' = [pc EXCEPT ![Consumer] = label]
        /\ UNCHANGED <<head, tail, next, arg, prev, free, chain>>
        /\ ret' \in Nodes \cup {Null}
    BY DEF PopCall, PopLast, Pop, ReturnNull, Goto, TypeOK
<1>2. pc[Consumer] \notin {"swap", "link"}
    BY DEF PopCall, PopLast, AtNode, Pop, ReturnNull, Goto, PopStubNull,
           PopStubSkip, PopTake, PopHeadMoved, PopPushStub, PopTakeLast,
           PopGiveUp, BeginPush, ReturnTail, TypeOK
<1>3. \A t \in Threads : pc[t] \in {"swap", "link"} \/ pc'[t] \in {"swap", "link"}
                          => pc'[t] = pc[t]
    BY <1>1, <1>2 DEF TypeOK
<1>4. raced' \in BOOLEAN
    BY DEF PopCall, PopLast, Pop, ReturnNull, TypeOK
<1>5. TypeOK'
    BY <1>1, <1>4 DEF TypeOK, ConsumerPC, ProducerPC
<1>6. ChainEnds' /\ FreeApart'
    BY <1>1 DEF ChainEnds, FreeApart, InChain
<1>7. ChainLinks'
    BY <1>1, <1>3 DEF ChainLinks, Owes
<1>8. LinkersInChain'
    BY <1>1, <1>3 DEF LinkersInChain, Owes
<1>9. PushersOwn'
    BY <1>1, <1>3 DEF PushersOwn, InChain
<1>10. ConsumerKnows'
    BY <1>1 DEF ConsumerKnows, PopCall, PopLast, AtNode, Pop, ReturnNull, Goto, TypeOK
<1>11. RacesSeen'
  <2>1. CASE PopCall
    BY <2>1 DEF PopCall, Goto, RacesSeen, TypeOK
  <2>2. CASE Pop /\ ReturnNull
    BY <2>2 DEF ReturnNull, Goto, RacesSeen, TypeOK
  <2>3. CASE PopLast
    <3>1. /\ next[tail] = Null /\ pc[Consumer] \in {"next", "again"}
          /\ UNCHANGED <<chain, raced>> /\ pc'[Consumer] = "head"
          /\ \A p \in Producers : pc'[p] = pc[p]
      BY <2>3 DEF PopLast, AtNode, Goto, TypeOK
    <3>2. Len(chain) = 1 \/ \E p \in Producers : pc[p] = "link"
      <4>1. Len(chain) \in Nat /\ Len(chain) >= 1 /\ chain[1] = tail
        BY DEF ChainEnds, TypeOK
      <4>2. CASE Len(chain) >= 2
        <5>1. 1 \in 1..(Len(chain) - 1) /\ 1 + 1 \in 1..Len(chain)
          BY <4>1, <4>2
        <5>2. chain[1 + 1] # Null
          BY <5>1 DEF TypeOK
        <5>3. \E t \in Threads : Owes(t, 1)
          BY <3>1, <4>1, <5>1, <5>2 DEF ChainLinks
        <5> QED
          BY <3>1, <5>3 DEF Owes
      <4>3. Len(chain) = 1 \/ Len(chain) >= 2
        BY <4>1, OneOrMore
      <4> QED
        BY <4>2, <4>3
    <3> QED
      BY <3>1, <3>2 DEF RacesSeen
  <2> QED
    BY <2>1, <2>2, <2>3
<1> QED
    BY <1>5, <1>6, <1>7, <1>8, <1>9, <1>10, <1>11

LEMMA PopStubSkipStep ==
    ASSUME IInv, PopStubSkip
    PROVE  IInv'
<1> USE MpscqAssumption DEF IInv, PopStubSkip, Goto, Threads, AllNodes
<1>1. /\ chain' \in Seq(AllNodes) /\ tail' \in AllNodes
      /\ ChainEnds' /\ ChainLinks' /\ LinkersInChain'
      /\ \A n : InChain(n)' <=> InChain(n) /\ n # tail
    BY RetireStep
<1>2. TypeOK'
    BY <1>1 DEF TypeOK, ConsumerPC, ProducerPC
<1>3. PushersOwn'
    BY <1>1 DEF PushersOwn, TypeOK
<1>4. FreeApart'
    BY <1>1 DEF FreeApart
<1>5. tail' # Stub
    BY <1>1, TailLinked DEF ChainEnds
<1>6. ConsumerKnows' /\ RacesSeen'
    BY <1>5 DEF ConsumerKnows, RacesSeen, TypeOK
<1> QED
    BY <1>1, <1>2, <1>3, <1>4, <1>6

LEMMA ReturnTailStep ==
    ASSUME IInv, PopTake \/ PopTakeLast
    PROVE  IInv'
<1> USE MpscqAssumption DEF IInv, ReturnTail, Goto, Threads, AllNodes
<1>1. ReturnTail /\ next[tail] # Null /\ pc[Consumer] \in {"next", "again", "reread"}
    BY DEF PopTake, PopTakeLast, AtNode
<1>2. tail # Stub
    BY DEF PopTake, PopTakeLast, AtNode, ConsumerKnows
<1>3. /\ chain' \in Seq(AllNodes) /\ tail' \in AllNodes
      /\ ChainEnds' /\ ChainLinks' /\ LinkersInChain'
      /\ \A n : InChain(n)' <=> InChain(n) /\ n # tail
    BY <1>1, RetireStep
<1>4. TypeOK'
    BY <1>1, <1>2, <1>3 DEF TypeOK, ConsumerPC, ProducerPC
<1>5. InChain(tail)
    BY DEF InChain, ChainEnds, TypeOK
<1>6. PushersOwn'
    BY <1>1, <1>3, <1>5 DEF PushersOwn, TypeOK
<1>7. FreeApart'
    BY <1>1, <1>3 DEF FreeApart
<1>8. ConsumerKnows' /\ RacesSeen'
    BY <1>1 DEF ConsumerKnows, RacesSeen, TypeOK
<1> QED
    BY <1>3, <1>4, <1>6, <1>7, <1>8

(* The consumer starts to push the stub, which is not in the chain. *)
LEMMA PopPushStubStep ==
    ASSUME IInv, PopPushStub
    PROVE  IInv'
<1> USE MpscqAssumption DEF IInv, PopPushStub, BeginPush, Goto, Threads, AllNodes
<1>1. Len(chain) = 1 /\ tail # Stub
  <2>1. Len(chain) \in Nat /\ 1 \in 1..Len(chain) /\ Len(chain) \in 1..Len(chain)
    BY DEF ChainEnds, TypeOK
  <2> QED
    BY <2>1 DEF ChainEnds, ConsumerKnows
<1>2. ~InChain(Stub)
    BY <1>1 DEF InChain, ChainEnds
<1>3. TypeOK'
    BY DEF TypeOK, ConsumerPC, ProducerPC
<1>4. ChainEnds' /\ FreeApart'
    BY DEF ChainEnds, FreeApart, InChain
<1>5. ChainLinks'
    BY <1>1, <1>2 DEF ChainLinks, InChain, TypeOK
<1>6. LinkersInChain'
    BY <1>1 DEF LinkersInChain, TypeOK
<1>7. PushersOwn'
  <2>1. pc'[Consumer] = "swap" /\ arg'[Consumer] = Stub /\ Stub \notin free
    BY DEF TypeOK
  <2>2. \A p \in Producers : pc'[p] = pc[p] /\ arg'[p] = arg[p]
    BY DEF TypeOK
  <2>3. \A p \in Producers : pc[p] \in {"swap", "link"} => arg[p] # Stub
    BY DEF PushersOwn
  <2>4. next'[Stub] = Null /\ \A n \in Nodes : next'[n] = next[n]
    BY DEF TypeOK
  <2>5. \A t \in Threads : pc'[t] = "swap" =>
           ~InChain(arg[t])' /\ arg'[t] \notin free' /\ next'[arg'[t]] = Null
    BY <1>2, <2>1, <2>2, <2>4 DEF PushersOwn, InChain
  <2>6. \A t, u \in Threads :
           pc'[t] \in {"swap", "link"} /\ pc'[u] \in {"swap", "link"} /\ t # u
             => arg'[t] # arg'[u]
    BY <2>1, <2>2, <2>3 DEF PushersOwn
  <2> QED
    BY <2>1, <2>2, <2>5, <2>6 DEF PushersOwn
<1>8. ConsumerKnows'
    BY <1>1 DEF ConsumerKnows, TypeOK
<1>9. RacesSeen'
    BY DEF RacesSeen, TypeOK
<1> QED
    BY <1>3, <1>4, <1>5, <1>6, <1>7, <1>8, <1>9

LEMMA StepIInv == IInv /\ [Next]_vars => IInv'
<1> SUFFICES ASSUME IInv, [Next]_vars PROVE IInv'
    OBVIOUS
<1>1. ASSUME NEW p \in Producers, NEW n \in Nodes, PushCall(p, n) PROVE IInv'
    BY <1>1, PushCallStep
<1>2. ASSUME NEW t \in Threads, Push(t) PROVE IInv'
    BY <1>2, PushSwapStep, PushLinkStep DEF Push
<1>3. CASE PopCall \/ PopLast \/ (Pop /\ ReturnNull)
    BY <1>3, PopMoveStep
<1>4. CASE Pop
  <2>1. CASE PopStubNull \/ PopHeadMoved \/ PopGiveUp
    BY <1>4, <2>1, PopMoveStep DEF PopStubNull, PopHeadMoved, PopGiveUp
  <2> QED
    BY <1>3, <1>4, <2>1, PopStubSkipStep, ReturnTailStep, PopPushStubStep DEF Pop
<1>5. CASE UNCHANGED vars
    BY <1>5 DEF vars, IInv, TypeOK, ChainEnds, ChainLinks, LinkersInChain, Owes,
                PushersOwn, FreeApart, InChain, ConsumerKnows, RacesSeen
<1> QED
    BY <1>1, <1>2, <1>3, <1>4, <1>5 DEF Next


(* The list is well formed at every step: chain runs from tail to head,    *)
(* and every link in it has been made or is owed by a thread still inside  *)
(* api_mpscq_push.                                                         *)
THEOREM Invariance == Spec => []IInv
    BY InitIInv, StepIInv, PTL DEF Spec

(* Type correctness: pop never follows a null next and never returns the  *)
(* stub to its caller.                                                     *)
THEOREM TypeCorrect == Spec => []TypeOK
<1>1. IInv => TypeOK
    BY DEF IInv
<1> QED
    BY <1>1, Invariance, PTL

(* No push ever writes into a node the consumer has released. *)
THEOREM NoWriteToReleased == Spec => []NoWriteToReleasedNode
<1>1. IInv => NoWriteToReleasedNode
  <2> SUFFICES ASSUME IInv, NEW t \in Threads, pc[t] = "link"
               PROVE  /\ prev[t] \notin free
                      /\ \A u \in Threads : pc[u] = "swap" => arg[u] # prev[t]
    BY DEF NoWriteToReleasedNode
  <2>1. PICK i \in 1..(Len(chain) - 1) : prev[t] = chain[i]
    BY DEF IInv, LinkersInChain, Owes
  <2>2. InChain(prev[t])
    BY <2>1 DEF InChain, IInv, TypeOK
  <2> QED
    BY <2>2 DEF IInv, FreeApart, PushersOwn
<1> QED
    BY <1>1, Invariance, PTL

(* The stub is never pushed while it is in the list. *)
THEOREM StubOnce == Spec => []StubPushedOnce
<1>1. IInv => StubPushedOnce
    BY DEF IInv, PushersOwn, StubPushedOnce, Threads
<1> QED
    BY <1>1, Invariance, PTL

-----------------------------------------------------------------------------
(* Refinement: the chain without its stub is the queue of FifoQueue. *)

StubAt(c, k) == k \in 1..Len(c) /\ c[k] = Stub

Distinct(c) == \A i, j \in 1..Len(c) : c[i] = c[j] => i = j

LEMMA SeqEq ==
    ASSUME NEW S, NEW a \in Seq(S), NEW b \in Seq(S), Len(a) = Len(b),
           \A i \in 1..Len(a) : a[i] = b[i]
    PROVE  a = b
  OBVIOUS

LEMMA ItemsStub ==
    ASSUME NEW c \in Seq(AllNodes), NEW k, StubAt(c, k), Distinct(c)
    PROVE  /\ Items(c) \in Seq(Nodes)
           /\ Len(Items(c)) = Len(c) - 1
           /\ \A i \in 1..(Len(c) - 1) :
                 Items(c)[i] = c[IF i < k THEN i ELSE i + 1]
<1>1. \E i \in 1..Len(c) : c[i] = Stub
    BY DEF StubAt
<1>2. (CHOOSE i \in 1..Len(c) : c[i] = Stub) = k
    BY DEF StubAt, Distinct
<1>3. Items(c) = [i \in 1..(Len(c) - 1) |-> c[IF i < k THEN i ELSE i + 1]]
    BY <1>1, <1>2 DEF Items
<1>4. Len(c) \in Nat /\ Len(c) - 1 \in Nat /\ k \in 1..Len(c)
    BY DEF StubAt
<1>5. ASSUME NEW i \in 1..(Len(c) - 1)
      PROVE  c[IF i < k THEN i ELSE i + 1] \in Nodes
  <2>1. (IF i < k THEN i ELSE i + 1) \in 1..Len(c)
        /\ (IF i < k THEN i ELSE i + 1) # k
    BY <1>4
  <2> QED
    BY <2>1 DEF StubAt, Distinct, AllNodes
<1>6. Items(c) \in [1..(Len(c) - 1) -> Nodes]
    BY <1>3, <1>5
<1>7. Items(c) \in Seq(Nodes)
    BY <1>4, <1>6
<1>8. Len(Items(c)) = Len(c) - 1
  <2>1. DOMAIN Items(c) = 1..(Len(c) - 1)
    BY <1>6
  <2> QED
    BY <1>4, <1>7, <2>1
<1>9. \A i \in 1..(Len(c) - 1) : Items(c)[i] = c[IF i < k THEN i ELSE i + 1]
    BY <1>3
<1> QED
    BY <1>7, <1>8, <1>9

LEMMA ItemsPlain ==
    ASSUME NEW c \in Seq(AllNodes), \A i \in 1..Len(c) : c[i] # Stub
    PROVE  Items(c) = c /\ c \in Seq(Nodes)
<1>1. Items(c) = c
    BY DEF Items
<1>2. \A i \in 1..Len(c) : c[i] \in Nodes
    BY DEF AllNodes
<1>3. c \in [1..Len(c) -> Nodes] /\ Len(c) \in Nat
    BY <1>2
<1> QED
    BY <1>1, <1>3

LEMMA ItemsType ==
    ASSUME NEW c \in Seq(AllNodes), Distinct(c)
    PROVE  /\ Items(c) \in Seq(Nodes)
           /\ \A i \in 1..Len(Items(c)) : \E j \in 1..Len(c) : Items(c)[i] = c[j]
<1>1. CASE \A i \in 1..Len(c) : c[i] # Stub
    BY <1>1, ItemsPlain
<1>2. ASSUME NEW k \in 1..Len(c), c[k] = Stub
      PROVE  /\ Items(c) \in Seq(Nodes)
             /\ \A i \in 1..Len(Items(c)) : \E j \in 1..Len(c) : Items(c)[i] = c[j]
  <2>1. /\ Items(c) \in Seq(Nodes) /\ Len(Items(c)) = Len(c) - 1 /\ Len(c) \in Nat
        /\ \A i \in 1..(Len(c) - 1) : Items(c)[i] = c[IF i < k THEN i ELSE i + 1]
    BY <1>2, ItemsStub DEF StubAt
  <2>2. \A i \in 1..(Len(c) - 1) : (IF i < k THEN i ELSE i + 1) \in 1..Len(c)
    BY <2>1
  <2> QED
    BY <2>1, <2>2
<1> QED
    BY <1>1, <1>2

(* A node exchanged in is appended to the queue. *)
LEMMA ItemsAppendNode ==
    ASSUME NEW c \in Seq(AllNodes), Distinct(c), NEW x \in Nodes,
           \A i \in 1..Len(c) : c[i] # x
    PROVE  Items(Append(c, x)) = Append(Items(c), x)
<1> DEFINE d == Append(c, x)
<1>0. x \in AllNodes /\ x # Stub
    BY MpscqAssumption DEF AllNodes
<1>1. /\ d \in Seq(AllNodes) /\ Len(c) \in Nat /\ Len(d) = Len(c) + 1
      /\ \A i \in 1..Len(c) : d[i] = c[i]
      /\ d[Len(c) + 1] = x
    BY <1>0, AppendFacts
<1> HIDE DEF d
<1>2. Distinct(d)
    BY <1>1 DEF Distinct
<1>3. CASE \A i \in 1..Len(c) : c[i] # Stub
  <2>1. \A i \in 1..Len(d) : d[i] # Stub
    BY <1>0, <1>1, <1>3
  <2> QED
    BY <1>1, <1>3, <2>1, ItemsPlain DEF d
<1>4. ASSUME NEW k \in 1..Len(c), c[k] = Stub
      PROVE  Items(d) = Append(Items(c), x)
  <2>1. /\ Items(c) \in Seq(Nodes) /\ Len(Items(c)) = Len(c) - 1
        /\ \A i \in 1..(Len(c) - 1) : Items(c)[i] = c[IF i < k THEN i ELSE i + 1]
    BY <1>4, ItemsStub DEF StubAt
  <2>2. StubAt(d, k)
    BY <1>1, <1>4 DEF StubAt
  <2>3. /\ Items(d) \in Seq(Nodes) /\ Len(Items(d)) = Len(c)
        /\ \A i \in 1..Len(c) : Items(d)[i] = d[IF i < k THEN i ELSE i + 1]
    BY <1>1, <1>2, <2>2, ItemsStub, SMTT(30)
  <2>4. /\ Append(Items(c), x) \in Seq(Nodes)
        /\ Len(Append(Items(c), x)) = Len(c)
        /\ \A i \in 1..(Len(c) - 1) : Append(Items(c), x)[i] = Items(c)[i]
        /\ Append(Items(c), x)[Len(c)] = x
    BY <1>1, <2>1, AppendFacts
  <2>5. ASSUME NEW i \in 1..Len(c) PROVE Items(d)[i] = Append(Items(c), x)[i]
    <3>1. CASE i = Len(c)
      BY <1>1, <2>3, <2>4, <3>1
    <3>2. CASE i # Len(c)
      <4>1. i \in 1..(Len(c) - 1) /\ (IF i < k THEN i ELSE i + 1) \in 1..Len(c)
        BY <1>1, <3>2
      <4> QED
        BY <1>1, <2>1, <2>3, <2>4, <4>1
    <3> QED
      BY <3>1, <3>2
  <2> QED
    BY <2>3, <2>4, <2>5, SeqEq, ZenonT(60)
<1> QED
    BY <1>3, <1>4 DEF d

(* The stub pushed by pop is not seen. *)
LEMMA ItemsAppendStub ==
    ASSUME NEW c \in Seq(AllNodes), Distinct(c), \A i \in 1..Len(c) : c[i] # Stub
    PROVE  Items(Append(c, Stub)) = Items(c)
<1> DEFINE d == Append(c, Stub)
<1>1. /\ d \in Seq(AllNodes) /\ Len(c) \in Nat /\ Len(d) = Len(c) + 1
      /\ \A i \in 1..Len(c) : d[i] = c[i]
      /\ d[Len(c) + 1] = Stub
    BY AppendFacts DEF AllNodes
<1> HIDE DEF d
<1>2. Distinct(d)
    BY <1>1 DEF Distinct
<1>3. StubAt(d, Len(c) + 1)
    BY <1>1 DEF StubAt
<1>4. /\ Items(d) \in Seq(Nodes) /\ Len(Items(d)) = Len(c)
      /\ \A i \in 1..Len(c) : Items(d)[i] = d[IF i < Len(c) + 1 THEN i ELSE i + 1]
    BY <1>1, <1>2, <1>3, ItemsStub
<1>5. Items(c) = c /\ c \in Seq(Nodes)
    BY ItemsPlain
<1>6. \A i \in 1..Len(c) : Items(d)[i] = c[i]
    BY <1>1, <1>4
<1> QED
    BY <1>4, <1>5, <1>6, SeqEq DEF d

(* Retiring the stub is not seen either; retiring a node takes the head. *)
LEMMA ItemsTail ==
    ASSUME NEW c \in Seq(AllNodes), Distinct(c), Len(c) >= 1
    PROVE  /\ c[1] = Stub => Items(Tail(c)) = Items(c)
           /\ c[1] # Stub => /\ Items(c) # <<>>
                             /\ Head(Items(c)) = c[1]
                             /\ Items(Tail(c)) = Tail(Items(c))
<1> DEFINE d == Tail(c)
<1>1. /\ d \in Seq(AllNodes) /\ Len(c) \in Nat /\ Len(d) = Len(c) - 1
      /\ \A i \in 1..(Len(c) - 1) : d[i] = c[i + 1]
    BY TailFacts
<1> HIDE DEF d
<1>2. Distinct(d)
    BY <1>1 DEF Distinct
<1>3. CASE c[1] = Stub
  <2>1. \A i \in 1..Len(d) : d[i] # Stub
    BY <1>1, <1>3 DEF Distinct
  <2>2. Items(d) = d /\ d \in Seq(Nodes)
    BY <1>1, <2>1, ItemsPlain
  <2>3. /\ Items(c) \in Seq(Nodes) /\ Len(Items(c)) = Len(c) - 1
        /\ \A i \in 1..(Len(c) - 1) : Items(c)[i] = c[IF i < 1 THEN i ELSE i + 1]
    BY <1>1, <1>3, ItemsStub DEF StubAt
  <2>4. \A i \in 1..(Len(c) - 1) : Items(c)[i] = d[i]
    BY <1>1, <2>3
  <2>5. Items(d) = Items(c)
    BY <1>1, <2>2, <2>3, <2>4, SeqEq
  <2> QED
    BY <1>3, <2>5 DEF d
<1>4. CASE c[1] # Stub /\ \A i \in 1..Len(c) : c[i] # Stub
  <2>1. \A i \in 1..Len(d) : d[i] # Stub
    BY <1>1, <1>4
  <2>2. Items(d) = d /\ Items(c) = c
    BY <1>1, <1>4, <2>1, ItemsPlain
  <2> QED
    BY <1>4, <2>2 DEF d
<1>5. ASSUME c[1] # Stub, NEW k \in 1..Len(c), c[k] = Stub
      PROVE  Items(c) # <<>> /\ Head(Items(c)) = c[1] /\ Items(d) = Tail(Items(c))
  <2>1. k > 1 /\ k \in Nat
    BY <1>5
  <2>2. /\ Items(c) \in Seq(Nodes) /\ Len(Items(c)) = Len(c) - 1
        /\ \A i \in 1..(Len(c) - 1) : Items(c)[i] = c[IF i < k THEN i ELSE i + 1]
    BY <1>5, ItemsStub DEF StubAt
  <2>3. Len(Items(c)) >= 1 /\ Items(c)[1] = c[1]
    BY <1>1, <2>1, <2>2
  <2>4. StubAt(d, k - 1)
    BY <1>1, <1>5, <2>1 DEF StubAt
  <2>5. /\ Items(d) \in Seq(Nodes) /\ Len(Items(d)) = Len(c) - 2
        /\ \A i \in 1..(Len(c) - 2) : Items(d)[i] = d[IF i < k - 1 THEN i ELSE i + 1]
    BY <1>1, <1>2, <2>4, ItemsStub, SMTT(30)
  <2>6. /\ Tail(Items(c)) \in Seq(Nodes)
        /\ Len(Tail(Items(c))) = Len(c) - 2
        /\ \A i \in 1..(Len(c) - 2) : Tail(Items(c))[i] = Items(c)[i + 1]
    BY <1>1, <2>2, <2>3, TailFacts
  <2>7. ASSUME NEW i \in 1..(Len(c) - 2) PROVE Items(d)[i] = Tail(Items(c))[i]
    <3>1. i + 1 \in 1..(Len(c) - 1)
          /\ Items(c)[i + 1] = c[IF i + 1 < k THEN i + 1 ELSE i + 2]
      BY <1>1, <2>2, SMTT(30)
    <3>2. d[IF i < k - 1 THEN i ELSE i + 1] = c[IF i + 1 < k THEN i + 1 ELSE i + 2]
      BY <1>1, <2>1
    <3> QED
      BY <2>5, <2>6, <3>1, <3>2
  <2>8. Items(d) = Tail(Items(c))
    BY <2>5, <2>6, <2>7, SeqEq
  <2> QED
    BY <2>2, <2>3, <2>8
<1> QED
    BY <1>3, <1>4, <1>5 DEF d


(* A lone chain, or a chain whose first link is owed, is all a pop that    *)
(* returns 0 can have met.                                                 *)
LEMMA UnlinkedTail ==
    ASSUME IInv, next[tail] = Null, pc[Consumer] # "link", pc[Consumer] # "idle"
    PROVE  Len(chain) = 1 \/ raced
<1> USE MpscqAssumption DEF IInv
<1>1. Len(chain) \in Nat /\ Len(chain) >= 1 /\ chain[1] = tail
    BY DEF ChainEnds, TypeOK
<1>2. CASE Len(chain) >= 2
  <2>1. 1 \in 1..(Len(chain) - 1) /\ 1 + 1 \in 1..Len(chain)
    BY <1>1, <1>2
  <2>2. chain[1 + 1] # Null
    BY <2>1 DEF TypeOK, AllNodes
  <2>3. PICK t \in Threads : Owes(t, 1)
    BY <1>1, <2>1, <2>2 DEF ChainLinks
  <2>4. t \in Producers /\ pc[t] = "link"
    BY <2>3 DEF Owes, Threads
  <2> QED
    BY <2>4 DEF RacesSeen
<1> QED
    BY <1>1, <1>2, OneOrMore

(* A pop returns 0 only from an empty queue, or when a push overlapped it. *)
LEMMA NullJustified ==
    ASSUME IInv, PopStubNull \/ PopHeadMoved \/ PopGiveUp
    PROVE  Items(chain) = <<>> \/ raced
<1> USE DEF IInv
<1>0. /\ chain \in Seq(AllNodes) /\ Distinct(chain) /\ Len(chain) >= 1
      /\ Len(chain) \in Nat /\ chain[1] = tail
    BY DEF TypeOK, ChainEnds, Distinct
<1>1. (Len(chain) = 1 /\ tail = Stub) \/ raced
  <2>1. CASE PopStubNull
    BY <2>1, UnlinkedTail DEF PopStubNull
  <2>2. CASE PopHeadMoved
    <3>1. Len(chain) # 1
      BY <1>0, <2>2 DEF PopHeadMoved, ChainEnds
    <3> QED
      BY <2>2, <3>1 DEF PopHeadMoved, RacesSeen
  <2>3. CASE PopGiveUp
    <3>1. pc[Consumer] = "reread" /\ next[tail] = Null
      BY <2>3 DEF PopGiveUp
    <3>2. Len(chain) = 1 \/ raced
      BY <3>1, UnlinkedTail
    <3>3. Len(chain) >= 2
      BY <3>1 DEF ConsumerKnows
    <3> QED
      BY <1>0, <3>2, <3>3, OneOrMore
  <2> QED
    BY <2>1, <2>2, <2>3
<1>2. CASE Len(chain) = 1 /\ tail = Stub
  <2>1. Items(chain) \in Seq(Nodes) /\ Len(Items(chain)) = 0
    BY <1>0, <1>2, ItemsStub DEF StubAt
  <2> QED
    BY <2>1
<1> QED
    BY <1>1, <1>2

(* What a step of the list is to the queue. *)
LEMMA PushRefines ==
    ASSUME IInv, NEW t \in Threads, Push(t)
    PROVE  [Fifo!Next]_Fifo!vars
<1> USE MpscqAssumption DEF IInv, Goto, Threads
<1>0. /\ chain \in Seq(AllNodes) /\ Distinct(chain)
      /\ pc \in [Threads -> ConsumerPC]
    BY DEF TypeOK, ChainEnds, Distinct
<1>1. CASE PushSwap(t) /\ t = Consumer
  <2>1. Items(chain') = Items(chain)
    BY <1>0, <1>1, ItemsAppendStub DEF PushSwap, PushersOwn, InChain
  <2>2. Linking' = Linking /\ (Popping' <=> Popping) /\ raced' = raced /\ ret' = ret
    BY <1>0, <1>1 DEF PushSwap, Linking, Popping, TypeOK
  <2> QED
    BY <2>1, <2>2 DEF Fifo!vars
<1>2. CASE PushSwap(t) /\ t # Consumer
  <2>1. /\ t \in Producers /\ pc[t] = "swap" /\ arg[t] \in Nodes
        /\ \A i \in 1..Len(chain) : chain[i] # arg[t]
    BY <1>2 DEF PushSwap, PushersOwn, InChain
  <2>2. Items(chain') = Append(Items(chain), arg[t])
    BY <1>0, <1>2, <2>1, ItemsAppendNode DEF PushSwap
  <2>3. \A i \in 1..Len(Items(chain)) : Items(chain)[i] # arg[t]
    BY <1>0, <2>1, ItemsType
  <2>4. t \notin Linking /\ Linking' = Linking \cup {t}
    BY <1>0, <1>2, <2>1 DEF PushSwap, Linking
  <2>5. Popping' <=> Popping
    BY <1>0, <1>2 DEF PushSwap, Popping
  <2>6. raced' = (raced \/ Popping) /\ ret' = ret
    BY <1>2 DEF PushSwap, Popping
  <2>7. Fifo!Push(t, arg[t])
    BY <2>2, <2>3, <2>4, <2>5, <2>6 DEF Fifo!Push, Popping
  <2> QED
    BY <2>1, <2>7 DEF Fifo!Next
<1>3. CASE PushLink(t) /\ t = Consumer
  <2>1. Linking' = Linking /\ (Popping' <=> Popping)
    BY <1>0, <1>3 DEF PushLink, Linking, Popping
  <2> QED
    BY <1>3, <2>1 DEF PushLink, Fifo!vars
<1>4. CASE PushLink(t) /\ t # Consumer
  <2>1. t \in Linking /\ Linking' = Linking \ {t} /\ (Popping' <=> Popping)
    BY <1>0, <1>4 DEF PushLink, Linking, Popping
  <2>2. Fifo!PushReturn(t)
    BY <1>4, <2>1 DEF PushLink, Fifo!PushReturn, Popping
  <2> QED
    BY <1>4, <2>2 DEF Fifo!Next
<1> QED
    BY <1>1, <1>2, <1>3, <1>4 DEF Push

LEMMA PopRefines ==
    ASSUME IInv, PopCall \/ Pop
    PROVE  [Fifo!Next]_Fifo!vars
<1> USE MpscqAssumption DEF IInv, Goto, Threads
<1>0. /\ chain \in Seq(AllNodes) /\ Distinct(chain) /\ Len(chain) >= 1
      /\ chain[1] = tail /\ pc \in [Threads -> ConsumerPC]
    BY DEF TypeOK, ChainEnds, Distinct
<1>1. CASE PopCall
  <2>1. Linking' = Linking /\ ~Popping /\ Popping'
    BY <1>0, <1>1 DEF PopCall, Linking, Popping
  <2>2. raced' = (Linking # {})
    BY <1>1 DEF PopCall, Linking
  <2>3. Fifo!PopCall
    BY <1>1, <2>1, <2>2 DEF PopCall, Fifo!PopCall, Popping
  <2> QED
    BY <2>3 DEF Fifo!Next
<1>2. CASE PopStubNull \/ PopHeadMoved \/ PopGiveUp
  <2>1. ReturnNull /\ pc[Consumer] # "idle"
    BY <1>2 DEF PopStubNull, PopHeadMoved, PopGiveUp
  <2>2. Linking' = Linking /\ Popping /\ ~Popping'
    BY <1>0, <2>1 DEF ReturnNull, Linking, Popping
  <2>3. Fifo!PopNull
    BY <1>2, <2>1, <2>2, NullJustified DEF ReturnNull, Fifo!PopNull, Popping
  <2> QED
    BY <2>3 DEF Fifo!Next
<1>3. CASE PopTake \/ PopTakeLast
  <2>1. tail # Stub /\ ReturnTail /\ pc[Consumer] # "idle"
    BY <1>3 DEF PopTake, PopTakeLast, AtNode, ConsumerKnows
  <2>2. /\ Items(chain) # <<>> /\ Head(Items(chain)) = tail
        /\ Items(chain') = Tail(Items(chain))
    BY <1>0, <2>1, ItemsTail DEF ReturnTail
  <2>3. Linking' = Linking /\ Popping /\ ~Popping'
    BY <1>0, <2>1 DEF ReturnTail, Linking, Popping
  <2>4. Fifo!PopNode
    BY <2>1, <2>2, <2>3 DEF ReturnTail, Fifo!PopNode, Popping
  <2> QED
    BY <2>4 DEF Fifo!Next
<1>4. CASE PopStubSkip
  <2>1. Items(chain') = Items(chain)
    BY <1>0, <1>4, ItemsTail DEF PopStubSkip
  <2>2. Linking' = Linking /\ (Popping' <=> Popping)
    BY <1>0, <1>4 DEF PopStubSkip, Linking, Popping
  <2> QED
    BY <1>4, <2>1, <2>2 DEF PopStubSkip, Fifo!vars
<1>5. CASE PopLast \/ PopPushStub
  <2>1. Linking' = Linking /\ (Popping' <=> Popping)
    BY <1>0, <1>5 DEF PopLast, AtNode, PopPushStub, BeginPush, Linking, Popping
  <2> QED
    BY <1>5, <2>1 DEF PopLast, PopPushStub, Fifo!vars
<1> QED
    BY <1>1, <1>2, <1>3, <1>4, <1>5 DEF Pop

(* The queue is a FIFO queue whose pop fails only when it may. *)
THEOREM Refinement == Spec => RefinesFifo
<1>1. Init => Fifo!Init
  <2> SUFFICES ASSUME Init PROVE Fifo!Init
    OBVIOUS
  <2>1. chain \in Seq(AllNodes) /\ Len(chain) = 1 /\ chain[1] = Stub
    BY DEF Init, AllNodes
  <2>2. Items(chain) \in Seq(Nodes) /\ Len(Items(chain)) = 0
    BY <2>1, ItemsStub DEF StubAt, Distinct
  <2>3. Linking = {} /\ ~Popping
    BY DEF Init, Linking, Popping, Threads
  <2> QED
    BY <2>2, <2>3 DEF Init, Fifo!Init, Popping
<1>2. IInv /\ [Next]_vars => [Fifo!Next]_Fifo!vars
  <2> SUFFICES ASSUME IInv, [Next]_vars PROVE [Fifo!Next]_Fifo!vars
    OBVIOUS
  <2>1. ASSUME NEW p \in Producers, NEW n \in Nodes, PushCall(p, n)
        PROVE  [Fifo!Next]_Fifo!vars
    <3>1. Linking' = Linking /\ (Popping' <=> Popping)
      BY <2>1, MpscqAssumption
         DEF PushCall, BeginPush, Goto, Linking, Popping, IInv, TypeOK, Threads
    <3> QED
      BY <2>1, <3>1 DEF PushCall, Fifo!vars
  <2>2. CASE UNCHANGED vars
    BY <2>2 DEF vars, Fifo!vars, Linking, Popping
  <2> QED
    BY <2>1, <2>2, PushRefines, PopRefines DEF Next
<1> QED
    BY <1>1, <1>2, Invariance, PTL DEF Spec, RefinesFifo, Fifo!Spec

-----------------------------------------------------------------------------
(* Async *)

(* Every step of Async is a step of the queue, or leaves the queue alone. *)
LEMMA AsyncStepsQueue == [AsyncNext]_allVars => [Next]_vars
<1> SUFFICES ASSUME [AsyncNext]_allVars PROVE [Next]_vars
    OBVIOUS
<1>1. ASSUME NEW p \in Producers, NEW n \in Nodes, Post(p, n) PROVE Next
    BY <1>1 DEF Post, Next
<1>2. ASSUME NEW p \in Producers, PostSwap(p) \/ PostLink(p) PROVE Next
    BY <1>2 DEF PostSwap, PostLink, Next, Push, Threads
<1>3. CASE DrainCall \/ DrainStep \/ DrainStub
    BY <1>3 DEF DrainCall, DrainStep, DrainStub, Next, Threads
<1>4. CASE UNCHANGED vars
    BY <1>4
<1> QED
    BY <1>1, <1>2, <1>3, <1>4 DEF AsyncNext, LoopStep, EventfdWrite, WaitAsync,
       EventfdRead, HandlerDone, OtherDone, WaitOther, Terminate, allVars

(* Who is linking, and whether the consumer is in a pop, after a step of  *)
(* a producer.                                                             *)
LEMMA ProducerStep ==
    ASSUME IInv, NEW p \in Producers, PushSwap(p) \/ PushLink(p)
    PROVE  /\ pc'[Consumer] = pc[Consumer]
           /\ PushSwap(p) => p \in Linking'
           /\ Linking \ {p} \subseteq Linking'
    BY MpscqAssumption DEF PushSwap, PushLink, Goto, Linking, IInv, TypeOK, Threads

(* A pop that ends with 0 ended in one of the three ways it can. *)
LEMMA QueueReturns ==
    ASSUME IInv, Pop, ret' = Null, pc'[Consumer] = "idle"
    PROVE  ReturnNull /\ (PopStubNull \/ PopHeadMoved \/ PopGiveUp)
<1> USE MpscqAssumption DEF IInv, Threads
<1>1. ASSUME ReturnTail, tail # Stub PROVE ret' # Null
    BY <1>1 DEF ReturnTail, TypeOK, AllNodes
<1>2. ~PopTake /\ ~PopTakeLast
    BY <1>1 DEF PopTake, PopTakeLast, AtNode, ConsumerKnows
<1>3. ~PopStubSkip /\ ~PopLast /\ ~PopPushStub
    BY DEF PopStubSkip, PopLast, PopPushStub, BeginPush, Goto, TypeOK
<1> QED
    BY <1>2, <1>3 DEF Pop, PopStubNull, PopHeadMoved, PopGiveUp

LEMMA AsyncStep == AsyncInv /\ [AsyncNext]_allVars => AsyncInv'
<1> SUFFICES ASSUME AsyncInv, [AsyncNext]_allVars PROVE AsyncInv'
    OBVIOUS
<1> USE MpscqAssumption, TaskAssumption DEF AsyncInv
<1>0. IInv' /\ TypeOK'
    BY AsyncStepsQueue, StepIInv DEF IInv
<1>1. ASSUME NEW p \in Producers, NEW n \in Nodes, Post(p, n) PROVE AsyncInv'
  <2>1. /\ pc'[Consumer] = pc[Consumer] /\ Linking' = Linking
        /\ UNCHANGED <<chain, raced, loop, readable, notify, open>>
    BY <1>1 DEF Post, PushCall, BeginPush, Goto, Linking, IInv, TypeOK, Threads, asyncVars
  <2> QED
    BY <1>0, <2>1 DEF AsyncTypeOK, WakeupPending
<1>2. ASSUME NEW p \in Producers, PostSwap(p) PROVE AsyncInv'
  <2>1. /\ pc'[Consumer] = pc[Consumer] /\ p \in Linking'
        /\ UNCHANGED <<loop, readable, notify, open>>
    BY <1>2, ProducerStep DEF PostSwap, asyncVars
  <2>2. WakeupPending'
    BY <2>1 DEF WakeupPending
  <2> QED
    BY <1>0, <2>1, <2>2 DEF AsyncTypeOK
<1>3. ASSUME NEW p \in Producers, PostLink(p) PROVE AsyncInv'
  <2>1. /\ pc'[Consumer] = pc[Consumer] /\ notify' = notify \cup {p}
        /\ UNCHANGED <<chain, raced, loop, readable, open>>
    BY <1>3, ProducerStep DEF PostLink, PushLink
  <2>2. WakeupPending'
    BY <2>1 DEF WakeupPending
  <2> QED
    BY <1>0, <2>1, <2>2 DEF AsyncTypeOK
<1>4. ASSUME NEW p \in Producers, EventfdWrite(p) PROVE AsyncInv'
  <2>1. /\ UNCHANGED <<pc, chain, raced, loop, open>>
        /\ notify' = notify \ {p} /\ readable' = (readable \/ open)
    BY <1>4 DEF EventfdWrite, vars
  <2>2. open => WakeupPending'
    BY <2>1 DEF WakeupPending
  <2>3. readable' \in BOOLEAN
    BY <2>1 DEF AsyncTypeOK
  <2> QED
    BY <1>0, <2>1, <2>2, <2>3 DEF AsyncTypeOK
<1>5. CASE WaitOther \/ WaitAsync
    BY <1>0, <1>5 DEF WaitOther, WaitAsync, vars, AsyncTypeOK, LoopStates,
                      WakeupPending, Linking
<1>6. CASE OtherDone
  <2>1. /\ loop = "other" /\ loop' = "wait" /\ UNCHANGED <<readable, notify, open>>
        /\ UNCHANGED <<pc, chain, raced>>
    BY <1>6 DEF OtherDone, vars
  <2> QED
    BY <1>0, <2>1 DEF AsyncTypeOK, LoopStates, WakeupPending, Linking
<1>7. CASE EventfdRead \/ Terminate
  <2>1. /\ loop \in {"read", "wait"} /\ loop' = "drain" /\ ~readable'
        /\ readable' = FALSE /\ UNCHANGED <<pc, raced, notify>>
    BY <1>7 DEF EventfdRead, Terminate, vars
  <2>3. open' \in BOOLEAN
    BY <1>7 DEF EventfdRead, Terminate, AsyncTypeOK
  <2>2. ~raced
    BY <2>1 DEF IInv, RacesSeen
  <2> QED
    BY <1>0, <2>1, <2>2, <2>3 DEF AsyncTypeOK, LoopStates
<1>8. CASE DrainCall
  <2>1. /\ loop = "drain" /\ UNCHANGED <<loop, readable, notify, open>>
        /\ raced' = (Linking # {}) /\ Linking' = Linking
    BY <1>8 DEF DrainCall, asyncVars, PopCall, Goto, Linking, IInv, TypeOK, Threads
  <2> QED
    BY <1>0, <2>1 DEF AsyncTypeOK, WakeupPending
<1>9. CASE DrainStub
  <2>1. /\ loop = "drain" /\ UNCHANGED <<loop, readable, notify, open, raced>>
        /\ Linking' = Linking
    BY <1>9 DEF DrainStub, asyncVars, Push, PushSwap, PushLink, Goto, Linking,
                IInv, TypeOK, Threads
  <2> QED
    BY <1>0, <2>1 DEF AsyncTypeOK, WakeupPending
<1>10. CASE DrainStep
  <2>1. /\ loop = "drain" /\ Pop /\ loop' = AfterPop
        /\ UNCHANGED <<readable, notify, open>>
    BY <1>10 DEF DrainStep
  <2>2. Linking' = Linking /\ (raced' => raced)
    BY <2>1 DEF Pop, PopStubNull, PopStubSkip, PopTake, PopLast, PopHeadMoved,
                PopPushStub, PopTakeLast, PopGiveUp, ReturnNull, ReturnTail,
                BeginPush, Goto, Linking, IInv, TypeOK, Threads
  <2>3. WakeupPending' <=> WakeupPending
    BY <2>1, <2>2 DEF WakeupPending
  <2>4. loop' \in {"drain", "handle", "wait", "gone"}
        /\ (loop' # "drain" => pc'[Consumer] = "idle")
        /\ (loop' = "wait" => open /\ ret' = Null /\ pc'[Consumer] = "idle")
    BY <2>1 DEF AfterPop
  <2>5. ASSUME loop' = "wait", Items(chain') # <<>> PROVE WakeupPending
    <3>1. open /\ ret' = Null /\ pc'[Consumer] = "idle"
      BY <2>4, <2>5
    <3>2. ReturnNull /\ (PopStubNull \/ PopHeadMoved \/ PopGiveUp)
      BY <2>1, <3>1, QueueReturns
    <3>3. Items(chain) # <<>>
      BY <2>5, <3>2 DEF ReturnNull
    <3> QED
      BY <3>1, <3>2, <3>3, NullJustified
  <2> QED
    BY <1>0, <2>1, <2>2, <2>3, <2>4, <2>5 DEF AsyncTypeOK, LoopStates
<1>11. CASE HandlerDone
  <2>1. /\ loop = "handle" /\ loop' = "drain"
        /\ UNCHANGED <<readable, notify, open, pc, raced>>
    BY <1>11 DEF HandlerDone, vars
  <2> QED
    BY <1>0, <2>1 DEF AsyncTypeOK, LoopStates, WakeupPending, Linking
<1>12. CASE UNCHANGED allVars
    BY <1>0, <1>12 DEF allVars, vars, asyncVars, AsyncTypeOK, WakeupPending, Linking
<1> QED
    BY <1>1, <1>2, <1>3, <1>4, <1>5, <1>6, <1>7, <1>8, <1>9, <1>10, <1>11, <1>12
       DEF AsyncNext, LoopStep

LEMMA AsyncInitInv == AsyncInit => AsyncInv
<1> SUFFICES ASSUME AsyncInit PROVE AsyncInv
    OBVIOUS
<1> USE DEF AsyncInit
<1>1. IInv /\ TypeOK
    BY InitIInv DEF IInv
<1>2. Items(chain) = <<>>
  <2>1. chain \in Seq(AllNodes) /\ Len(chain) = 1 /\ chain[1] = Stub
    BY DEF Init, AllNodes
  <2>2. Items(chain) \in Seq(Nodes) /\ Len(Items(chain)) = 0
    BY <2>1, ItemsStub DEF StubAt, Distinct
  <2> QED
    BY <2>2
<1>3. pc[Consumer] = "idle" /\ raced = FALSE
    BY DEF Init, Threads
<1> QED
    BY <1>1, <1>2, <1>3 DEF AsyncInv, AsyncTypeOK, LoopStates

THEOREM AsyncInvariance == AsyncSpec => []AsyncInv
    BY AsyncInitInv, AsyncStep, PTL DEF AsyncSpec

(* A loop asleep in epoll_wait over a queued node has a wakeup coming:     *)
(* pushing before writing the eventfd, and reading the eventfd before      *)
(* popping, is enough, however the accesses interleave.                    *)
THEOREM NoWakeupLost == AsyncSpec => []NoLostWakeup
<1>1. AsyncInv => NoLostWakeup
    BY DEF AsyncInv, NoLostWakeup
<1> QED
    BY <1>1, AsyncInvariance, PTL

(* A loop that ends has handled every node, except those of pushes that    *)
(* overlap its last pop.                                                   *)
THEOREM LastDrain == AsyncSpec => TerminateDrains
<1>1. AsyncInv /\ [AsyncNext]_allVars
        => [loop # "gone" /\ loop' = "gone" => Items(chain) = <<>> \/ raced]_allVars
  <2> SUFFICES ASSUME AsyncInv, AsyncNext, loop # "gone", loop' = "gone"
               PROVE  Items(chain) = <<>> \/ raced
    OBVIOUS
  <2>1. DrainStep
    BY DEF AsyncNext, LoopStep, Post, PostSwap, PostLink, EventfdWrite, WaitAsync,
           EventfdRead, DrainCall, DrainStub, HandlerDone, OtherDone, WaitOther,
           Terminate, asyncVars
  <2>2. Pop /\ ret' = Null /\ pc'[Consumer] = "idle"
    BY <2>1 DEF DrainStep, AfterPop
  <2> QED
    BY <2>2, QueueReturns, NullJustified DEF AsyncInv
<1> QED
    BY <1>1, AsyncInvariance, PTL DEF AsyncSpec, TerminateDrains
=============================================================================
