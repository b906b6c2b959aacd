------------------------------ MODULE HttpProofs ------------------------------
(***************************************************************************)
(* Proofs about HttpParse, for conversations and read sizes of any length: *)
(* memory is held once, the body is left to be read, and the request has   *)
(* the url and the headers that were sent.                                 *)
(***************************************************************************)
EXTENDS HttpParse, FiniteSetTheorems, SequenceTheorems, TLAPS

-----------------------------------------------------------------------------
(* Induction, over sets of numbers *)

LEMMA Induction ==
    ASSUME NEW S, 0 \in S, \A n \in Nat : n \in S => n + 1 \in S
    PROVE  Nat \subseteq S
<1> SUFFICES ASSUME NEW m \in Nat, m \notin S PROVE FALSE
  OBVIOUS
<1> DEFINE A == S \cap 0..m
<1> DEFINE B == A \ {0}
<1> DEFINE f == [n \in A |-> n + 1]
<1>1. IsFiniteSet(A)
  <2>1. IsFiniteSet(0..m)
    BY FS_Interval
  <2> QED
    BY <2>1, FS_Intersection
<1>2. /\ IsFiniteSet(B) /\ Cardinality(B) = Cardinality(A) - 1
      /\ Cardinality(A) \in Nat
  <2>1. 0 \in A
    OBVIOUS
  <2> HIDE DEF A
  <2>2. IsFiniteSet(B) /\ Cardinality(B) = Cardinality(A) - 1
    BY <1>1, <2>1, FS_RemoveElement
  <2> QED
    BY <1>1, <2>2, FS_CardinalityType
<1>3. f \in [A -> B]
  <2> SUFFICES ASSUME NEW n \in A PROVE n + 1 \in B
    OBVIOUS
  <2>1. n \in Nat /\ n # m /\ n <= m
    OBVIOUS
  <2> QED
    BY <2>1
<1>4. \E x, y \in A : x # y /\ f[x] = f[y]
  <2> HIDE DEF A, B, f
  <2> QED
    BY <1>1, <1>2, <1>3, FS_PigeonHole, Cardinality(B) < Cardinality(A)
<1> QED
  BY <1>4

-----------------------------------------------------------------------------
(* Pointers and lists of headers *)

LEMMA OptionalFacts ==
    ASSUME NEW S
    PROVE  /\ Null \in Optional(S)
           /\ \A x \in S : <<x>> \in Optional(S) /\ <<x>>[1] = x /\ <<x>> # Null
           /\ \A p \in Optional(S) : p # Null => p[1] \in S /\ p = <<p[1]>>
           /\ \A p \in Optional(S) : p \in Seq(S)
<1>1. ASSUME NEW p \in [{1} -> S] PROVE p = <<p[1]>> /\ p[1] \in S
  <2>1. DOMAIN <<p[1]>> = {1} /\ <<p[1]>>[1] = p[1]
    OBVIOUS
  <2> QED
    OBVIOUS
<1>2. ASSUME NEW p \in [{} -> S] PROVE p = Null
  BY DEF Null
<1>3. ASSUME NEW x \in S PROVE <<x>> \in [{1} -> S]
  OBVIOUS
<1>4. <<>> \in [{} -> S]
  OBVIOUS
<1>5. \A p \in Optional(S) : p \in Seq(S)
  <2>1. ASSUME NEW x \in S PROVE <<x>> \in Seq(S)
    OBVIOUS
  <2>2. ASSUME NEW p \in [{1} -> S] PROVE p \in Seq(S)
    BY <1>1, <2>1
  <2>3. Null \in Seq(S)
    BY DEF Null
  <2>4. ASSUME NEW p \in Optional(S) PROVE p \in [{1} -> S] \/ p = Null
    BY <1>2 DEF Optional
  <2> QED
    BY <2>2, <2>3, <2>4
<1>6. \A p \in Optional(S) : p # Null => p[1] \in S /\ p = <<p[1]>>
  BY <1>1, <1>2 DEF Optional
<1>7. \A x \in S : <<x>> \in Optional(S) /\ <<x>>[1] = x /\ <<x>> # Null
  BY <1>3, Zenon DEF Optional, Null
<1> QED
  BY <1>4, <1>5, <1>6, <1>7 DEF Optional, Null

(* A set of places moved on by one, with or without the first place. *)
LEMMA MovedOn ==
    ASSUME NEW n \in Nat, NEW A \in SUBSET (1..n)
    PROVE  /\ IsFiniteSet(A) /\ Cardinality(A) \in Nat
           /\ Cardinality({i \in 2..(n + 1) : i - 1 \in A}) = Cardinality(A)
           /\ Cardinality({1} \cup {i \in 2..(n + 1) : i - 1 \in A}) = Cardinality(A) + 1
<1> DEFINE B == {i \in 2..(n + 1) : i - 1 \in A}
<1> DEFINE f == [a \in A |-> a + 1]
<1>1. IsFiniteSet(A) /\ Cardinality(A) \in Nat
  <2>1. IsFiniteSet(1..n)
    BY FS_Interval
  <2>2. IsFiniteSet(A)
    BY <2>1, FS_Subset
  <2> QED
    BY <2>2, FS_CardinalityType
<1>2. f \in Surjection(A, B) /\ f \in Injection(A, B)
  <2>1. \A a \in A : a \in Int /\ a + 1 \in B
    OBVIOUS
  <2>2. f \in [A -> B]
    BY <2>1
  <2>3. ASSUME NEW b \in B PROVE b - 1 \in A /\ f[b - 1] = b
    OBVIOUS
  <2>4. \A x, y \in A : f[x] = f[y] => x = y
    BY <2>1
  <2> HIDE DEF f, B
  <2>5. f \in Surjection(A, B)
    BY <2>2, <2>3 DEF Surjection
  <2>6. f \in Injection(A, B)
    BY <2>2, <2>4 DEF Injection, IsInjective
  <2> QED
    BY <2>5, <2>6
<1>3. 1 \notin B
  OBVIOUS
<1> HIDE DEF f, B
<1>4. IsFiniteSet(B) /\ Cardinality(B) = Cardinality(A)
  BY <1>1, <1>2, FS_Surjection
<1>5. Cardinality(B \cup {1}) = Cardinality(B) + 1
  BY <1>3, <1>4, FS_AddElement
<1>6. B \cup {1} = {1} \cup B
  OBVIOUS
<1> QED
  BY <1>1, <1>4, <1>5, <1>6 DEF B

(* How much a list of headers holds. *)
LEMMA HeldFacts ==
    ASSUME NEW s \in Seq(Headers)
    PROVE  /\ HeldHeaders(s) \in Nat
           /\ HeldHeaders(<<>>) = 0
           /\ \A h \in Headers : HeldHeaders(<<h>> \o s)
                                    = 1 + Owned(h.name) + Owned(h.value) + HeldHeaders(s)
           /\ \A h \in Headers : HeldHeaders(<<h>>) = 1 + Owned(h.name) + Owned(h.value)
<1>1. ASSUME NEW t \in Seq(Headers)
      PROVE  /\ Named(t) \in SUBSET (1..Len(t)) /\ Valued(t) \in SUBSET (1..Len(t))
             /\ Len(t) \in Nat
             /\ Cardinality(Named(t)) \in Nat /\ Cardinality(Valued(t)) \in Nat
             /\ HeldHeaders(t) \in Nat
  <2>1. /\ Named(t) \in SUBSET (1..Len(t)) /\ Valued(t) \in SUBSET (1..Len(t))
        /\ Len(t) \in Nat
    BY DEF Named, Valued
  <2>2. Cardinality(Named(t)) \in Nat /\ Cardinality(Valued(t)) \in Nat
    BY <2>1, MovedOn
  <2> QED
    BY <2>1, <2>2 DEF HeldHeaders
<1>2. ASSUME NEW t \in Seq(Headers), NEW h \in Headers
      PROVE  HeldHeaders(<<h>> \o t) = 1 + Owned(h.name) + Owned(h.value) + HeldHeaders(t)
  <2> DEFINE u == <<h>> \o t
  <2>1. /\ Len(u) = Len(t) + 1 /\ DOMAIN u = 1..(Len(t) + 1) /\ u[1] = h
        /\ \A i \in 2..(Len(t) + 1) : u[i] = t[i - 1] /\ i - 1 \in 1..Len(t)
        /\ DOMAIN t = 1..Len(t) /\ Len(t) \in Nat
    OBVIOUS
  <2> HIDE DEF u
  <2> DEFINE moved(A) == {i \in 2..(Len(t) + 1) : i - 1 \in A}
  <2> DEFINE first(A) == {1} \cup moved(A)
  <2>2. Named(u) = IF h.name = Null THEN moved(Named(t)) ELSE first(Named(t))
    BY <2>1 DEF Named
  <2>3. Valued(u) = IF h.value = Null THEN moved(Valued(t)) ELSE first(Valued(t))
    BY <2>1 DEF Valued
  <2>4. Owned(h.name) \in Nat /\ Owned(h.value) \in Nat
    BY DEF Owned
  <2>5. /\ Named(t) \in SUBSET (1..Len(t)) /\ Valued(t) \in SUBSET (1..Len(t))
        /\ Cardinality(Named(t)) \in Nat /\ Cardinality(Valued(t)) \in Nat
    BY <1>1
  <2>6. ASSUME NEW A \in SUBSET (1..Len(t))
        PROVE  Cardinality(moved(A)) = Cardinality(A) /\ Cardinality(first(A)) = Cardinality(A) + 1
    BY <2>1, MovedOn
  <2> HIDE DEF moved, first
  <2>7. /\ Cardinality(moved(Named(t))) = Cardinality(Named(t))
        /\ Cardinality(first(Named(t))) = Cardinality(Named(t)) + 1
        /\ Cardinality(moved(Valued(t))) = Cardinality(Valued(t))
        /\ Cardinality(first(Valued(t))) = Cardinality(Valued(t)) + 1
    BY <2>5, <2>6
  <2>8. Cardinality(Named(u)) = Owned(h.name) + Cardinality(Named(t))
    BY <2>2, <2>5, <2>7 DEF Owned
  <2>9. Cardinality(Valued(u)) = Owned(h.value) + Cardinality(Valued(t))
    BY <2>3, <2>5, <2>7 DEF Owned
  <2>10. HeldHeaders(u) = 1 + Owned(h.name) + Owned(h.value) + HeldHeaders(t)
    BY <2>1, <2>8, <2>9, <2>4, <2>5 DEF HeldHeaders
  <2> QED
    BY <2>10 DEF u
<1>3. HeldHeaders(<<>>) = 0
  <2>1. Named(<<>>) = {} /\ Valued(<<>>) = {} /\ Len(<<>>) = 0
    BY DEF Named, Valued
  <2>2. Cardinality({}) = 0
    BY FS_EmptySet
  <2>3. Cardinality(Named(<<>>)) = 0 /\ Cardinality(Valued(<<>>)) = 0
    BY <2>1, <2>2, Zenon
  <2> QED
    BY <2>1, <2>3 DEF HeldHeaders
<1>4. ASSUME NEW h \in Headers
      PROVE  HeldHeaders(<<h>>) = 1 + Owned(h.name) + Owned(h.value)
  <2>1. <<>> \in Seq(Headers) /\ <<h>> \o <<>> = <<h>>
    OBVIOUS
  <2>2. HeldHeaders(<<h>> \o <<>>) = 1 + Owned(h.name) + Owned(h.value) + HeldHeaders(<<>>)
    BY <1>2, <2>1
  <2>3. Owned(h.name) \in Nat /\ Owned(h.value) \in Nat
    BY DEF Owned
  <2>4. HeldHeaders(<<h>>) = HeldHeaders(<<h>> \o <<>>)
    BY <2>1, Zenon
  <2> QED
    BY <1>3, <2>2, <2>3, <2>4
<1> QED
  BY <1>1, <1>2, <1>3, <1>4

-----------------------------------------------------------------------------
(* The callbacks *)

Fits(f) == f.ctx.data # Null => Len(f.ctx.data[1]) < f.ctx.alloc
Balanced(f) == f.allocs = HeldRequest(f.request) + HeldContext(f.ctx)

LEMMA HeldNat ==
    ASSUME NEW r \in Requests, NEW c \in Contexts
    PROVE  /\ HeldUri(r) \in Nat /\ HeldHeaders(r.headers) \in Nat /\ HeldHeaders(r.params) \in Nat
           /\ HeldHeaders(c.header) \in Nat
           /\ HeldRequest(r) \in Nat /\ HeldContext(c) \in Nat
<1>1. r.params \in Seq(Headers) /\ r.headers \in Seq(Headers)
  BY DEF Requests
<1>2. c.header \in Seq(Headers)
  BY OptionalFacts DEF Contexts
<1>3. /\ HeldHeaders(r.headers) \in Nat /\ HeldHeaders(r.params) \in Nat
      /\ HeldHeaders(c.header) \in Nat
  BY <1>1, <1>2, HeldFacts
<1>4. \A p : Owned(p) \in Nat
  BY DEF Owned
<1> QED
  BY <1>3, <1>4 DEF HeldUri, HeldRequest, HeldContext

(* what a callback leaves alone *)
SameOutside(f, g) ==
    /\ g.parser = f.parser /\ g.past = f.past /\ g.ctx.done = f.ctx.done

(* buffer_t has room for the text and its end. *)
LEMMA RoomFor ==
    ASSUME NEW alloc \in Nat, NEW used \in Nat, NEW length \in Nat, used < alloc
    PROVE  LET a == IF alloc - used - 1 >= length THEN alloc ELSE used + 2 * length
           IN  a \in Nat /\ used + length < a
OBVIOUS

LEMMA ConcatEffect ==
    ASSUME NEW f \in Frames, Fits(f), NEW text \in Text
    PROVE  LET g == Concat(f, text)
           IN  /\ g \in Frames /\ Fits(g) /\ SameOutside(f, g)
               /\ g.ctx.data # Null /\ g.allocs = f.allocs + 1 - Owned(f.ctx.data)
               /\ g.request = f.request /\ g.crashed = f.crashed
               /\ g.ctx.state = f.ctx.state /\ g.ctx.header = f.ctx.header
               /\ g.ctx.lastWasValue = f.ctx.lastWasValue
<1> DEFINE g == Concat(f, text)
<1>1. /\ f.ctx \in Contexts /\ f.allocs \in Int /\ Len(text) \in Nat /\ f.ctx.alloc \in Nat
      /\ f.ctx.data \in Pointer
  BY DEF Frames, Contexts, Text
<1>2. CASE f.ctx.data = Null
  <2> DEFINE d == <<text>>
  <2> DEFINE a == Len(text) + 1
  <2> DEFINE n == f.allocs + 1
  <2> DEFINE c == [f.ctx EXCEPT !.data = d, !.alloc = a]
  <2>1. d \in Pointer /\ d[1] = text /\ d # Null
    BY OptionalFacts DEF Pointer
  <2>2. a \in Nat /\ Len(text) < a /\ n \in Int
    BY <1>1
  <2>3. g = [f EXCEPT !.ctx = c, !.allocs = n]
    <3>1. g = [f EXCEPT !.ctx.data = d, !.ctx.alloc = a, !.allocs = n]
      BY <1>2 DEF Concat
    <3> HIDE DEF d, a, n, g
    <3> QED
      BY <1>1, <3>1 DEF Frames, Contexts
  <2> HIDE DEF d, a, n, g
  <2>4. c \in Contexts
    BY <1>1, <2>1, <2>2 DEF Contexts
  <2>5. /\ c.data = d /\ c.alloc = a /\ c.done = f.ctx.done
        /\ c.state = f.ctx.state /\ c.header = f.ctx.header
        /\ c.lastWasValue = f.ctx.lastWasValue
    BY <1>1 DEF Contexts
  <2> HIDE DEF c
  <2>6. g \in Frames
    BY <2>2, <2>3, <2>4 DEF Frames
  <2>7. /\ g.ctx = c /\ g.allocs = n /\ g.parser = f.parser
        /\ g.past = f.past /\ g.request = f.request /\ g.crashed = f.crashed
    BY <2>3 DEF Frames
  <2>8. Fits(g)
    BY <2>1, <2>2, <2>5, <2>7 DEF Fits
  <2>9. g.allocs = f.allocs + 1 - Owned(f.ctx.data)
    BY <1>1, <1>2, <2>7 DEF Owned, n
  <2> QED
    BY <2>1, <2>5, <2>6, <2>7, <2>8, <2>9 DEF SameOutside, g
<1>3. CASE f.ctx.data # Null
  <2> DEFINE used == Len(f.ctx.data[1])
  <2> DEFINE d == <<f.ctx.data[1] \o text>>
  <2> DEFINE a == IF f.ctx.alloc - used - 1 >= Len(text) THEN f.ctx.alloc
                  ELSE used + 2 * Len(text)
  <2> DEFINE c == [f.ctx EXCEPT !.data = d, !.alloc = a]
  <2>1. f.ctx.data[1] \in Text /\ used \in Nat /\ used < f.ctx.alloc
    BY <1>1, <1>3, OptionalFacts DEF Pointer, Fits, Text
  <2>2. /\ f.ctx.data[1] \o text \in Text
        /\ Len(f.ctx.data[1] \o text) = used + Len(text)
    BY <2>1 DEF Text
  <2>3. a \in Nat /\ used + Len(text) < a
    BY <1>1, <2>1, RoomFor
  <2>4. d \in Pointer /\ d[1] = f.ctx.data[1] \o text /\ d # Null
    BY <2>2, OptionalFacts DEF Pointer
  <2>5. g = [f EXCEPT !.ctx = c]
    <3>1. g = [f EXCEPT !.ctx.data = d, !.ctx.alloc = a]
      BY <1>3 DEF Concat
    <3> HIDE DEF d, a, g
    <3> QED
      BY <1>1, <3>1 DEF Frames, Contexts
  <2> HIDE DEF d, a, g
  <2>6. c \in Contexts
    BY <1>1, <2>3, <2>4 DEF Contexts
  <2>7. /\ c.data = d /\ c.alloc = a /\ c.done = f.ctx.done
        /\ c.state = f.ctx.state /\ c.header = f.ctx.header
        /\ c.lastWasValue = f.ctx.lastWasValue
    BY <1>1 DEF Contexts
  <2> HIDE DEF c
  <2>8. g \in Frames
    BY <1>1, <2>5, <2>6 DEF Frames
  <2>9. /\ g.ctx = c /\ g.allocs = f.allocs /\ g.parser = f.parser
        /\ g.past = f.past /\ g.request = f.request /\ g.crashed = f.crashed
    BY <2>5 DEF Frames
  <2>10. Fits(g)
    BY <2>2, <2>3, <2>4, <2>7, <2>9 DEF Fits
  <2>11. g.allocs = f.allocs + 1 - Owned(f.ctx.data)
    BY <1>1, <1>3, <2>9 DEF Owned
  <2> QED
    BY <2>4, <2>7, <2>8, <2>9, <2>10, <2>11 DEF SameOutside, g
<1> QED
  BY <1>2, <1>3

(* The buffer goes to the request, as its url or with the header under way. *)
LEMMA TakeUrlEffect ==
    ASSUME NEW f \in Frames
    PROVE  LET g == TakeBuffer([f EXCEPT !.request.url = f.ctx.data])
           IN  /\ g \in Frames /\ SameOutside(f, g) /\ g.allocs = f.allocs
               /\ g.crashed = f.crashed
               /\ g.request = [f.request EXCEPT !.url = f.ctx.data]
               /\ g.ctx = [f.ctx EXCEPT !.data = Null, !.alloc = 0]
<1> DEFINE d == f.ctx.data
<1> DEFINE r == [f.request EXCEPT !.url = d]
<1> DEFINE c == [f.ctx EXCEPT !.data = Null, !.alloc = 0]
<1> DEFINE g == TakeBuffer([f EXCEPT !.request.url = d])
<1>1. f.ctx \in Contexts /\ f.request \in Requests /\ d \in Pointer /\ Null \in Pointer
  BY OptionalFacts DEF Frames, Contexts, Pointer
<1> HIDE DEF d
<1>2. g = [f EXCEPT !.ctx = c, !.request = r]
  <2>1. g = [[f EXCEPT !.request = r] EXCEPT !.ctx.data = Null, !.ctx.alloc = 0]
    BY <1>1 DEF TakeBuffer, Frames
  <2> QED
    BY <1>1, <2>1 DEF Frames, Contexts
<1>3. c \in Contexts /\ r \in Requests /\ c.done = f.ctx.done
  BY <1>1 DEF Contexts, Requests
<1> HIDE DEF c, r, g
<1>4. g \in Frames
  BY <1>2, <1>3 DEF Frames
<1>5. /\ g.ctx = c /\ g.request = r /\ g.allocs = f.allocs /\ g.parser = f.parser
      /\ g.past = f.past /\ g.crashed = f.crashed
  BY <1>2 DEF Frames
<1> QED
  BY <1>3, <1>4, <1>5 DEF SameOutside, c, r, g, d

LEMMA PushEffect ==
    ASSUME NEW f \in Frames, f.ctx.header # Null
    PROVE  LET g == PushHeader(f)
               h == [f.ctx.header[1] EXCEPT !.value = f.ctx.data]
           IN  /\ g \in Frames /\ SameOutside(f, g) /\ g.allocs = f.allocs
               /\ g.crashed = f.crashed
               /\ h \in Headers /\ h.name = f.ctx.header[1].name /\ h.value = f.ctx.data
               /\ g.request = [f.request EXCEPT !.headers = <<h>> \o f.request.headers]
               /\ g.ctx = [f.ctx EXCEPT !.header = Null, !.data = Null, !.alloc = 0]
<1> DEFINE d == f.ctx.data
<1> DEFINE h == [f.ctx.header[1] EXCEPT !.value = d]
<1> DEFINE s == <<h>> \o f.request.headers
<1> DEFINE r == [f.request EXCEPT !.headers = s]
<1> DEFINE c == [f.ctx EXCEPT !.header = Null, !.data = Null, !.alloc = 0]
<1> DEFINE g == PushHeader(f)
<1>1. /\ f.ctx \in Contexts /\ f.request \in Requests /\ d \in Pointer /\ Null \in Pointer
      /\ Null \in Optional(Headers) /\ f.ctx.header[1] \in Headers
      /\ f.request.headers \in Seq(Headers)
  BY OptionalFacts DEF Frames, Contexts, Requests, Pointer
<1> HIDE DEF d
<1>2. h \in Headers /\ h.name = f.ctx.header[1].name /\ h.value = d
  BY <1>1 DEF Headers
<1> HIDE DEF h
<1>3. s \in Seq(Headers)
  BY <1>1, <1>2
<1>4. g = [f EXCEPT !.ctx = c, !.request = r]
  <2>1. g = TakeBuffer([f EXCEPT !.request.headers = s, !.ctx.header = Null])
    BY <1>1 DEF PushHeader, Frames, Requests, h, d
  <2> HIDE DEF s
  <2>2. [f EXCEPT !.request.headers = s, !.ctx.header = Null]
            = [f EXCEPT !.request = r, !.ctx = [f.ctx EXCEPT !.header = Null]]
    BY <1>1 DEF Frames
  <2>3. g = [[f EXCEPT !.request = r, !.ctx = [f.ctx EXCEPT !.header = Null]]
                EXCEPT !.ctx.data = Null, !.ctx.alloc = 0]
    BY <2>1, <2>2 DEF TakeBuffer
  <2> HIDE DEF r
  <2> QED
    BY <1>1, <2>3 DEF Frames, Contexts
<1> HIDE DEF s
<1>5. c \in Contexts /\ r \in Requests /\ c.done = f.ctx.done
  BY <1>1, <1>3 DEF Contexts, Requests
<1> HIDE DEF c, r, g
<1>6. g \in Frames
  BY <1>4, <1>5 DEF Frames
<1>7. /\ g.ctx = c /\ g.request = r /\ g.allocs = f.allocs /\ g.parser = f.parser
      /\ g.past = f.past /\ g.crashed = f.crashed
  BY <1>4 DEF Frames
<1> QED
  BY <1>2, <1>5, <1>6, <1>7 DEF SameOutside, c, r, g, s, h, d

(* What the context and the request hold together, before the headers are  *)
(* complete.                                                               *)
Collecting(f) ==
    /\ Balanced(f)
    /\ HeldUri(f.request) = 0
    /\ f.ctx.state = "Url" <=> f.ctx.header = Null
    /\ f.ctx.header = Null => f.request.url = Null /\ ~f.ctx.lastWasValue
    /\ f.ctx.header # Null => f.ctx.header[1].value = Null
    /\ f.ctx.header # Null /\ ~f.ctx.lastWasValue => f.ctx.header[1].name = Null

LEMMA TakeUrlHeld ==
    ASSUME NEW f \in Frames, Balanced(f), f.request.url = Null, NEW g \in Frames,
           g.allocs = f.allocs,
           g.request = [f.request EXCEPT !.url = f.ctx.data],
           g.ctx = [f.ctx EXCEPT !.data = Null, !.alloc = 0]
    PROVE  /\ Balanced(g) /\ HeldUri(g.request) = HeldUri(f.request)
           /\ g.ctx.header = f.ctx.header /\ g.ctx.state = f.ctx.state
           /\ g.ctx.lastWasValue = f.ctx.lastWasValue /\ g.ctx.data = Null
<1>1. f.ctx \in Contexts /\ f.request \in Requests
  BY DEF Frames
<1>2. /\ g.request.url = f.ctx.data /\ g.request.headers = f.request.headers
      /\ g.request.schema = f.request.schema /\ g.request.host = f.request.host
      /\ g.request.path = f.request.path /\ g.request.query = f.request.query
      /\ g.request.fragment = f.request.fragment /\ g.request.params = f.request.params
  BY <1>1 DEF Requests
<1>3. /\ g.ctx.header = f.ctx.header /\ g.ctx.state = f.ctx.state
      /\ g.ctx.lastWasValue = f.ctx.lastWasValue /\ g.ctx.data = Null
  BY <1>1 DEF Contexts
<1>4. HeldUri(g.request) = HeldUri(f.request)
  BY <1>2 DEF HeldUri
<1>5. HeldRequest(f.request) = HeldHeaders(f.request.headers) + HeldUri(f.request)
  BY <1>1, HeldNat DEF HeldRequest, Owned
<1>6. HeldRequest(g.request)
          = Owned(f.ctx.data) + HeldHeaders(f.request.headers) + HeldUri(f.request)
  BY <1>2, <1>4 DEF HeldRequest
<1>7. HeldContext(f.ctx) = Owned(f.ctx.data) + HeldHeaders(f.ctx.header)
  BY DEF HeldContext
<1>8. HeldContext(g.ctx) = HeldHeaders(f.ctx.header)
  BY <1>1, <1>3, HeldNat DEF HeldContext, Owned
<1>9. Owned(f.ctx.data) \in Nat
  BY DEF Owned
<1>10. f.allocs = HeldRequest(g.request) + HeldContext(g.ctx)
  BY <1>1, <1>5, <1>6, <1>7, <1>8, <1>9, HeldNat DEF Balanced
<1> QED
  BY <1>3, <1>4, <1>10 DEF Balanced

LEMMA PushHeld ==
    ASSUME NEW f \in Frames, Balanced(f), f.ctx.header # Null,
           f.ctx.header[1].value = Null, NEW h \in Headers, NEW g \in Frames,
           h.name = f.ctx.header[1].name, h.value = f.ctx.data,
           g.allocs = f.allocs,
           g.request = [f.request EXCEPT !.headers = <<h>> \o f.request.headers],
           g.ctx = [f.ctx EXCEPT !.header = Null, !.data = Null, !.alloc = 0]
    PROVE  /\ Balanced(g) /\ HeldUri(g.request) = HeldUri(f.request)
           /\ g.request.url = f.request.url
           /\ g.ctx.header = Null /\ g.ctx.state = f.ctx.state /\ g.ctx.data = Null
           /\ g.ctx.lastWasValue = f.ctx.lastWasValue
<1>1. /\ f.ctx \in Contexts /\ f.request \in Requests /\ f.request.headers \in Seq(Headers)
      /\ f.ctx.header[1] \in Headers /\ f.ctx.header = <<f.ctx.header[1]>>
  BY OptionalFacts DEF Frames, Contexts, Requests
<1>2. /\ g.request.url = f.request.url
      /\ g.request.headers = <<h>> \o f.request.headers
      /\ g.request.schema = f.request.schema /\ g.request.host = f.request.host
      /\ g.request.path = f.request.path /\ g.request.query = f.request.query
      /\ g.request.fragment = f.request.fragment /\ g.request.params = f.request.params
  BY <1>1 DEF Requests
<1>3. /\ g.ctx.header = Null /\ g.ctx.state = f.ctx.state
      /\ g.ctx.lastWasValue = f.ctx.lastWasValue /\ g.ctx.data = Null
  BY <1>1 DEF Contexts
<1>4. HeldUri(g.request) = HeldUri(f.request)
  BY <1>2 DEF HeldUri
<1>5. HeldHeaders(g.request.headers)
          = 1 + Owned(h.name) + Owned(f.ctx.data) + HeldHeaders(f.request.headers)
  BY <1>1, <1>2, HeldFacts
<1>6. HeldHeaders(f.ctx.header) = 1 + Owned(h.name) + 0
  <2>1. HeldHeaders(<<f.ctx.header[1]>>)
            = 1 + Owned(f.ctx.header[1].name) + Owned(f.ctx.header[1].value)
    BY <1>1, HeldFacts
  <2>2. Owned(f.ctx.header[1].value) = 0
    BY DEF Owned
  <2> QED
    BY <1>1, <2>1, <2>2
<1>7. HeldHeaders(g.ctx.header) = 0 /\ Owned(g.ctx.data) = 0
  <2>1. HeldHeaders(<<>>) = 0
    BY <1>1, HeldFacts
  <2> QED
    BY <1>3, <2>1 DEF Null, Owned
<1>8. /\ HeldRequest(f.request)
             = Owned(f.request.url) + HeldHeaders(f.request.headers) + HeldUri(f.request)
      /\ HeldRequest(g.request)
             = Owned(f.request.url) + HeldHeaders(g.request.headers) + HeldUri(f.request)
  BY <1>2, <1>4 DEF HeldRequest
<1>9. /\ HeldContext(f.ctx) = Owned(f.ctx.data) + HeldHeaders(f.ctx.header)
      /\ HeldContext(g.ctx) = 0
  BY <1>7 DEF HeldContext
<1>10. Owned(f.ctx.data) \in Nat /\ Owned(h.name) \in Nat /\ Owned(f.request.url) \in Nat
  BY DEF Owned
<1>11. f.allocs = HeldRequest(g.request) + HeldContext(g.ctx)
  <2>1. /\ HeldHeaders(f.request.headers) \in Nat /\ HeldUri(f.request) \in Nat
        /\ HeldHeaders(f.ctx.header) \in Nat /\ HeldHeaders(g.request.headers) \in Nat
    <3>1. g.request \in Requests
      BY DEF Frames
    <3> QED
      BY <1>1, <3>1, HeldNat
  <2>2. f.allocs = HeldRequest(f.request) + HeldContext(f.ctx)
    BY DEF Balanced
  <2> QED
    BY <1>5, <1>6, <1>8, <1>9, <1>10, <2>1, <2>2, SMTT(60)
<1> QED
  BY <1>2, <1>3, <1>4, <1>11 DEF Balanced

LEMMA ConcatHeld ==
    ASSUME NEW f \in Frames, Fits(f), NEW text \in Text, Collecting(f)
    PROVE  Collecting(Concat(f, text))
<1> DEFINE g == Concat(f, text)
<1>1. /\ g \in Frames /\ g.ctx.data # Null /\ g.allocs = f.allocs + 1 - Owned(f.ctx.data)
      /\ g.request = f.request /\ g.ctx.state = f.ctx.state
      /\ g.ctx.header = f.ctx.header /\ g.ctx.lastWasValue = f.ctx.lastWasValue
  BY ConcatEffect
<1> HIDE DEF g
<1>2. f.ctx \in Contexts /\ f.request \in Requests
  BY DEF Frames
<1>3. /\ HeldContext(f.ctx) = Owned(f.ctx.data) + HeldHeaders(f.ctx.header)
      /\ HeldContext(g.ctx) = 1 + HeldHeaders(f.ctx.header)
  BY <1>1 DEF HeldContext, Owned
<1>4. Owned(f.ctx.data) \in Nat
  BY DEF Owned
<1>5. g.allocs = HeldRequest(g.request) + HeldContext(g.ctx)
  BY <1>1, <1>2, <1>3, <1>4, HeldNat DEF Balanced, Collecting
<1> QED
  BY <1>1, <1>5 DEF Collecting, Balanced, g

LEMMA OnUrlEffect ==
    ASSUME NEW f \in Frames, Fits(f), NEW text \in Text
    PROVE  LET g == OnUrl(f, text)
           IN  /\ g \in Frames /\ Fits(g) /\ SameOutside(f, g)
               /\ g.request = f.request /\ g.crashed = f.crashed
               /\ g.ctx.header = f.ctx.header /\ g.ctx.state = "Url" /\ g.ctx.data # Null
               /\ Collecting(f) /\ f.ctx.header = Null => Collecting(g)
<1> DEFINE e == [f EXCEPT !.ctx.state = "Url"]
<1>1. f.ctx \in Contexts
  BY DEF Frames
<1>2. e \in Frames /\ e.parser = f.parser /\ e.past = f.past /\ e.request = f.request
      /\ e.allocs = f.allocs /\ e.crashed = f.crashed
  BY <1>1 DEF Frames, Contexts
<1>3. /\ e.ctx.state = "Url" /\ e.ctx.header = f.ctx.header /\ e.ctx.data = f.ctx.data
      /\ e.ctx.alloc = f.ctx.alloc /\ e.ctx.lastWasValue = f.ctx.lastWasValue
      /\ e.ctx.done = f.ctx.done
  BY <1>1 DEF Frames, Contexts
<1>4. OnUrl(f, text) = Concat(e, text)
  BY DEF OnUrl
<1> HIDE DEF e
<1>5. Fits(e)
  BY <1>3 DEF Fits
<1>6. /\ Concat(e, text) \in Frames /\ Fits(Concat(e, text)) /\ SameOutside(e, Concat(e, text))
      /\ Concat(e, text).ctx.header = e.ctx.header
      /\ Concat(e, text).ctx.state = e.ctx.state /\ Concat(e, text).ctx.data # Null
      /\ Concat(e, text).request = e.request /\ Concat(e, text).crashed = e.crashed
  BY <1>2, <1>5, ConcatEffect
<1>7. ASSUME Collecting(f), f.ctx.header = Null PROVE Collecting(e)
  <2>1. HeldContext(e.ctx) = HeldContext(f.ctx)
    BY <1>3 DEF HeldContext
  <2>2. Balanced(e)
    BY <1>2, <1>7, <2>1 DEF Collecting, Balanced
  <2> QED
    BY <1>2, <1>3, <1>7, <2>2 DEF Collecting
<1>8. Collecting(f) /\ f.ctx.header = Null => Collecting(Concat(e, text))
  BY <1>2, <1>5, <1>7, ConcatHeld
<1> QED
  BY <1>2, <1>3, <1>4, <1>6, <1>8 DEF SameOutside

(* Collecting, up to the state of the context and to the url. *)
Holding(f) ==
    /\ Balanced(f)
    /\ HeldUri(f.request) = 0
    /\ f.ctx.header = Null => ~f.ctx.lastWasValue
    /\ f.ctx.header # Null => f.ctx.header[1].value = Null
    /\ f.ctx.header # Null /\ ~f.ctx.lastWasValue => f.ctx.header[1].name = Null

LEMMA TakeUrlStep ==
    ASSUME NEW f \in Frames, Fits(f)
    PROVE  LET g == IF f.ctx.state = "Url"
                    THEN TakeBuffer([f EXCEPT !.request.url = f.ctx.data]) ELSE f
           IN  /\ g \in Frames /\ Fits(g) /\ SameOutside(f, g) /\ g.crashed = f.crashed
               /\ g.ctx.header = f.ctx.header /\ g.ctx.lastWasValue = f.ctx.lastWasValue
               /\ g.request.url = IF f.ctx.state = "Url" THEN f.ctx.data ELSE f.request.url
               /\ Collecting(f) => Holding(g)
<1>1. CASE f.ctx.state = "Url"
  <2> DEFINE g == TakeBuffer([f EXCEPT !.request.url = f.ctx.data])
  <2>1. /\ g \in Frames /\ SameOutside(f, g) /\ g.allocs = f.allocs
        /\ g.crashed = f.crashed
        /\ g.request = [f.request EXCEPT !.url = f.ctx.data]
        /\ g.ctx = [f.ctx EXCEPT !.data = Null, !.alloc = 0]
    BY TakeUrlEffect
  <2> HIDE DEF g
  <2>2. f.ctx \in Contexts /\ f.request \in Requests
    BY DEF Frames
  <2>3. /\ g.request.url = f.ctx.data
        /\ g.ctx.header = f.ctx.header /\ g.ctx.data = Null
        /\ g.ctx.lastWasValue = f.ctx.lastWasValue
    BY <2>1, <2>2 DEF Contexts, Requests
  <2>4. Collecting(f) => Balanced(g) /\ HeldUri(g.request) = HeldUri(f.request)
    BY <1>1, <2>1, TakeUrlHeld DEF Collecting
  <2>5. Collecting(f) => Holding(g)
    BY <2>3, <2>4 DEF Collecting, Holding
  <2> QED
    BY <1>1, <2>1, <2>3, <2>5 DEF Fits, g
<1>2. CASE f.ctx.state # "Url"
  BY <1>2 DEF Collecting, Holding, SameOutside
<1> QED
  BY <1>1, <1>2

LEMMA PushStep ==
    ASSUME NEW f \in Frames, f.ctx.header # Null
    PROVE  LET g == [PushHeader(f) EXCEPT !.ctx.lastWasValue = FALSE]
           IN  /\ g \in Frames /\ Fits(g) /\ SameOutside(f, g) /\ g.crashed = f.crashed
               /\ g.ctx.header = Null /\ g.ctx.lastWasValue = FALSE
               /\ g.request.url = f.request.url
               /\ Holding(f) => Holding(g)
<1> DEFINE e == PushHeader(f)
<1> DEFINE h == [f.ctx.header[1] EXCEPT !.value = f.ctx.data]
<1> DEFINE g == [e EXCEPT !.ctx.lastWasValue = FALSE]
<1>1. /\ e \in Frames /\ SameOutside(f, e) /\ e.allocs = f.allocs
      /\ e.crashed = f.crashed
      /\ h \in Headers /\ h.name = f.ctx.header[1].name /\ h.value = f.ctx.data
      /\ e.request = [f.request EXCEPT !.headers = <<h>> \o f.request.headers]
      /\ e.ctx = [f.ctx EXCEPT !.header = Null, !.data = Null, !.alloc = 0]
  BY PushEffect
<1> HIDE DEF e, h
<1>2. f.ctx \in Contexts /\ e.ctx \in Contexts /\ f.request \in Requests
  BY <1>1 DEF Frames
<1>3. e.ctx.header = Null /\ e.ctx.data = Null /\ e.request.url = f.request.url
  BY <1>1, <1>2 DEF Contexts, Requests
<1>4. /\ g \in Frames /\ g.parser = e.parser /\ g.past = e.past /\ g.crashed = e.crashed
      /\ g.request = e.request /\ g.allocs = e.allocs
  BY <1>1, <1>2 DEF Frames, Contexts
<1>5. /\ g.ctx.header = e.ctx.header /\ g.ctx.data = e.ctx.data /\ g.ctx.done = e.ctx.done
      /\ g.ctx.lastWasValue = FALSE
  BY <1>1, <1>2 DEF Frames, Contexts
<1> HIDE DEF g
<1>6. ASSUME Holding(f) PROVE Holding(g)
  <2>1. Balanced(e) /\ HeldUri(e.request) = HeldUri(f.request)
    BY <1>1, <1>6, PushHeld, ZenonT(60) DEF Holding
  <2>2. HeldContext(g.ctx) = HeldContext(e.ctx)
    BY <1>5 DEF HeldContext
  <2>3. Balanced(g)
    BY <1>4, <2>1, <2>2 DEF Balanced
  <2> QED
    BY <1>3, <1>4, <1>5, <1>6, <2>1, <2>3 DEF Holding
<1> QED
  BY <1>1, <1>3, <1>4, <1>5, <1>6 DEF SameOutside, Fits, g, e

LEMMA NewHeaderStep ==
    ASSUME NEW f \in Frames, Fits(f), f.ctx.header = Null
    PROVE  LET g == [f EXCEPT !.ctx.header = <<[name |-> Null, value |-> Null]>>,
                              !.allocs = @ + 1]
           IN  /\ g \in Frames /\ Fits(g) /\ SameOutside(f, g) /\ g.crashed = f.crashed
               /\ g.ctx.header # Null /\ g.ctx.lastWasValue = f.ctx.lastWasValue
               /\ g.request = f.request
               /\ Holding(f) => Holding(g)
<1> DEFINE h == [name |-> Null, value |-> Null]
<1> DEFINE p == <<h>>
<1> DEFINE n == f.allocs + 1
<1> DEFINE g == [f EXCEPT !.ctx.header = p, !.allocs = n]
<1>1. h \in Headers /\ h.name = Null /\ h.value = Null
  BY OptionalFacts DEF Headers, Pointer
<1> HIDE DEF h
<1>2. p \in Optional(Headers) /\ p # Null /\ p[1] = h
  BY <1>1, OptionalFacts
<1>3. n \in Int /\ f.ctx \in Contexts /\ f.request \in Requests /\ f.allocs \in Int
  BY DEF Frames
<1>4. HeldHeaders(p) = 1
  <2>1. HeldHeaders(p) = 1 + Owned(h.name) + Owned(h.value)
    <3>1. <<>> \in Seq(Headers)
      OBVIOUS
    <3> QED
      BY <1>1, <3>1, HeldFacts
  <2> QED
    BY <1>1, <2>1 DEF Owned
<1> HIDE DEF p, n
<1>5. /\ g \in Frames /\ g.parser = f.parser /\ g.past = f.past /\ g.crashed = f.crashed
      /\ g.request = f.request /\ g.allocs = n
  BY <1>2, <1>3 DEF Frames, Contexts
<1>6. /\ g.ctx.header = p /\ g.ctx.data = f.ctx.data /\ g.ctx.done = f.ctx.done
      /\ g.ctx.lastWasValue = f.ctx.lastWasValue /\ g.ctx.alloc = f.ctx.alloc
  BY <1>3 DEF Frames, Contexts
<1> HIDE DEF g
<1>7. ASSUME Holding(f) PROVE Holding(g)
  <2>1. HeldHeaders(f.ctx.header) = 0
    <3>1. <<>> \in Seq(Headers)
      OBVIOUS
    <3> QED
      BY <3>1, HeldFacts DEF Null
  <2>2. HeldContext(f.ctx) = Owned(f.ctx.data) /\ HeldContext(g.ctx) = Owned(f.ctx.data) + 1
    <3>1. Owned(f.ctx.data) \in Nat
      BY DEF Owned
    <3> QED
      BY <1>4, <1>6, <2>1, <3>1 DEF HeldContext
  <2>3. HeldRequest(f.request) \in Nat /\ Owned(f.ctx.data) \in Nat
    BY <1>3, HeldNat DEF Owned
  <2>4. f.allocs = HeldRequest(f.request) + HeldContext(f.ctx)
    BY <1>7 DEF Holding, Balanced
  <2>5. g.allocs = HeldRequest(g.request) + HeldContext(g.ctx)
    BY <1>5, <2>2, <2>3, <2>4 DEF n
  <2> QED
    BY <1>1, <1>2, <1>5, <1>6, <1>7, <2>5 DEF Holding, Balanced
<1>8. Fits(g)
  BY <1>6 DEF Fits
<1> QED
  BY <1>2, <1>5, <1>6, <1>7, <1>8 DEF SameOutside, g, p, h, n

LEMMA OnHeaderFieldEffect ==
    ASSUME NEW f \in Frames, Fits(f), NEW text \in Text
    PROVE  LET g == OnHeaderField(f, text)
           IN  /\ g \in Frames /\ Fits(g) /\ SameOutside(f, g)
               /\ \/ g.crashed
                  \/ /\ g.ctx.header # Null /\ g.ctx.state = "HeaderName"
                     /\ g.request.url = IF f.ctx.state = "Url" THEN f.ctx.data ELSE f.request.url
               /\ Collecting(f) => Collecting(g) /\ g.crashed = f.crashed
<1> DEFINE f1 == IF f.ctx.state = "Url"
                 THEN TakeBuffer([f EXCEPT !.request.url = f.ctx.data]) ELSE f
<1> DEFINE f2 == IF f.ctx.lastWasValue /\ f.ctx.header # Null
                 THEN [PushHeader(f1) EXCEPT !.ctx.lastWasValue = FALSE] ELSE f1
<1> DEFINE f3 == IF f2.ctx.header = Null
                 THEN [f2 EXCEPT !.ctx.header = <<[name |-> Null, value |-> Null]>>,
                                 !.allocs = @ + 1]
                 ELSE f2
<1> DEFINE e == [f3 EXCEPT !.ctx.state = "HeaderName"]
<1>1. OnHeaderField(f, text) = IF f.ctx.lastWasValue /\ f.ctx.header = Null
                               THEN [f EXCEPT !.crashed = TRUE] ELSE Concat(e, text)
  BY DEF OnHeaderField
<1>2. /\ f1 \in Frames /\ Fits(f1) /\ SameOutside(f, f1) /\ f1.crashed = f.crashed
      /\ f1.ctx.header = f.ctx.header /\ f1.ctx.lastWasValue = f.ctx.lastWasValue
      /\ f1.request.url = IF f.ctx.state = "Url" THEN f.ctx.data ELSE f.request.url
      /\ Collecting(f) => Holding(f1)
  BY TakeUrlStep
<1> HIDE DEF f1
<1>3. /\ f2 \in Frames /\ Fits(f2) /\ SameOutside(f1, f2) /\ f2.crashed = f1.crashed
      /\ f2.request.url = f1.request.url
      /\ Holding(f1) => Holding(f2)
  <2>1. CASE f.ctx.lastWasValue /\ f.ctx.header # Null
    BY <1>2, <2>1, PushStep
  <2>2. CASE ~(f.ctx.lastWasValue /\ f.ctx.header # Null)
    BY <1>2, <2>2 DEF SameOutside
  <2> QED
    BY <2>1, <2>2
<1> HIDE DEF f2
<1>4. /\ f3 \in Frames /\ Fits(f3) /\ SameOutside(f2, f3) /\ f3.crashed = f2.crashed
      /\ f3.request.url = f2.request.url
      /\ f3.ctx.header # Null /\ (Holding(f2) => Holding(f3))
  <2>1. CASE f2.ctx.header = Null
    BY <1>3, <2>1, NewHeaderStep
  <2>2. CASE f2.ctx.header # Null
    BY <1>3, <2>2 DEF SameOutside
  <2> QED
    BY <2>1, <2>2
<1> HIDE DEF f3
<1>5. f3.ctx \in Contexts
  BY <1>4 DEF Frames
<1>6. /\ e \in Frames /\ e.parser = f3.parser /\ e.past = f3.past /\ e.request = f3.request
      /\ e.allocs = f3.allocs /\ e.crashed = f3.crashed
  BY <1>4, <1>5 DEF Frames, Contexts
<1>7. /\ e.ctx.state = "HeaderName" /\ e.ctx.header = f3.ctx.header
      /\ e.ctx.data = f3.ctx.data /\ e.ctx.alloc = f3.ctx.alloc
      /\ e.ctx.lastWasValue = f3.ctx.lastWasValue /\ e.ctx.done = f3.ctx.done
  BY <1>4, <1>5 DEF Frames, Contexts
<1> HIDE DEF e
<1>8. Fits(e)
  BY <1>4, <1>7 DEF Fits
<1>9. ASSUME Collecting(f) PROVE Collecting(e)
  <2>1. Holding(f3)
    BY <1>2, <1>3, <1>4, <1>9
  <2>2. HeldContext(e.ctx) = HeldContext(f3.ctx)
    BY <1>7 DEF HeldContext
  <2>3. Balanced(e)
    BY <1>6, <2>1, <2>2 DEF Holding, Balanced
  <2> QED
    BY <1>4, <1>6, <1>7, <2>1, <2>3 DEF Holding, Collecting
<1>10. /\ Concat(e, text) \in Frames /\ Fits(Concat(e, text))
       /\ SameOutside(e, Concat(e, text)) /\ Concat(e, text).crashed = e.crashed
       /\ Concat(e, text).ctx.header = e.ctx.header /\ Concat(e, text).request = e.request
       /\ Concat(e, text).ctx.state = e.ctx.state
  BY <1>6, <1>8, ConcatEffect
<1>11. Collecting(f) => Collecting(Concat(e, text))
  BY <1>6, <1>8, <1>9, ConcatHeld
<1>12. CASE f.ctx.lastWasValue /\ f.ctx.header = Null
  <2> DEFINE g == [f EXCEPT !.crashed = TRUE]
  <2>1. g \in Frames /\ g.parser = f.parser /\ g.past = f.past /\ g.ctx = f.ctx
        /\ g.crashed
    BY DEF Frames
  <2>2. ~Collecting(f)
    BY <1>12 DEF Collecting
  <2> QED
    BY <1>1, <1>12, <2>1, <2>2 DEF SameOutside, Fits
<1>13. CASE ~(f.ctx.lastWasValue /\ f.ctx.header = Null)
  <2>1. OnHeaderField(f, text) = Concat(e, text)
    BY <1>1, <1>13
  <2>2. SameOutside(f, Concat(e, text))
    BY <1>2, <1>3, <1>4, <1>6, <1>7, <1>10 DEF SameOutside
  <2> QED
    BY <1>2, <1>3, <1>4, <1>6, <1>7, <1>10, <1>11, <2>1, <2>2
<1> QED
  BY <1>12, <1>13

(* The buffer becomes the name of the header under way, if there is one. *)
LEMMA NameHeader ==
    ASSUME NEW p \in Optional(Headers), NEW d \in Pointer
    PROVE  LET q == [p EXCEPT ![1].name = d]
           IN  /\ q \in Optional(Headers) /\ (q = Null <=> p = Null)
               /\ p # Null => q[1].name = d /\ q[1].value = p[1].value
<1> DEFINE q == [p EXCEPT ![1].name = d]
<1>1. CASE p = Null
  <2>1. q = <<>>
    BY <1>1 DEF Null
  <2> QED
    BY <1>1, <2>1, OptionalFacts DEF Null
<1>2. CASE p # Null
  <2> DEFINE h == p[1]
  <2> DEFINE k == [h EXCEPT !.name = d]
  <2>1. h \in Headers /\ p = <<h>>
    BY <1>2, OptionalFacts
  <2> HIDE DEF h
  <2>2. k \in Headers /\ k.name = d /\ k.value = h.value
    BY <2>1 DEF Headers
  <2>3. q = [<<h>> EXCEPT ![1] = [h EXCEPT !.name = d]]
    BY <2>1
  <2>4. q = <<k>>
    BY <2>3
  <2> HIDE DEF q, k
  <2>5. <<k>> \in Optional(Headers) /\ <<k>> # Null /\ <<k>>[1] = k
    BY <2>2, OptionalFacts
  <2> QED
    BY <1>2, <2>2, <2>4, <2>5 DEF q, h
<1> QED
  BY <1>1, <1>2

LEMMA NameStep ==
    ASSUME NEW f \in Frames, Fits(f)
    PROVE  LET g == TakeBuffer([f EXCEPT !.ctx.header[1].name = f.ctx.data])
           IN  /\ g \in Frames /\ Fits(g) /\ SameOutside(f, g)
               /\ g.request = f.request /\ g.ctx.state = f.ctx.state /\ g.crashed = f.crashed
               /\ (g.ctx.header = Null <=> f.ctx.header = Null)
               /\ Collecting(f) /\ f.ctx.header # Null /\ ~f.ctx.lastWasValue
                      => Balanced(g) /\ g.ctx.header[1].value = Null
<1> DEFINE d == f.ctx.data
<1> DEFINE p == f.ctx.header
<1> DEFINE q == [p EXCEPT ![1].name = d]
<1> DEFINE c == [f.ctx EXCEPT !.header = q, !.data = Null, !.alloc = 0]
<1> DEFINE g == TakeBuffer([f EXCEPT !.ctx.header[1].name = d])
<1>1. /\ f.ctx \in Contexts /\ d \in Pointer /\ Null \in Pointer /\ p \in Optional(Headers)
      /\ f.request \in Requests
  BY OptionalFacts DEF Frames, Contexts, Pointer
<1>2. /\ q \in Optional(Headers) /\ (q = Null <=> p = Null)
      /\ p # Null => q[1].name = d /\ q[1].value = p[1].value
  BY <1>1, NameHeader
<1>3. [f EXCEPT !.ctx.header[1].name = d] = [f EXCEPT !.ctx.header = q]
  BY <1>1 DEF Frames, Contexts
<1> HIDE DEF d, q
<1>4. g = [f EXCEPT !.ctx = c]
  <2>1. g = [[f EXCEPT !.ctx.header = q] EXCEPT !.ctx.data = Null, !.ctx.alloc = 0]
    BY <1>3 DEF TakeBuffer
  <2> QED
    BY <1>1, <2>1 DEF Frames, Contexts
<1>5. /\ c \in Contexts /\ c.done = f.ctx.done /\ c.header = q /\ c.data = Null
      /\ c.state = f.ctx.state
  BY <1>1, <1>2 DEF Contexts
<1> HIDE DEF c, g
<1>6. /\ g \in Frames /\ g.ctx = c /\ g.parser = f.parser /\ g.past = f.past
      /\ g.request = f.request /\ g.allocs = f.allocs /\ g.crashed = f.crashed
  BY <1>4, <1>5 DEF Frames
<1>7. ASSUME Collecting(f), p # Null, ~f.ctx.lastWasValue
      PROVE  Balanced(g) /\ g.ctx.header[1].value = Null
  <2>1. p[1].name = Null /\ p[1].value = Null /\ p[1] \in Headers /\ p = <<p[1]>>
    BY <1>1, <1>7, OptionalFacts DEF Collecting
  <2>2. q[1].name = d /\ q[1].value = Null /\ q[1] \in Headers /\ q = <<q[1]>>
    BY <1>2, <1>7, <2>1, OptionalFacts
  <2>3. <<>> \in Seq(Headers)
    OBVIOUS
  <2>4. /\ HeldHeaders(<<p[1]>>) = 1 + Owned(p[1].name) + Owned(p[1].value)
        /\ HeldHeaders(<<q[1]>>) = 1 + Owned(q[1].name) + Owned(q[1].value)
    BY <2>1, <2>2, <2>3, HeldFacts
  <2>5. HeldHeaders(p) = 1 /\ HeldHeaders(q) = 1 + Owned(d)
    <3>1. Owned(p[1].name) = 0 /\ Owned(p[1].value) = 0 /\ Owned(q[1].value) = 0
      BY <2>1, <2>2 DEF Owned
    <3>2. Owned(q[1].name) = Owned(d) /\ Owned(d) \in Nat
      BY <2>2 DEF Owned
    <3> QED
      BY <2>1, <2>2, <2>4, <3>1, <3>2
  <2>6. HeldContext(f.ctx) = 1 + Owned(d) /\ HeldContext(g.ctx) = 1 + Owned(d)
    <3>1. Owned(d) \in Nat /\ Owned(Null) = 0
      BY DEF Owned
    <3> QED
      BY <1>5, <1>6, <2>5, <3>1 DEF HeldContext, d
  <2>7. Balanced(g)
    BY <1>6, <1>7, <2>6 DEF Collecting, Balanced
  <2> QED
    BY <1>5, <1>6, <2>2, <2>7
<1> QED
  BY <1>2, <1>5, <1>6, <1>7 DEF SameOutside, Fits, g, d

LEMMA OnHeaderValueEffect ==
    ASSUME NEW f \in Frames, Fits(f), NEW text \in Text
    PROVE  LET g == OnHeaderValue(f, text)
           IN  /\ g \in Frames /\ Fits(g) /\ SameOutside(f, g)
               /\ g.request = f.request /\ g.crashed = f.crashed /\ g.ctx.state = f.ctx.state
               /\ (g.ctx.header = Null <=> f.ctx.header = Null)
               /\ Collecting(f) /\ f.ctx.header # Null => Collecting(g)
<1> DEFINE n == IF f.ctx.lastWasValue THEN f
                ELSE TakeBuffer([f EXCEPT !.ctx.header[1].name = f.ctx.data])
<1> DEFINE e == [n EXCEPT !.ctx.lastWasValue = TRUE]
<1>1. OnHeaderValue(f, text) = Concat(e, text)
  BY DEF OnHeaderValue
<1>2. /\ n \in Frames /\ Fits(n) /\ SameOutside(f, n)
      /\ n.request = f.request /\ n.ctx.state = f.ctx.state /\ n.crashed = f.crashed
      /\ (n.ctx.header = Null <=> f.ctx.header = Null)
      /\ Collecting(f) /\ f.ctx.header # Null
             => Balanced(n) /\ n.ctx.header[1].value = Null
  <2>1. CASE f.ctx.lastWasValue
    BY <2>1 DEF SameOutside, Collecting
  <2>2. CASE ~f.ctx.lastWasValue
    BY <2>2, NameStep
  <2> QED
    BY <2>1, <2>2
<1> HIDE DEF n
<1>3. n.ctx \in Contexts
  BY <1>2 DEF Frames
<1>4. /\ e \in Frames /\ e.parser = n.parser /\ e.past = n.past /\ e.request = n.request
      /\ e.allocs = n.allocs /\ e.crashed = n.crashed
  BY <1>2, <1>3 DEF Frames, Contexts
<1>5. /\ e.ctx.lastWasValue = TRUE /\ e.ctx.header = n.ctx.header
      /\ e.ctx.data = n.ctx.data /\ e.ctx.alloc = n.ctx.alloc
      /\ e.ctx.state = n.ctx.state /\ e.ctx.done = n.ctx.done
  BY <1>2, <1>3 DEF Frames, Contexts
<1> HIDE DEF e
<1>6. Fits(e)
  BY <1>2, <1>5 DEF Fits
<1>7. ASSUME Collecting(f), f.ctx.header # Null PROVE Collecting(e)
  <2>1. HeldContext(e.ctx) = HeldContext(n.ctx)
    BY <1>5 DEF HeldContext
  <2>2. Balanced(e)
    BY <1>2, <1>4, <1>7, <2>1 DEF Balanced
  <2> QED
    BY <1>2, <1>4, <1>5, <1>7, <2>2 DEF Collecting
<1>8. /\ Concat(e, text) \in Frames /\ Fits(Concat(e, text))
      /\ SameOutside(e, Concat(e, text)) /\ Concat(e, text).ctx.header = e.ctx.header
      /\ Concat(e, text).request = e.request /\ Concat(e, text).crashed = e.crashed
      /\ Concat(e, text).ctx.state = e.ctx.state
  BY <1>4, <1>6, ConcatEffect
<1>9. Collecting(f) /\ f.ctx.header # Null => Collecting(Concat(e, text))
  BY <1>4, <1>6, <1>7, ConcatHeld
<1> QED
  BY <1>1, <1>2, <1>4, <1>5, <1>8, <1>9 DEF SameOutside

LEMMA OnHeadersCompleteEffect ==
    ASSUME NEW f \in Frames
    PROVE  LET g == OnHeadersComplete(f)
           IN  /\ g \in Frames /\ Fits(g) /\ g.parser = f.parser /\ g.past = f.past
               /\ g.ctx.done = TRUE /\ g.ctx.data = Null /\ g.ctx.header = Null
               /\ g.crashed = f.crashed
               /\ g.request.url = IF f.ctx.header # Null THEN f.request.url ELSE f.ctx.data
               /\ Collecting(f) => Balanced(g) /\ HeldUri(g.request) = 0
<1> DEFINE e == IF f.ctx.header # Null THEN PushHeader(f)
                ELSE TakeBuffer([f EXCEPT !.request.url = f.ctx.data])
<1> DEFINE g == [e EXCEPT !.ctx.done = TRUE]
<1>1. /\ e \in Frames /\ SameOutside(f, e) /\ e.ctx.data = Null /\ e.ctx.header = Null
      /\ e.crashed = f.crashed
      /\ e.request.url = IF f.ctx.header # Null THEN f.request.url ELSE f.ctx.data
      /\ Collecting(f) => Balanced(e) /\ HeldUri(e.request) = 0
  <2>1. CASE f.ctx.header # Null
    <3> DEFINE h == [f.ctx.header[1] EXCEPT !.value = f.ctx.data]
    <3> DEFINE p == PushHeader(f)
    <3>1. /\ p \in Frames /\ SameOutside(f, p) /\ p.allocs = f.allocs
          /\ p.crashed = f.crashed
          /\ h \in Headers /\ h.name = f.ctx.header[1].name /\ h.value = f.ctx.data
          /\ p.request = [f.request EXCEPT !.headers = <<h>> \o f.request.headers]
          /\ p.ctx = [f.ctx EXCEPT !.header = Null, !.data = Null, !.alloc = 0]
      BY <2>1, PushEffect
    <3> HIDE DEF h, p
    <3>2. f.ctx \in Contexts /\ f.request \in Requests
      BY DEF Frames
    <3>3. /\ p.ctx.data = Null /\ p.ctx.header = Null
          /\ p.request.url = f.request.url
      BY <3>1, <3>2 DEF Contexts, Requests
    <3>4. Collecting(f) => Balanced(p) /\ HeldUri(p.request) = HeldUri(f.request)
      BY <2>1, <3>1, PushHeld DEF Collecting
    <3> QED
      BY <2>1, <3>1, <3>3, <3>4 DEF Collecting, p
  <2>2. CASE f.ctx.header = Null
    <3> DEFINE p == TakeBuffer([f EXCEPT !.request.url = f.ctx.data])
    <3>1. /\ p \in Frames /\ SameOutside(f, p) /\ p.allocs = f.allocs
          /\ p.crashed = f.crashed
          /\ p.request = [f.request EXCEPT !.url = f.ctx.data]
          /\ p.ctx = [f.ctx EXCEPT !.data = Null, !.alloc = 0]
      BY TakeUrlEffect
    <3> HIDE DEF p
    <3>2. f.ctx \in Contexts /\ f.request \in Requests
      BY DEF Frames
    <3>3. /\ p.ctx.data = Null /\ p.ctx.header = Null
          /\ p.request.url = f.ctx.data
      BY <2>2, <3>1, <3>2 DEF Contexts, Requests
    <3>4. Collecting(f) => Balanced(p) /\ HeldUri(p.request) = HeldUri(f.request)
      BY <2>2, <3>1, TakeUrlHeld, Zenon DEF Collecting
    <3> QED
      BY <2>2, <3>1, <3>3, <3>4 DEF Collecting, p
  <2> QED
    BY <2>1, <2>2
<1>2. OnHeadersComplete(f) = g
  BY DEF OnHeadersComplete
<1> HIDE DEF e
<1>3. e.ctx \in Contexts
  BY <1>1 DEF Frames
<1>4. /\ g \in Frames /\ g.parser = e.parser /\ g.past = e.past /\ g.request = e.request
      /\ g.allocs = e.allocs /\ g.crashed = e.crashed
  BY <1>1, <1>3 DEF Frames, Contexts
<1>5. g.ctx.done = TRUE /\ g.ctx.header = e.ctx.header /\ g.ctx.data = e.ctx.data
  BY <1>1, <1>3 DEF Frames, Contexts
<1> HIDE DEF g
<1>6. HeldContext(g.ctx) = HeldContext(e.ctx)
  BY <1>5 DEF HeldContext
<1> QED
  BY <1>1, <1>2, <1>4, <1>5, <1>6 DEF SameOutside, Fits, Balanced

-----------------------------------------------------------------------------
(* The parser, byte by byte *)

(* what the parser leaves alone when it calls nobody back *)
SameBeside(f, g) ==
    /\ g.ctx = f.ctx /\ g.request = f.request /\ g.allocs = f.allocs
    /\ g.past = f.past /\ g.crashed = f.crashed

LEMMA ParserUpdate ==
    ASSUME NEW f \in Frames, NEW p \in Parsers
    PROVE  LET g == [f EXCEPT !.parser = p]
           IN  g \in Frames /\ g.parser = p /\ SameBeside(f, g)
BY DEF Frames, SameBeside

LEMMA GotoEffect ==
    ASSUME NEW f \in Frames, NEW state \in States \cup {"urlEnd", "nameEnd"}
    PROVE  LET g == Goto(f, state)
           IN  /\ g \in Frames /\ SameBeside(f, g)
               /\ g.parser.state = state /\ g.parser.run = f.parser.run
               /\ g.parser.error = f.parser.error /\ g.parser.stopped = f.parser.stopped
<1> DEFINE p == [f.parser EXCEPT !.state = state]
<1>1. f.parser \in Parsers
  BY DEF Frames
<1>2. p \in Parsers /\ p.state = state /\ p.run = f.parser.run /\ p.error = f.parser.error
      /\ p.stopped = f.parser.stopped
  BY <1>1 DEF Parsers
<1>3. Goto(f, state) = [f EXCEPT !.parser = p]
  BY DEF Goto
<1> HIDE DEF p
<1> QED
  BY <1>2, <1>3, ParserUpdate

LEMMA FailEffect ==
    ASSUME NEW f \in Frames
    PROVE  LET g == Fail(f)
           IN  /\ g \in Frames /\ SameBeside(f, g)
               /\ g.parser.state = f.parser.state /\ g.parser.run = f.parser.run
<1> DEFINE p == [f.parser EXCEPT !.error = TRUE]
<1>1. f.parser \in Parsers
  BY DEF Frames
<1>2. p \in Parsers /\ p.state = f.parser.state /\ p.run = f.parser.run
  BY <1>1 DEF Parsers
<1>3. Fail(f) = [f EXCEPT !.parser = p]
  BY DEF Fail
<1> HIDE DEF p
<1> QED
  BY <1>2, <1>3, ParserUpdate

LEMMA RunEffect ==
    ASSUME NEW f \in Frames, NEW r \in Pointer
    PROVE  LET g == [f EXCEPT !.parser.run = r]
           IN  /\ g \in Frames /\ SameBeside(f, g)
               /\ g.parser.state = f.parser.state /\ g.parser.run = r
               /\ g.parser.error = f.parser.error /\ g.parser.stopped = f.parser.stopped
<1> DEFINE p == [f.parser EXCEPT !.run = r]
<1>1. f.parser \in Parsers
  BY DEF Frames
<1>2. p \in Parsers /\ p.state = f.parser.state /\ p.run = r /\ p.error = f.parser.error
      /\ p.stopped = f.parser.stopped
  BY <1>1 DEF Parsers
<1>3. [f EXCEPT !.parser.run = r] = [f EXCEPT !.parser = p]
  OBVIOUS
<1> HIDE DEF p
<1> QED
  BY <1>2, <1>3, ParserUpdate

LEMMA MarkEffect ==
    ASSUME NEW f \in Frames, NEW c \in Bytes
    PROVE  LET g == Mark(f, c)
           IN  /\ g \in Frames /\ SameBeside(f, g)
               /\ g.parser.state = f.parser.state /\ g.parser.run # Null
               /\ g.parser.error = f.parser.error /\ g.parser.stopped = f.parser.stopped
<1> DEFINE t == IF f.parser.run = Null THEN <<c>> ELSE Append(f.parser.run[1], c)
<1> DEFINE r == <<t>>
<1>1. f.parser.run \in Pointer
  BY DEF Frames, Parsers
<1>2. t \in Text
  <2>1. f.parser.run # Null => f.parser.run[1] \in Text
    BY <1>1, OptionalFacts DEF Pointer
  <2>2. ASSUME NEW S, NEW d \in S
        PROVE  <<d>> \in Seq(S) /\ \A u \in Seq(S) : Append(u, d) \in Seq(S)
    OBVIOUS
  <2>3. <<c>> \in Text /\ \A u \in Text : Append(u, c) \in Text
    BY <2>2, Zenon DEF Text
  <2> QED
    BY <2>1, <2>3
<1> HIDE DEF t
<1>3. r \in Pointer /\ r # Null
  BY <1>2, OptionalFacts DEF Pointer
<1>4. Mark(f, c) = [f EXCEPT !.parser.run = r]
  BY DEF Mark, t
<1> HIDE DEF r
<1> QED
  BY <1>3, <1>4, RunEffect

(* A callback, for a mark that is set. *)
LEMMA CallBackEffect ==
    ASSUME NEW f \in Frames, Fits(f), f.parser.run # Null
    PROVE  LET g == CallBack(f)
           IN  /\ g \in Frames /\ Fits(g) /\ g.past = f.past /\ g.ctx.done = f.ctx.done
               /\ g.parser.run = Null /\ g.parser.state = f.parser.state
               /\ f.parser.state \in {"url", "urlEnd"} =>
                     /\ g.request = f.request /\ g.crashed = f.crashed
                     /\ g.ctx.header = f.ctx.header /\ g.ctx.state = "Url" /\ g.ctx.data # Null
                     /\ Collecting(f) /\ f.ctx.header = Null => Collecting(g)
               /\ f.parser.state \in {"name", "nameEnd"} =>
                     /\ \/ g.crashed
                        \/ /\ g.ctx.header # Null /\ g.ctx.state = "HeaderName"
                           /\ g.request.url = IF f.ctx.state = "Url" THEN f.ctx.data
                                              ELSE f.request.url
                     /\ Collecting(f) => Collecting(g) /\ g.crashed = f.crashed
               /\ f.parser.state \notin {"url", "urlEnd", "name", "nameEnd"} =>
                     /\ g.request = f.request /\ g.crashed = f.crashed
                     /\ g.ctx.state = f.ctx.state
                     /\ (g.ctx.header = Null <=> f.ctx.header = Null)
                     /\ Collecting(f) /\ f.ctx.header # Null => Collecting(g)
<1> DEFINE e == [f EXCEPT !.parser.run = Null]
<1> DEFINE text == f.parser.run[1]
<1>1. text \in Text
  BY OptionalFacts DEF Frames, Parsers, Pointer
<1>2. /\ e \in Frames /\ SameBeside(f, e) /\ e.parser.run = Null
      /\ e.parser.state = f.parser.state
  BY OptionalFacts, RunEffect DEF Pointer
<1>3. CallBack(f) = CASE f.parser.state \in {"url", "urlEnd"} -> OnUrl(e, text)
                      [] f.parser.state \in {"name", "nameEnd"} -> OnHeaderField(e, text)
                      [] OTHER -> OnHeaderValue(e, text)
  BY DEF CallBack
<1> HIDE DEF e, text
<1>4. Fits(e) /\ (Collecting(e) <=> Collecting(f))
  BY <1>2 DEF Fits, SameBeside, Collecting, Balanced
<1>5. CASE f.parser.state \in {"url", "urlEnd"}
  <2>1. CallBack(f) = OnUrl(e, text)
    BY <1>3, <1>5
  <2> QED
    BY <1>1, <1>2, <1>4, <1>5, <2>1, OnUrlEffect DEF SameOutside, SameBeside
<1>6. CASE f.parser.state \in {"name", "nameEnd"}
  <2>1. CallBack(f) = OnHeaderField(e, text)
    BY <1>3, <1>6
  <2> QED
    BY <1>1, <1>2, <1>4, <1>6, <2>1, OnHeaderFieldEffect DEF SameOutside, SameBeside
<1>7. CASE f.parser.state \notin {"url", "urlEnd", "name", "nameEnd"}
  <2>1. CallBack(f) = OnHeaderValue(e, text)
    BY <1>3, <1>7
  <2> QED
    BY <1>1, <1>2, <1>4, <1>7, <2>1, OnHeaderValueEffect DEF SameOutside, SameBeside
<1> QED
  BY <1>5, <1>6, <1>7

(* what a change of the other fields of the parser leaves alone *)
SameState(f, g) ==
    SameBeside(f, g) /\ g.parser.state = f.parser.state /\ g.parser.run = f.parser.run

LEMMA FlagEffect ==
    ASSUME NEW f \in Frames, NEW b \in BOOLEAN, NEW m \in Optional(Bytes)
    PROVE  /\ LET g == [f EXCEPT !.parser.conn = b] IN g \in Frames /\ SameState(f, g)
           /\ LET g == [f EXCEPT !.parser.close = b] IN g \in Frames /\ SameState(f, g)
           /\ LET g == [f EXCEPT !.parser.stopped = b] IN g \in Frames /\ SameState(f, g)
           /\ LET g == [f EXCEPT !.parser.method = m, !.parser.close = b]
              IN  g \in Frames /\ SameState(f, g)
<1>1. f.parser \in Parsers
  BY DEF Frames
<1>2. ASSUME NEW p \in Parsers, p.state = f.parser.state, p.run = f.parser.run
      PROVE  [f EXCEPT !.parser = p] \in Frames /\ SameState(f, [f EXCEPT !.parser = p])
  BY <1>2, ParserUpdate DEF SameState
<1>3. LET g == [f EXCEPT !.parser.conn = b] IN g \in Frames /\ SameState(f, g)
  <2> DEFINE p == [f.parser EXCEPT !.conn = b]
  <2>1. p \in Parsers /\ p.state = f.parser.state /\ p.run = f.parser.run
    BY <1>1 DEF Parsers
  <2>2. [f EXCEPT !.parser.conn = b] = [f EXCEPT !.parser = p]
    BY Zenon
  <2> HIDE DEF p
  <2> QED
    BY <1>2, <2>1, <2>2
<1>4. LET g == [f EXCEPT !.parser.close = b] IN g \in Frames /\ SameState(f, g)
  <2> DEFINE p == [f.parser EXCEPT !.close = b]
  <2>1. p \in Parsers /\ p.state = f.parser.state /\ p.run = f.parser.run
    BY <1>1 DEF Parsers
  <2>2. [f EXCEPT !.parser.close = b] = [f EXCEPT !.parser = p]
    BY Zenon
  <2> HIDE DEF p
  <2> QED
    BY <1>2, <2>1, <2>2
<1>5. LET g == [f EXCEPT !.parser.stopped = b] IN g \in Frames /\ SameState(f, g)
  <2> DEFINE p == [f.parser EXCEPT !.stopped = b]
  <2>1. p \in Parsers /\ p.state = f.parser.state /\ p.run = f.parser.run
    BY <1>1 DEF Parsers
  <2>2. [f EXCEPT !.parser.stopped = b] = [f EXCEPT !.parser = p]
    BY Zenon
  <2> HIDE DEF p
  <2> QED
    BY <1>2, <2>1, <2>2
<1>6. LET g == [f EXCEPT !.parser.method = m, !.parser.close = b]
      IN  g \in Frames /\ SameState(f, g)
  <2> DEFINE p == [f.parser EXCEPT !.method = m, !.close = b]
  <2>1. p \in Parsers /\ p.state = f.parser.state /\ p.run = f.parser.run
    BY <1>1 DEF Parsers
  <2>2. [f EXCEPT !.parser.method = m, !.parser.close = b] = [f EXCEPT !.parser = p]
    BY <1>1 DEF Frames, Parsers
  <2> HIDE DEF p
  <2> QED
    BY <1>2, <2>1, <2>2
<1> QED
  BY <1>3, <1>4, <1>5, <1>6

(* While a piece is parsed, the text of a url, a name or a value has a mark. *)
Running(f) == f.parser.run # Null <=> f.parser.state \in {"url", "name", "value"}

(* The request and the context, when no byte behind the headers was parsed. *)
Clear(f) ==
    /\ ~f.crashed
    /\ ~f.ctx.done => Collecting(f)
    /\ f.ctx.done => /\ Balanced(f) /\ HeldUri(f.request) = 0
                     /\ f.ctx.data = Null /\ f.ctx.header = Null
                     /\ f.parser.state \in {"start", "dead"}

Ready(f) ==
    /\ f \in Frames /\ Fits(f) /\ f.parser.state \in States
    /\ ~f.crashed /\ Placed(f) /\ Running(f)

(* what one byte makes of a frame, before it is counted *)
Kept(f, g) ==
    /\ g \in Frames /\ Fits(g) /\ g.parser.state \in States
    /\ g.crashed \/ (Placed(g) /\ Running(g))
    /\ g.past = f.past
    /\ Collecting(f) /\ ~f.ctx.done => Clear(g)

LEMMA MovedKept ==
    ASSUME NEW f, Ready(f), NEW g \in Frames, SameBeside(f, g),
           g.parser.state \in States, Placed(g), Running(g)
    PROVE  Kept(f, g)
<1>1. Fits(g) /\ (Collecting(g) <=> Collecting(f))
  BY DEF Ready, SameBeside, Fits, Collecting, Balanced
<1> QED
  BY <1>1 DEF Ready, Kept, Clear, SameBeside

LEMMA AtStartKept ==
    ASSUME NEW f, Ready(f), NEW c \in Bytes, f.parser.state = "start"
    PROVE  Kept(f, AtStart(f, c))
<1>1. CASE c = Eol
  BY <1>1, MovedKept DEF AtStart, Ready, SameBeside
<1>2. CASE c # Eol /\ c \notin Methods
  <2>1. Fail(f) \in Frames /\ SameState(f, Fail(f))
    BY FailEffect DEF Ready, SameState
  <2> QED
    BY <1>2, <2>1, MovedKept DEF AtStart, Ready, SameState, SameBeside, Placed, Running
<1>3. CASE c # Eol /\ c \in Methods
  <2> DEFINE e == Goto(f, "spaces")
  <2> DEFINE g == [e EXCEPT !.parser.method = <<c>>, !.parser.close = FALSE]
  <2>1. /\ e \in Frames /\ SameBeside(f, e) /\ e.parser.state = "spaces"
        /\ e.parser.run = f.parser.run
    BY GotoEffect DEF Ready, States
  <2> HIDE DEF e
  <2>2. <<c>> \in Optional(Bytes)
    BY OptionalFacts
  <2>3. g \in Frames /\ SameState(e, g)
    BY <2>1, <2>2, FlagEffect
  <2>4. AtStart(f, c) = g
    BY <1>3 DEF AtStart, e
  <2> HIDE DEF g
  <2>5. SameBeside(f, g) /\ g.parser.state = "spaces" /\ g.parser.run = f.parser.run
    BY <2>1, <2>3 DEF SameState, SameBeside
  <2>6. Placed(g) /\ Running(g) /\ g.parser.state \in States
    BY <2>5 DEF Ready, Placed, Running, SameBeside, States
  <2> QED
    BY <2>3, <2>4, <2>5, <2>6, MovedKept
<1> QED
  BY <1>1, <1>2, <1>3

LEMMA HeadersDoneKept ==
    ASSUME NEW f, Ready(f), f.parser.state \in {"line", "lws"}
    PROVE  Kept(f, HeadersDone(f))
<1> DEFINE h == OnHeadersComplete(f)
<1> DEFINE n == NewMessage(h)
<1> DEFINE b == f.parser.method = <<"CONNECT">>
<1> DEFINE g == [n EXCEPT !.parser.stopped = b]
<1>1. /\ h \in Frames /\ Fits(h) /\ h.parser = f.parser /\ h.past = f.past
      /\ h.ctx.done = TRUE /\ h.ctx.data = Null /\ h.ctx.header = Null
      /\ h.crashed = f.crashed
      /\ h.request.url = IF f.ctx.header # Null THEN f.request.url ELSE f.ctx.data
      /\ Collecting(f) => Balanced(h) /\ HeldUri(h.request) = 0
  BY OnHeadersCompleteEffect DEF Ready
<1> HIDE DEF h
<1>2. /\ n \in Frames /\ SameBeside(h, n) /\ n.parser.state \in {"start", "dead"}
      /\ n.parser.run = h.parser.run
  BY <1>1, GotoEffect DEF NewMessage, States
<1> HIDE DEF n
<1>3. g \in Frames /\ SameState(n, g)
  <2>1. b \in BOOLEAN /\ <<>> \in Optional(Bytes)
    BY OptionalFacts DEF Null
  <2> HIDE DEF b
  <2> QED
    BY <1>2, <2>1, FlagEffect
<1>4. HeadersDone(f) = g
  BY DEF HeadersDone, h, n
<1> HIDE DEF g, b
<1>5. /\ g.ctx = h.ctx /\ g.request = h.request /\ g.allocs = h.allocs /\ g.past = f.past
      /\ g.crashed = h.crashed /\ g.parser.state \in {"start", "dead"}
      /\ g.parser.run = f.parser.run
  BY <1>1, <1>2, <1>3 DEF SameState, SameBeside
<1>6. f.parser.run = Null
  BY DEF Ready, Running
<1>7. h.request.url # Null
  BY <1>1 DEF Ready, Placed
<1>8. Fits(g) /\ Placed(g) /\ Running(g) /\ g.parser.state \in States
  BY <1>1, <1>5, <1>6, <1>7 DEF Fits, Placed, Running, States
<1>9. Collecting(f) => Clear(g)
  BY <1>1, <1>5 DEF Clear, Balanced, Ready
<1> QED
  BY <1>3, <1>4, <1>5, <1>8, <1>9 DEF Kept

LEMMA AtLineKept ==
    ASSUME NEW f, Ready(f), NEW c \in Bytes, f.parser.state \in {"line", "lws"}
    PROVE  Kept(f, AtLine(f, c))
<1>1. CASE c = Eol
  BY <1>1, HeadersDoneKept DEF AtLine, Eol, NameChars
<1>2. CASE c # Eol /\ c \in NameChars
  <2> DEFINE b == c = "Connection"
  <2> DEFINE e == [f EXCEPT !.parser.conn = b]
  <2> DEFINE n == Goto(e, "name")
  <2> DEFINE g == Mark(n, c)
  <2>1. e \in Frames /\ SameState(f, e)
    <3>1. b \in BOOLEAN /\ <<>> \in Optional(Bytes)
      BY OptionalFacts DEF Null
    <3> HIDE DEF b
    <3> QED
      BY <3>1, FlagEffect DEF Ready
  <2>2. AtLine(f, c) = g
    BY <1>2 DEF AtLine, Eol
  <2> HIDE DEF e
  <2>3. n \in Frames /\ SameBeside(e, n) /\ n.parser.state = "name"
    BY <2>1, GotoEffect DEF States
  <2> HIDE DEF n
  <2>4. /\ g \in Frames /\ SameBeside(n, g) /\ g.parser.state = "name"
        /\ g.parser.run # Null
    BY <2>3, MarkEffect
  <2> HIDE DEF g
  <2>5. SameBeside(f, g)
    BY <2>1, <2>3, <2>4 DEF SameState, SameBeside
  <2>6. Placed(g) /\ Running(g) /\ g.parser.state \in States
    BY <2>4, <2>5 DEF Ready, Placed, Running, SameBeside, States
  <2> QED
    BY <2>2, <2>4, <2>5, <2>6, MovedKept
<1>3. CASE c # Eol /\ c \notin NameChars
  <2>1. Fail(f) \in Frames /\ SameState(f, Fail(f))
    BY FailEffect DEF Ready, SameState
  <2>2. AtLine(f, c) = Fail(f)
    BY <1>3 DEF AtLine
  <2> QED
    BY <2>1, <2>2, MovedKept DEF Ready, SameState, SameBeside, Placed, Running
<1> QED
  BY <1>1, <1>2, <1>3

LEMMA InUrlKept ==
    ASSUME NEW f, Ready(f), NEW c \in Bytes, f.parser.state = "url"
    PROVE  Kept(f, InUrl(f, c))
<1>1. CASE c = Version
  <2> DEFINE e == Goto(f, "urlEnd")
  <2> DEFINE n == CallBack(e)
  <2> DEFINE g == Goto(n, "line")
  <2>1. /\ e \in Frames /\ SameBeside(f, e) /\ e.parser.state = "urlEnd"
        /\ e.parser.run = f.parser.run
    BY GotoEffect DEF Ready
  <2>2. InUrl(f, c) = g
    BY <1>1 DEF InUrl
  <2> HIDE DEF e
  <2>3. Fits(e) /\ e.parser.run # Null /\ (Collecting(e) <=> Collecting(f))
    BY <2>1 DEF Ready, Running, SameBeside, Fits, Collecting, Balanced
  <2>4. /\ n \in Frames /\ Fits(n) /\ n.past = e.past /\ n.ctx.done = e.ctx.done
        /\ n.parser.run = Null /\ n.request = e.request /\ n.crashed = e.crashed
        /\ n.ctx.header = e.ctx.header /\ n.ctx.state = "Url" /\ n.ctx.data # Null
        /\ Collecting(e) /\ e.ctx.header = Null => Collecting(n)
    BY <2>1, <2>3, CallBackEffect
  <2> HIDE DEF n
  <2>5. /\ g \in Frames /\ SameBeside(n, g) /\ g.parser.state = "line"
        /\ g.parser.run = Null
    BY <2>4, GotoEffect DEF States
  <2> HIDE DEF g
  <2>6. Fits(g) /\ (Collecting(g) <=> Collecting(n))
    BY <2>4, <2>5 DEF SameBeside, Fits, Collecting, Balanced
  <2>7. f.ctx.header = Null
    BY DEF Ready, Placed
  <2>8. Placed(g) /\ Running(g) /\ g.parser.state \in States
    BY <2>1, <2>4, <2>5, <2>7 DEF Ready, Placed, Running, SameBeside, States
  <2> QED
    BY <2>1, <2>2, <2>3, <2>4, <2>5, <2>6, <2>7, <2>8 DEF Kept, Clear, SameBeside, Ready
<1>2. CASE c # Version
  <2>1. /\ Mark(f, c) \in Frames /\ SameBeside(f, Mark(f, c))
        /\ Mark(f, c).parser.state = "url" /\ Mark(f, c).parser.run # Null
    BY MarkEffect DEF Ready
  <2> QED
    BY <1>2, <2>1, MovedKept DEF InUrl, Ready, SameBeside, Placed, Running
<1> QED
  BY <1>1, <1>2

(* The end of a name: the header under way has what was read of it. *)
LEMMA NameEndKept ==
    ASSUME NEW f, Ready(f), f.parser.state = "name",
           NEW state \in {"valueStart", "lws"}
    PROVE  Kept(f, Goto(CallBack(Goto(f, "nameEnd")), state))
<1> DEFINE e == Goto(f, "nameEnd")
<1> DEFINE n == CallBack(e)
<1> DEFINE g == Goto(n, state)
<1>1. /\ e \in Frames /\ SameBeside(f, e) /\ e.parser.state = "nameEnd"
      /\ e.parser.run = f.parser.run
  BY GotoEffect DEF Ready
<1> HIDE DEF e
<1>2. Fits(e) /\ e.parser.run # Null /\ (Collecting(e) <=> Collecting(f))
  BY <1>1 DEF Ready, Running, SameBeside, Fits, Collecting, Balanced
<1>3. /\ n \in Frames /\ Fits(n) /\ n.past = e.past /\ n.ctx.done = e.ctx.done
      /\ n.parser.run = Null
      /\ \/ n.crashed
         \/ /\ n.ctx.header # Null /\ n.ctx.state = "HeaderName"
            /\ n.request.url = IF e.ctx.state = "Url" THEN e.ctx.data ELSE e.request.url
      /\ Collecting(e) => Collecting(n) /\ n.crashed = e.crashed
  BY <1>1, <1>2, CallBackEffect
<1> HIDE DEF n
<1>4. state \in States
  BY DEF States
<1>5. /\ g \in Frames /\ SameBeside(n, g) /\ g.parser.state = state
      /\ g.parser.run = Null
  BY <1>3, <1>4, GotoEffect
<1> HIDE DEF g
<1>6. Fits(g) /\ (Collecting(g) <=> Collecting(n))
  BY <1>3, <1>5 DEF SameBeside, Fits, Collecting, Balanced
<1>7. g.crashed \/ (Placed(g) /\ Running(g))
  <2>1. \/ f.ctx.header = Null /\ f.ctx.state = "Url" /\ f.ctx.data # Null
        \/ f.ctx.header # Null /\ f.ctx.state = "HeaderName" /\ f.request.url # Null
    BY DEF Ready, Placed
  <2>2. n.crashed \/ n.request.url # Null
    BY <1>1, <1>3, <2>1 DEF SameBeside
  <2> QED
    BY <1>3, <1>5, <2>2 DEF Placed, Running, SameBeside
<1> QED
  BY <1>1, <1>2, <1>3, <1>4, <1>5, <1>6, <1>7 DEF Kept, Clear, SameBeside, Ready, e, n, g

LEMMA InNameKept ==
    ASSUME NEW f, Ready(f), NEW c \in Bytes, f.parser.state = "name"
    PROVE  Kept(f, InName(f, c))
<1>1. CASE c = ":"
  BY <1>1, NameEndKept DEF InName
<1>2. CASE c = Eol
  BY <1>2, NameEndKept DEF InName, Eol
<1>3. CASE c # ":" /\ c # Eol
  <2>1. /\ Mark(f, c) \in Frames /\ SameBeside(f, Mark(f, c))
        /\ Mark(f, c).parser.state = "name" /\ Mark(f, c).parser.run # Null
    BY MarkEffect DEF Ready
  <2>2. InName(f, c) = Mark(f, c)
    BY <1>3 DEF InName
  <2> QED
    BY <2>1, <2>2, MovedKept DEF Ready, SameBeside, Placed, Running
<1> QED
  BY <1>1, <1>2, <1>3

(* The end of a value, of which the buffer has got all that was marked. *)
LEMMA ValueEndKept ==
    ASSUME NEW f, Ready(f), f.parser.state \in {"valueStart", "value"},
           NEW e \in Frames, SameBeside(f, e), e.parser.state = f.parser.state,
           e.parser.run # Null
    PROVE  Kept(f, Goto(CallBack(e), "lws"))
<1> DEFINE n == CallBack(e)
<1> DEFINE g == Goto(n, "lws")
<1>1. Fits(e) /\ (Collecting(e) <=> Collecting(f))
  BY DEF Ready, SameBeside, Fits, Collecting, Balanced
<1>2. /\ n \in Frames /\ Fits(n) /\ n.past = e.past /\ n.ctx.done = e.ctx.done
      /\ n.parser.run = Null /\ n.request = e.request /\ n.crashed = e.crashed
      /\ n.ctx.state = e.ctx.state /\ (n.ctx.header = Null <=> e.ctx.header = Null)
      /\ Collecting(e) /\ e.ctx.header # Null => Collecting(n)
  BY <1>1, CallBackEffect
<1> HIDE DEF n
<1>3. /\ g \in Frames /\ SameBeside(n, g) /\ g.parser.state = "lws"
      /\ g.parser.run = Null
  BY <1>2, GotoEffect DEF States
<1> HIDE DEF g
<1>4. Fits(g) /\ (Collecting(g) <=> Collecting(n))
  BY <1>2, <1>3 DEF SameBeside, Fits, Collecting, Balanced
<1>5. f.ctx.header # Null
  BY DEF Ready, Placed
<1>6. Placed(g) /\ Running(g) /\ g.parser.state \in States
  BY <1>2, <1>3, <1>5 DEF Ready, Placed, Running, SameBeside, States
<1> QED
  BY <1>1, <1>2, <1>3, <1>4, <1>5, <1>6 DEF Kept, Clear, SameBeside, Ready, n, g

LEMMA AtValueKept ==
    ASSUME NEW f, Ready(f), NEW c \in Bytes, f.parser.state = "valueStart"
    PROVE  Kept(f, AtValue(f, c))
<1>1. CASE c = Space
  <2>1. AtValue(f, c) = f
    BY <1>1 DEF AtValue, Eol, Space
  <2> QED
    BY <2>1, MovedKept DEF Ready, SameBeside
<1>2. CASE c = Eol
  <2> DEFINE r == << <<>> >>
  <2> DEFINE e == [f EXCEPT !.parser.run = r]
  <2>1. r \in Pointer /\ r # Null
    <3>1. <<>> \in Text
      BY DEF Text
    <3> QED
      BY <3>1, OptionalFacts DEF Pointer
  <2>2. AtValue(f, c) = Goto(CallBack(e), "lws")
    BY <1>2 DEF AtValue, Eol
  <2> HIDE DEF r
  <2>3. /\ e \in Frames /\ SameBeside(f, e) /\ e.parser.state = f.parser.state
        /\ e.parser.run = r
    BY <2>1, RunEffect DEF Ready
  <2> HIDE DEF e
  <2> QED
    BY <2>1, <2>2, <2>3, ValueEndKept
<1>3. CASE c # Space /\ c # Eol
  <2> DEFINE b == f.parser.close \/ (f.parser.conn /\ c = "close")
  <2> DEFINE e == [f EXCEPT !.parser.close = b]
  <2> DEFINE n == Goto(e, "value")
  <2> DEFINE g == Mark(n, c)
  <2>1. e \in Frames /\ SameState(f, e)
    <3>1. b \in BOOLEAN /\ <<>> \in Optional(Bytes)
      BY OptionalFacts DEF Null, Ready, Frames, Parsers
    <3> HIDE DEF b
    <3> QED
      BY <3>1, FlagEffect DEF Ready
  <2>2. AtValue(f, c) = g
    BY <1>3 DEF AtValue
  <2> HIDE DEF e
  <2>3. n \in Frames /\ SameBeside(e, n) /\ n.parser.state = "value"
    BY <2>1, GotoEffect DEF States
  <2> HIDE DEF n
  <2>4. /\ g \in Frames /\ SameBeside(n, g) /\ g.parser.state = "value"
        /\ g.parser.run # Null
    BY <2>3, MarkEffect
  <2> HIDE DEF g
  <2>5. SameBeside(f, g)
    BY <2>1, <2>3, <2>4 DEF SameState, SameBeside
  <2>6. Placed(g) /\ Running(g) /\ g.parser.state \in States
    BY <2>4, <2>5 DEF Ready, Placed, Running, SameBeside, States
  <2> QED
    BY <2>2, <2>4, <2>5, <2>6, MovedKept
<1> QED
  BY <1>1, <1>2, <1>3

LEMMA InValueKept ==
    ASSUME NEW f, Ready(f), NEW c \in Bytes, f.parser.state = "value"
    PROVE  Kept(f, InValue(f, c))
<1>1. CASE c = Eol
  <2>1. f.parser.run # Null /\ f \in Frames /\ SameBeside(f, f)
    BY DEF Ready, Running, SameBeside
  <2> QED
    BY <1>1, <2>1, ValueEndKept DEF InValue
<1>2. CASE c # Eol
  <2>1. /\ Mark(f, c) \in Frames /\ SameBeside(f, Mark(f, c))
        /\ Mark(f, c).parser.state = "value" /\ Mark(f, c).parser.run # Null
    BY MarkEffect DEF Ready
  <2> QED
    BY <1>2, <2>1, MovedKept DEF InValue, Ready, SameBeside, Placed, Running
<1> QED
  BY <1>1, <1>2

LEMMA AfterLineKept ==
    ASSUME NEW f, Ready(f), NEW c \in Bytes, f.parser.state = "lws"
    PROVE  Kept(f, AfterLine(f, c))
<1>1. CASE c = Space
  <2> DEFINE g == Goto(f, "valueStart")
  <2>1. /\ g \in Frames /\ SameBeside(f, g) /\ g.parser.state = "valueStart"
        /\ g.parser.run = f.parser.run
    BY GotoEffect DEF Ready, States
  <2>2. AfterLine(f, c) = g
    BY <1>1 DEF AfterLine
  <2> HIDE DEF g
  <2>3. Placed(g) /\ Running(g) /\ g.parser.state \in States
    BY <2>1 DEF Ready, Placed, Running, SameBeside, States
  <2> QED
    BY <2>1, <2>2, <2>3, MovedKept
<1>2. CASE c # Space
  BY <1>2, AtLineKept DEF AfterLine
<1> QED
  BY <1>1, <1>2

(* One byte, wherever the parser is. *)
LEMMA ByteKept ==
    ASSUME NEW f, Ready(f), NEW c \in Bytes
    PROVE  Kept(f, Byte(f, c))
<1>1. CASE f.parser.state = "dead"
  <2>1. Fail(f) \in Frames /\ SameState(f, Fail(f))
    BY FailEffect DEF Ready, SameState
  <2>2. Byte(f, c) \in {f, Fail(f)}
    BY <1>1 DEF Byte
  <2>3. SameBeside(f, f)
    BY DEF SameBeside
  <2>4. Kept(f, f)
    BY <2>3, MovedKept DEF Ready
  <2>5. Kept(f, Fail(f))
    BY <2>1, MovedKept DEF Ready, SameState, SameBeside, Placed, Running
  <2> QED
    BY <2>2, <2>4, <2>5
<1>2. CASE f.parser.state = "start"
  BY <1>2, AtStartKept DEF Byte
<1>3. CASE f.parser.state = "spaces"
  <2> DEFINE e == Goto(f, "url")
  <2> DEFINE g == Mark(e, c)
  <2>1. e \in Frames /\ SameBeside(f, e) /\ e.parser.state = "url"
    BY GotoEffect DEF Ready, States
  <2>2. Byte(f, c) = g
    BY <1>3 DEF Byte
  <2> HIDE DEF e
  <2>3. /\ g \in Frames /\ SameBeside(e, g) /\ g.parser.state = "url"
        /\ g.parser.run # Null
    BY <2>1, MarkEffect
  <2> HIDE DEF g
  <2>4. SameBeside(f, g)
    BY <2>1, <2>3 DEF SameBeside
  <2>5. Placed(g) /\ Running(g) /\ g.parser.state \in States
    BY <1>3, <2>3, <2>4 DEF Ready, Placed, Running, SameBeside, States
  <2> QED
    BY <2>2, <2>3, <2>4, <2>5, MovedKept
<1>4. CASE f.parser.state = "url"
  BY <1>4, InUrlKept DEF Byte
<1>5. CASE f.parser.state = "line"
  BY <1>5, AtLineKept DEF Byte
<1>6. CASE f.parser.state = "name"
  BY <1>6, InNameKept DEF Byte
<1>7. CASE f.parser.state = "valueStart"
  BY <1>7, AtValueKept DEF Byte
<1>8. CASE f.parser.state = "value"
  BY <1>8, InValueKept DEF Byte
<1>9. CASE f.parser.state = "lws"
  BY <1>9, AfterLineKept DEF Byte
<1> QED
  BY <1>1, <1>2, <1>3, <1>4, <1>5, <1>6, <1>7, <1>8, <1>9 DEF Ready, States

-----------------------------------------------------------------------------
(* A piece, and the frame it leaves behind *)

Steady(f) ==
    /\ f \in Frames /\ Fits(f) /\ f.parser.state \in States
    /\ f.crashed \/ Placed(f)
    /\ ~f.past => Clear(f)

InPiece(f) == Steady(f) /\ (f.crashed \/ Running(f))

LEMMA ExecuteByteKept ==
    ASSUME NEW f, InPiece(f), NEW c \in Bytes
    PROVE  InPiece(ExecuteByte(f, c))
<1>1. CASE f.parser.error \/ f.parser.stopped \/ f.crashed
  BY <1>1 DEF ExecuteByte
<1>2. CASE ~(f.parser.error \/ f.parser.stopped \/ f.crashed)
  <2> DEFINE g == Byte(f, c)
  <2> DEFINE size == g.parser.size + 1
  <2> DEFINE past == g.past \/ f.ctx.done
  <2> DEFINE p == [g.parser EXCEPT !.size = size]
  <2> DEFINE h == [g EXCEPT !.parser = p, !.past = past]
  <2>1. Kept(f, g)
    BY <1>2, ByteKept DEF InPiece, Steady, Ready
  <2> HIDE DEF g
  <2>2. g.parser \in Parsers /\ size \in Nat /\ past \in BOOLEAN
    BY <2>1 DEF Kept, Frames, Parsers, InPiece, Steady, Contexts
  <2>3. ExecuteByte(f, c) = h
    <3>1. ExecuteByte(f, c) = [g EXCEPT !.parser.size = size, !.past = past]
      BY <1>2 DEF ExecuteByte, g
    <3> HIDE DEF size, past
    <3> QED
      BY <2>1, <2>2, <3>1 DEF Kept, Frames, Parsers
  <2>4. past <=> g.past \/ f.ctx.done
    OBVIOUS
  <2> HIDE DEF size, past
  <2>5. p \in Parsers /\ p.state = g.parser.state /\ p.run = g.parser.run
    BY <2>2 DEF Parsers
  <2> HIDE DEF p
  <2>6. /\ h \in Frames /\ h.parser = p /\ h.past = past /\ h.ctx = g.ctx
        /\ h.request = g.request /\ h.allocs = g.allocs /\ h.crashed = g.crashed
    BY <2>1, <2>2, <2>5 DEF Kept, Frames
  <2> HIDE DEF h
  <2>7. Fits(h) /\ h.parser.state \in States /\ (h.crashed \/ (Placed(h) /\ Running(h)))
    BY <2>1, <2>5, <2>6 DEF Kept, Fits, Placed, Running
  <2>8. ~h.past => Clear(h)
    <3> SUFFICES ASSUME ~h.past PROVE Clear(h)
      OBVIOUS
    <3>1. ~f.ctx.done /\ Collecting(f)
      BY <2>1, <2>4, <2>6 DEF Kept, InPiece, Steady, Clear
    <3>2. Clear(g)
      BY <2>1, <3>1 DEF Kept
    <3> QED
      BY <2>5, <2>6, <3>2 DEF Clear, Collecting, Balanced
  <2> QED
    BY <2>3, <2>6, <2>7, <2>8 DEF InPiece, Steady
<1> QED
  BY <1>1, <1>2

(* The frame after each byte of a piece is well defined. *)
IsAfter(h, begun, piece) ==
    h = [n \in 0..Len(piece) |-> IF n = 0 THEN begun ELSE ExecuteByte(h[n - 1], piece[n])]

LEMMA AfterDefined ==
    ASSUME NEW begun, NEW piece \in Text
    PROVE  \E h : IsAfter(h, begun, piece)
<1> DEFINE Made(h, m) ==
        h = [n \in 0..m |-> IF n = 0 THEN begun ELSE ExecuteByte(h[n - 1], piece[n])]
<1> DEFINE S == {m \in Nat : \E h : Made(h, m)}
<1>1. 0 \in S
  <2> DEFINE h == [n \in 0..0 |-> begun]
  <2>1. Made(h, 0)
    OBVIOUS
  <2> QED
    BY <2>1
<1>2. ASSUME NEW m \in Nat, m \in S PROVE m + 1 \in S
  <2>1. PICK h : Made(h, m)
    BY <1>2
  <2> DEFINE last == ExecuteByte(h[m], piece[m + 1])
  <2> DEFINE k == [n \in 0..(m + 1) |-> IF n = m + 1 THEN last ELSE h[n]]
  <2>2. \A n \in 0..m : h[n] = IF n = 0 THEN begun ELSE ExecuteByte(h[n - 1], piece[n])
    BY <2>1
  <2>3. /\ \A n \in 0..m : k[n] = h[n] /\ n - 1 # m + 1
        /\ k[m + 1] = last /\ m + 1 # 0 /\ (m + 1) - 1 = m /\ m \in 0..m
    OBVIOUS
  <2>4. \A n \in 0..(m + 1) :
            k[n] = IF n = 0 THEN begun ELSE ExecuteByte(k[n - 1], piece[n])
    <3> SUFFICES ASSUME NEW n \in 0..(m + 1)
                 PROVE  k[n] = IF n = 0 THEN begun ELSE ExecuteByte(k[n - 1], piece[n])
      OBVIOUS
    <3>1. CASE n = m + 1
      <4>1. k[n] = ExecuteByte(k[n - 1], piece[n])
        <5>1. k[n - 1] = h[m]
          BY <2>3, <3>1
        <5> QED
          BY <2>3, <3>1, <5>1
      <4> QED
        BY <2>3, <3>1, <4>1
    <3>2. CASE n \in 0..m
      <4>1. k[n] = h[n]
        BY <3>2
      <4>2. CASE n = 0
        BY <2>2, <3>2, <4>1, <4>2
      <4>3. CASE n # 0
        <5>1. k[n - 1] = h[n - 1]
          BY <3>2, <4>3
        <5> HIDE DEF k
        <5> QED
          BY <2>2, <3>2, <4>1, <4>3, <5>1
      <4> QED
        BY <4>2, <4>3
    <3> QED
      BY <3>1, <3>2
  <2>5. Made(k, m + 1)
    <3>1. k = [n \in 0..(m + 1) |-> k[n]]
      OBVIOUS
    <3> HIDE DEF k
    <3> DEFINE e(n) == IF n = 0 THEN begun ELSE ExecuteByte(k[n - 1], piece[n])
    <3>2. \A n \in 0..(m + 1) : k[n] = e(n)
      BY <2>4
    <3>3. Made(k, m + 1) <=> k = [n \in 0..(m + 1) |-> e(n)]
      OBVIOUS
    <3> HIDE DEF e, Made
    <3>4. [n \in 0..(m + 1) |-> e(n)] = [n \in 0..(m + 1) |-> k[n]]
      BY <3>2, Zenon
    <3> QED
      BY <3>1, <3>3, <3>4, Zenon
  <2> HIDE DEF k, Made
  <2> QED
    BY <2>5
<1>3. Len(piece) \in S
  <2> HIDE DEF S
  <2> QED
    BY <1>1, <1>2, Induction DEF Text
<1> QED
  BY <1>3 DEF IsAfter

LEMMA BegunKept ==
    ASSUME NEW f, Steady(f), NEW r \in Pointer,
           r # Null <=> f.parser.state \in {"url", "name", "value"}
    PROVE  InPiece([f EXCEPT !.parser.size = 0, !.parser.run = r])
<1> DEFINE p == [f.parser EXCEPT !.size = 0, !.run = r]
<1> DEFINE g == [f EXCEPT !.parser = p]
<1>1. f \in Frames /\ f.parser \in Parsers
  BY DEF Steady, Frames
<1>2. [f EXCEPT !.parser.size = 0, !.parser.run = r] = g
  BY <1>1 DEF Frames, Parsers
<1>3. p \in Parsers /\ p.state = f.parser.state /\ p.run = r
  BY <1>1 DEF Parsers
<1> HIDE DEF p
<1>4. g \in Frames /\ g.parser = p /\ SameBeside(f, g)
  BY <1>1, <1>3, ParserUpdate
<1> HIDE DEF g
<1>5. Fits(g) /\ g.parser.state \in States /\ (g.crashed \/ Placed(g)) /\ Running(g)
  BY <1>3, <1>4 DEF Steady, SameBeside, Fits, Placed, Running
<1>6. ~g.past => Clear(g)
  BY <1>3, <1>4 DEF Steady, SameBeside, Clear, Collecting, Balanced
<1> QED
  BY <1>2, <1>4, <1>5, <1>6 DEF InPiece, Steady

(* The end of a piece goes to the callback that is waiting for more. *)
LEMMA EndKept ==
    ASSUME NEW f, InPiece(f), ~f.crashed
    PROVE  Steady(CallBack(f))
<1>1. CASE f.parser.run = Null
  BY <1>1 DEF CallBack, InPiece
<1>2. CASE f.parser.run # Null
  <2> DEFINE g == CallBack(f)
  <2>1. f.parser.state \in {"url", "name", "value"}
    BY <1>2 DEF InPiece, Running
  <2>2. /\ g \in Frames /\ Fits(g) /\ g.past = f.past /\ g.ctx.done = f.ctx.done
        /\ g.parser.run = Null /\ g.parser.state = f.parser.state
        /\ f.parser.state \in {"url", "urlEnd"} =>
              /\ g.request = f.request /\ g.crashed = f.crashed
              /\ g.ctx.header = f.ctx.header /\ g.ctx.state = "Url" /\ g.ctx.data # Null
              /\ Collecting(f) /\ f.ctx.header = Null => Collecting(g)
        /\ f.parser.state \in {"name", "nameEnd"} =>
              /\ \/ g.crashed
                 \/ /\ g.ctx.header # Null /\ g.ctx.state = "HeaderName"
                    /\ g.request.url = IF f.ctx.state = "Url" THEN f.ctx.data
                                       ELSE f.request.url
              /\ Collecting(f) => Collecting(g) /\ g.crashed = f.crashed
        /\ f.parser.state \notin {"url", "urlEnd", "name", "nameEnd"} =>
              /\ g.request = f.request /\ g.crashed = f.crashed
              /\ g.ctx.state = f.ctx.state
              /\ (g.ctx.header = Null <=> f.ctx.header = Null)
              /\ Collecting(f) /\ f.ctx.header # Null => Collecting(g)
    BY <1>2, CallBackEffect DEF InPiece, Steady
  <2> HIDE DEF g
  <2>3. Placed(f)
    BY DEF InPiece, Steady
  <2>4. g.crashed \/ Placed(g)
    BY <2>1, <2>2, <2>3 DEF Placed
  <2>5. ~g.past => Clear(g)
    <3> SUFFICES ASSUME ~g.past PROVE Clear(g)
      OBVIOUS
    <3>1. Clear(f)
      BY <2>2 DEF InPiece, Steady
    <3>2. CASE ~f.ctx.done
      BY <2>1, <2>2, <2>3, <3>1, <3>2 DEF Clear, Placed
    <3>3. CASE f.ctx.done
      BY <2>1, <3>1, <3>3 DEF Clear
    <3> QED
      BY <3>2, <3>3
  <2> QED
    BY <2>2, <2>4, <2>5 DEF Steady, InPiece, g
<1> QED
  BY <1>1, <1>2

LEMMA ExecuteSteady ==
    ASSUME NEW f, Steady(f), NEW piece \in Text
    PROVE  Steady(Execute(f, piece))
<1> DEFINE r == IF f.parser.state \in {"url", "name", "value"} THEN << <<>> >> ELSE Null
<1> DEFINE begun == [f EXCEPT !.parser.size = 0, !.parser.run = r]
<1> DEFINE after == CHOOSE h : IsAfter(h, begun, piece)
<1> DEFINE read == after[Len(piece)]
<1>1. Execute(f, piece) = IF read.parser.error \/ read.parser.stopped \/ read.crashed
                          THEN read ELSE CallBack(read)
  BY Zenon DEF Execute, IsAfter
<1>2. InPiece(begun)
  <2>1. <<>> \in Text
    BY DEF Text
  <2>2. r \in Pointer /\ (r # Null <=> f.parser.state \in {"url", "name", "value"})
    BY <2>1, OptionalFacts DEF Pointer
  <2> HIDE DEF r
  <2> QED
    BY <2>2, BegunKept
<1> HIDE DEF begun
<1>3. after = [n \in 0..Len(piece) |->
                   IF n = 0 THEN begun ELSE ExecuteByte(after[n - 1], piece[n])]
  <2>1. \E h : IsAfter(h, begun, piece)
    BY AfterDefined
  <2>2. IsAfter(after, begun, piece)
    BY <2>1
  <2> QED
    BY <2>2 DEF IsAfter
<1> HIDE DEF after
<1>4. Len(piece) \in Nat /\ \A n \in 1..Len(piece) : piece[n] \in Bytes
  BY DEF Text
<1> DEFINE S == {n \in Nat : n <= Len(piece) => InPiece(after[n])}
<1>5. 0 \in S
  <2>1. after[0] = begun
    BY <1>3, <1>4
  <2> QED
    BY <1>2, <2>1
<1>6. ASSUME NEW n \in Nat, n \in S PROVE n + 1 \in S
  <2> SUFFICES ASSUME n + 1 <= Len(piece) PROVE InPiece(after[n + 1])
    OBVIOUS
  <2>1. /\ n + 1 \in 0..Len(piece) /\ n + 1 # 0 /\ (n + 1) - 1 = n
        /\ piece[n + 1] \in Bytes
    BY <1>4
  <2>2. after[n + 1] = ExecuteByte(after[n], piece[n + 1])
    BY <1>3, <2>1
  <2>3. InPiece(after[n])
    BY <1>4, <1>6
  <2> QED
    BY <2>1, <2>2, <2>3, ExecuteByteKept
<1>7. InPiece(read)
  <2>1. Len(piece) \in S
    <3> HIDE DEF S
    <3> QED
      BY <1>4, <1>5, <1>6, Induction
  <2> QED
    BY <1>4, <2>1
<1> HIDE DEF read, S
<1> QED
  BY <1>1, <1>7, EndKept DEF InPiece

-----------------------------------------------------------------------------
(* The url *)

LEMMA TextFacts ==
    /\ <<>> \in Text
    /\ \A c \in Bytes : <<c>> \in Text
    /\ \A s, t \in Text : s \o t \in Text
    /\ \A s \in Text : \A i \in 1..(Len(s) + 1) : \A j \in 0..Len(s) :
          SubSeq(s, i, j) \in Text /\ Len(SubSeq(s, i, j)) = IF i <= j THEN j - i + 1 ELSE 0
    /\ \A s \in Text : Len(s) \in Nat /\ \A i \in 1..Len(s) : s[i] \in Bytes
<1>1. ASSUME NEW S
      PROVE  /\ <<>> \in Seq(S)
             /\ \A c \in S : <<c>> \in Seq(S)
             /\ \A s, t \in Seq(S) : s \o t \in Seq(S)
             /\ \A s \in Seq(S) : Len(s) \in Nat /\ \A i \in 1..Len(s) : s[i] \in S
  OBVIOUS
<1>2. ASSUME NEW S, NEW s \in Seq(S), NEW i \in 1..(Len(s) + 1), NEW j \in 0..Len(s)
      PROVE  /\ SubSeq(s, i, j) \in Seq(S)
             /\ Len(SubSeq(s, i, j)) = IF i <= j THEN j - i + 1 ELSE 0
  <2>1. i \in Int /\ j \in Int /\ \A k \in i..j : s[k] \in S
    BY <1>1
  <2> QED
    BY <2>1, SubSeqProperties
<1> QED
  BY <1>1, <1>2, Zenon DEF Text

LEMMA MinFacts ==
    ASSUME NEW A \in SUBSET Nat, NEW a \in A
    PROVE  Min(A) \in A /\ \A y \in A : Min(A) <= y
<1> DEFINE Least(x) == x \in A /\ \A y \in A : x <= y
<1> DEFINE S == {n \in Nat : (\E x \in A : x <= n) => \E x \in A : Least(x)}
<1>1. 0 \in S
  OBVIOUS
<1>2. ASSUME NEW n \in Nat, n \in S PROVE n + 1 \in S
  <2> SUFFICES ASSUME NEW x \in A, x <= n + 1 PROVE \E y \in A : Least(y)
    OBVIOUS
  <2>1. CASE \E y \in A : y <= n
    BY <1>2, <2>1
  <2>2. CASE ~\E y \in A : y <= n
    <3>1. \A y \in A : n + 1 <= y
      BY <2>2
    <3> QED
      BY <3>1
  <2> QED
    BY <2>1, <2>2
<1>3. a \in S
  <2> HIDE DEF S
  <2> QED
    BY <1>1, <1>2, Induction
<1>4. \E x \in A : Least(x)
  BY <1>3
<1> QED
  BY <1>4 DEF Min

LEMMA FindFacts ==
    ASSUME NEW s \in Text, NEW i \in Nat \ {0}, NEW stops
    PROVE  /\ Find(s, i, stops) \in 1..(Len(s) + 1)
           /\ Find(s, i, stops) >= i \/ Find(s, i, stops) = Len(s) + 1
<1> DEFINE A == {n \in i..Len(s) : s[n] \in stops} \cup {Len(s) + 1}
<1>1. Len(s) \in Nat
  BY TextFacts
<1>2. A \in SUBSET Nat /\ Len(s) + 1 \in A
  BY <1>1
<1>3. \A n \in A : n \in 1..(Len(s) + 1) /\ (n >= i \/ n = Len(s) + 1)
  BY <1>1
<1>4. Find(s, i, stops) = Min(A)
  BY DEF Find
<1> HIDE DEF A
<1>5. Min(A) \in A
  BY <1>2, MinFacts
<1> QED
  BY <1>3, <1>4, <1>5

LEMMA CStringText ==
    ASSUME NEW s \in Text
    PROVE  CString(s) \in Text
<1> DEFINE n == Find(s, 1, {"NUL"})
<1>1. n \in 1..(Len(s) + 1) /\ Len(s) \in Nat
  BY FindFacts, TextFacts
<1>2. CString(s) = SubSeq(s, 1, n - 1)
  BY DEF CString
<1> HIDE DEF n
<1>3. 1 \in 1..(Len(s) + 1) /\ n - 1 \in 0..Len(s)
  BY <1>1
<1> QED
  BY <1>2, <1>3, TextFacts

(* decode_query from each place of a text, when rest is decode_query for   *)
(* one byte less                                                           *)
DecodeMore(rest, s, k) ==
    IF k > Len(s) THEN <<>>
    ELSE IF s[k] = "%" /\ k + 2 <= Len(s)
         THEN <<Hex(s[k + 1], s[k + 2])>> \o rest[k + 3]
         ELSE <<IF s[k] = "+" THEN Space ELSE s[k]>> \o rest[k + 1]

LEMMA DecodeMoreText ==
    ASSUME NEW s \in Text, NEW k \in 1..(Len(s) + 1), NEW rest,
           \A i \in 1..(Len(s) + 1) : rest[i] \in Text
    PROVE  DecodeMore(rest, s, k) \in Text
<1>1. \A x, y : Hex(x, y) \in Bytes
  BY HttpAssumption DEF Hex
<1>2. CASE k > Len(s)
  BY <1>2, TextFacts DEF DecodeMore
<1>3. CASE k <= Len(s) /\ s[k] = "%" /\ k + 2 <= Len(s)
  <2>1. k + 3 \in 1..(Len(s) + 1)
    BY <1>3, TextFacts
  <2>2. <<Hex(s[k + 1], s[k + 2])>> \in Text /\ rest[k + 3] \in Text
    BY <1>1, <1>3, <2>1, TextFacts
  <2>3. DecodeMore(rest, s, k) = <<Hex(s[k + 1], s[k + 2])>> \o rest[k + 3]
    BY <1>3, TextFacts DEF DecodeMore
  <2> QED
    BY <2>2, <2>3, TextFacts
<1>4. CASE k <= Len(s) /\ ~(s[k] = "%" /\ k + 2 <= Len(s))
  <2> DEFINE c == IF s[k] = "+" THEN Space ELSE s[k]
  <2>1. k + 1 \in 1..(Len(s) + 1) /\ k \in 1..Len(s) /\ ~(k > Len(s))
    BY <1>4, TextFacts
  <2>2. rest[k + 1] \in Text /\ s[k] \in Bytes
    BY <2>1, TextFacts
  <2>3. c \in Bytes
    BY <2>2, HttpAssumption
  <2>4. DecodeMore(rest, s, k) = <<c>> \o rest[k + 1]
    BY <1>4, <2>1, Zenon DEF DecodeMore
  <2> HIDE DEF c
  <2> QED
    BY <2>2, <2>3, <2>4, TextFacts
<1> QED
  BY <1>2, <1>3, <1>4, TextFacts

IsDecoded(h, s, length) ==
    h = [n \in 0..length |->
            [k \in 1..(Len(s) + 1) |->
                IF n = 0 \/ k > Len(s) THEN <<>>
                ELSE IF s[k] = "%" /\ k + 2 <= Len(s)
                     THEN <<Hex(s[k + 1], s[k + 2])>> \o h[n - 1][k + 3]
                     ELSE <<IF s[k] = "+" THEN Space ELSE s[k]>> \o h[n - 1][k + 1]]]

(* the same row by row *)
Row(h, s, n) == [k \in 1..(Len(s) + 1) |-> IF n = 0 THEN <<>> ELSE DecodeMore(h[n - 1], s, k)]

LEMMA RowsDecoded ==
    ASSUME NEW s, NEW h, NEW length
    PROVE  IsDecoded(h, s, length) <=> h = [n \in 0..length |-> Row(h, s, n)]
<1> DEFINE Cell(n, k) ==
        IF n = 0 \/ k > Len(s) THEN <<>>
        ELSE IF s[k] = "%" /\ k + 2 <= Len(s)
             THEN <<Hex(s[k + 1], s[k + 2])>> \o h[n - 1][k + 3]
             ELSE <<IF s[k] = "+" THEN Space ELSE s[k]>> \o h[n - 1][k + 1]
<1> DEFINE Other(n, k) == IF n = 0 THEN <<>> ELSE DecodeMore(h[n - 1], s, k)
<1>1. ASSUME NEW n, NEW k PROVE Cell(n, k) = Other(n, k)
  <2>1. CASE n = 0
    BY <2>1
  <2>2. CASE n # 0 /\ k > Len(s)
    BY <2>2, Zenon DEF DecodeMore
  <2>3. CASE n # 0 /\ ~(k > Len(s))
    BY <2>3, Zenon DEF DecodeMore
  <2> QED
    BY <2>1, <2>2, <2>3
<1>2. IsDecoded(h, s, length)
          <=> h = [n \in 0..length |-> [k \in 1..(Len(s) + 1) |-> Cell(n, k)]]
  BY Zenon DEF IsDecoded
<1>3. ASSUME NEW n PROVE Row(h, s, n) = [k \in 1..(Len(s) + 1) |-> Other(n, k)]
  BY Zenon DEF Row
<1> HIDE DEF Cell, Other
<1>4. ASSUME NEW n
      PROVE  Row(h, s, n) = [k \in 1..(Len(s) + 1) |-> Cell(n, k)]
  <2>1. [k \in 1..(Len(s) + 1) |-> Other(n, k)] = [k \in 1..(Len(s) + 1) |-> Cell(n, k)]
    BY <1>1, Zenon
  <2> QED
    BY <1>3, <2>1, Zenon
<1>5. [n \in 0..length |-> [k \in 1..(Len(s) + 1) |-> Cell(n, k)]]
          = [n \in 0..length |-> Row(h, s, n)]
  BY <1>4, Zenon
<1> QED
  BY <1>2, <1>5, Zenon

LEMMA RowText ==
    ASSUME NEW s \in Text, NEW n \in Nat, NEW h,
           n # 0 => h[n - 1] \in [1..(Len(s) + 1) -> Text]
    PROVE  Row(h, s, n) \in [1..(Len(s) + 1) -> Text]
<1> SUFFICES ASSUME NEW k \in 1..(Len(s) + 1)
             PROVE  (IF n = 0 THEN <<>> ELSE DecodeMore(h[n - 1], s, k)) \in Text
  BY DEF Row
<1>1. CASE n = 0
  BY <1>1, TextFacts
<1>2. CASE n # 0
  <2> DEFINE rest == h[n - 1]
  <2>1. \A i \in 1..(Len(s) + 1) : rest[i] \in Text
    BY <1>2
  <2> HIDE DEF rest
  <2>2. DecodeMore(rest, s, k) \in Text
    BY <2>1, DecodeMoreText
  <2> QED
    BY <1>2, <2>2 DEF rest
<1> QED
  BY <1>1, <1>2

LEMMA DecodedExists ==
    ASSUME NEW s \in Text, NEW length \in Nat
    PROVE  \E h : IsDecoded(h, s, length)
<1> DEFINE Made(h, m) == h = [n \in 0..m |-> Row(h, s, n)]
<1> DEFINE S == {m \in Nat : \E h : Made(h, m)}
<1>1. 0 \in S
  <2> DEFINE row == [k \in 1..(Len(s) + 1) |-> <<>>]
  <2> DEFINE h == [n \in 0..0 |-> row]
  <2>1. \A n \in 0..0 : Row(h, s, n) = row
    BY DEF Row
  <2> HIDE DEF row
  <2>2. Made(h, 0)
    BY <2>1
  <2> HIDE DEF h, Made
  <2> QED
    BY <2>2
<1>2. ASSUME NEW m \in Nat, m \in S PROVE m + 1 \in S
  <2>1. PICK h : Made(h, m)
    BY <1>2
  <2> DEFINE last == Row(h, s, m + 1)
  <2> DEFINE k == [n \in 0..(m + 1) |-> IF n = m + 1 THEN last ELSE h[n]]
  <2>2. \A n \in 0..m : h[n] = Row(h, s, n)
    BY <2>1
  <2> HIDE DEF Made, last
  <2>3. /\ \A n \in 0..m : k[n] = h[n] /\ n - 1 # m + 1
        /\ k[m + 1] = last
    OBVIOUS
  <2>4. k = [n \in 0..(m + 1) |-> k[n]]
    OBVIOUS
  <2> HIDE DEF k
  <2>5. ASSUME NEW n \in 0..(m + 1), n # 0 => k[n - 1] = h[n - 1]
        PROVE  Row(k, s, n) = Row(h, s, n)
    BY <2>5 DEF Row
  <2>6. \A n \in 0..(m + 1) : k[n] = Row(k, s, n)
    <3> SUFFICES ASSUME NEW n \in 0..(m + 1) PROVE k[n] = Row(k, s, n)
      OBVIOUS
    <3>1. n # 0 => k[n - 1] = h[n - 1]
      BY <2>3
    <3>2. k[n] = Row(h, s, n)
      <4>1. CASE n = m + 1
        BY <2>3, <4>1 DEF last
      <4>2. CASE n # m + 1
        BY <2>2, <2>3, <4>2
      <4> QED
        BY <4>1, <4>2
    <3> QED
      BY <2>5, <3>1, <3>2
  <2>7. [n \in 0..(m + 1) |-> k[n]] = [n \in 0..(m + 1) |-> Row(k, s, n)]
    BY <2>6, Zenon
  <2>8. Made(k, m + 1)
    BY <2>4, <2>7, Zenon DEF Made
  <2> QED
    BY <2>8
<1>3. length \in S
  <2> HIDE DEF S
  <2> QED
    BY <1>1, <1>2, Induction
<1>4. \E h : Made(h, length)
  BY <1>3
<1> QED
  BY <1>4, RowsDecoded, Zenon

LEMMA DecodeText ==
    ASSUME NEW s \in Text, NEW i \in 1..(Len(s) + 1), NEW length \in Nat
    PROVE  Decode(s, i, length) \in Text
<1> DEFINE h == CHOOSE d : IsDecoded(d, s, length)
<1>1. Decode(s, i, length) = h[length][i]
  BY Zenon DEF Decode, IsDecoded
<1>2. IsDecoded(h, s, length)
  BY DecodedExists
<1> HIDE DEF h
<1>3. h = [n \in 0..length |-> Row(h, s, n)]
  BY <1>2, RowsDecoded, Zenon
<1> DEFINE S == {n \in Nat : n <= length => h[n] \in [1..(Len(s) + 1) -> Text]}
<1>4. \A n \in 0..length : h[n] = Row(h, s, n)
  BY <1>3
<1>5. 0 \in S
  BY <1>4, RowText
<1>6. ASSUME NEW n \in Nat, n \in S PROVE n + 1 \in S
  <2> SUFFICES ASSUME n + 1 <= length PROVE h[n + 1] \in [1..(Len(s) + 1) -> Text]
    OBVIOUS
  <2>1. h[n] \in [1..(Len(s) + 1) -> Text] /\ (n + 1) - 1 = n /\ n + 1 \in Nat
    BY <1>6
  <2>2. Row(h, s, n + 1) \in [1..(Len(s) + 1) -> Text]
    BY <2>1, RowText
  <2> QED
    BY <1>4, <2>2
<1>7. length \in S
  <2> HIDE DEF S
  <2> QED
    BY <1>5, <1>6, Induction
<1> QED
  BY <1>1, <1>7

LEMMA DecodeQueryText ==
    ASSUME NEW s \in Text, NEW i \in 1..(Len(s) + 1), NEW length \in Nat
    PROVE  DecodeQuery(s, i, length) \in Text
BY DecodeText, CStringText DEF DecodeQuery

LEMMA ParamHeaders ==
    ASSUME NEW q \in Text, NEW start \in 1..(Len(q) + 1), NEW end \in start..(Len(q) + 1)
    PROVE  Param(q, start, end) \in Seq(Headers)
<1> DEFINE s == SubSeq(q, 1, end - 1)
<1> DEFINE eq == Find(s, start, {"="})
<1>1. Len(q) \in Nat /\ start \in Nat /\ end \in Nat /\ 1 <= start /\ start <= end
      /\ end <= Len(q) + 1
  BY TextFacts
<1>2. s \in Text /\ Len(s) = end - 1
  <2>1. 1 \in 1..(Len(q) + 1) /\ end - 1 \in 0..Len(q)
    BY <1>1
  <2> QED
    BY <1>1, <2>1, TextFacts
<1> HIDE DEF s
<1>3. eq \in Nat /\ start <= eq /\ eq <= end
  <2>1. eq \in 1..(Len(s) + 1) /\ (eq >= start \/ eq = Len(s) + 1)
    BY <1>1, <1>2, FindFacts
  <2> HIDE DEF eq
  <2> QED
    BY <1>1, <1>2, <2>1
<1>4. Param(q, start, end) =
        IF eq = end THEN <<[name |-> <<DecodeQuery(q, start, end - start)>>, value |-> Null]>>
        ELSE IF eq = start THEN <<>>
        ELSE <<[name |-> <<DecodeQuery(q, start, eq - start)>>,
                value |-> IF eq < end - 1 THEN <<DecodeQuery(q, eq + 1, end - eq - 1)>>
                          ELSE Null]>>
  BY DEF Param, s
<1> HIDE DEF eq
<1>5. ASSUME NEW n \in Pointer, NEW v \in Pointer
      PROVE  <<[name |-> n, value |-> v]>> \in Seq(Headers)
  BY DEF Headers
<1>6. Null \in Pointer /\ \A t \in Text : <<t>> \in Pointer
  BY OptionalFacts DEF Pointer
<1>7. CASE eq = end
  <2> DEFINE t == DecodeQuery(q, start, end - start)
  <2>1. t \in Text
    BY <1>1, DecodeQueryText
  <2>2. Param(q, start, end) = <<[name |-> <<t>>, value |-> Null]>>
    BY <1>4, <1>7
  <2> HIDE DEF t
  <2> QED
    BY <1>5, <1>6, <2>1, <2>2
<1>8. CASE eq # end /\ eq = start
  <2>1. Param(q, start, end) = <<>>
    BY <1>4, <1>8
  <2> QED
    BY <2>1
<1>9. CASE eq # end /\ eq # start
  <2> DEFINE t == DecodeQuery(q, start, eq - start)
  <2> DEFINE u == DecodeQuery(q, eq + 1, end - eq - 1)
  <2> DEFINE v == IF eq < end - 1 THEN <<u>> ELSE Null
  <2>1. t \in Text
    <3>1. eq - start \in Nat
      BY <1>1, <1>3
    <3> QED
      BY <3>1, DecodeQueryText
  <2>2. u \in Text
    <3>1. eq + 1 \in 1..(Len(q) + 1) /\ end - eq - 1 \in Nat
      BY <1>1, <1>3, <1>9
    <3> QED
      BY <3>1, DecodeQueryText
  <2>3. Param(q, start, end) = <<[name |-> <<t>>, value |-> v]>>
    BY <1>4, <1>9
  <2> HIDE DEF t, u
  <2>4. v \in Pointer /\ <<t>> \in Pointer
    BY <1>6, <2>1, <2>2
  <2> HIDE DEF v
  <2> QED
    BY <1>5, <2>3, <2>4
<1> QED
  BY <1>7, <1>8, <1>9

(* parse_query from one place on, when h is parse_query behind it *)
ParseFrom(h, q, start) ==
    LET end == Find(q, start, {"&"})
    IN  IF end = start THEN <<>>
        ELSE (IF end > Len(q) THEN <<>> ELSE h[end + 1]) \o Param(q, start, end)

IsParsed(h, q) == h = [start \in 1..(Len(q) + 1) |-> ParseFrom(h, q, start)]

LEMMA ParseFromLater ==
    ASSUME NEW q \in Text, NEW start \in 1..(Len(q) + 1), NEW h, NEW k,
           \A i \in (start + 1)..(Len(q) + 1) : h[i] = k[i]
    PROVE  /\ ParseFrom(h, q, start) = ParseFrom(k, q, start)
           /\ (\A i \in (start + 1)..(Len(q) + 1) : h[i] \in Seq(Headers))
                  => ParseFrom(h, q, start) \in Seq(Headers)
<1> DEFINE end == Find(q, start, {"&"})
<1> DEFINE rest(f) == IF end > Len(q) THEN <<>> ELSE f[end + 1]
<1>1. Len(q) \in Nat /\ start \in Nat \ {0} /\ start <= Len(q) + 1
  BY TextFacts
<1>2. end \in start..(Len(q) + 1)
  <2>1. end \in 1..(Len(q) + 1) /\ (end >= start \/ end = Len(q) + 1)
    BY <1>1, FindFacts
  <2> HIDE DEF end
  <2> QED
    BY <1>1, <2>1
<1>3. /\ ParseFrom(h, q, start) = IF end = start THEN <<>> ELSE rest(h) \o Param(q, start, end)
      /\ ParseFrom(k, q, start) = IF end = start THEN <<>> ELSE rest(k) \o Param(q, start, end)
  BY DEF ParseFrom
<1> HIDE DEF end
<1>4. end > Len(q) \/ end + 1 \in (start + 1)..(Len(q) + 1)
  BY <1>1, <1>2
<1>5. rest(h) = rest(k)
  BY <1>4
<1>6. Param(q, start, end) \in Seq(Headers)
  BY <1>2, ParamHeaders
<1>7. (\A i \in (start + 1)..(Len(q) + 1) : h[i] \in Seq(Headers)) => rest(h) \in Seq(Headers)
  BY <1>4
<1> HIDE DEF rest
<1>8. ASSUME NEW s \in Seq(Headers), NEW t \in Seq(Headers)
      PROVE  s \o t \in Seq(Headers) /\ <<>> \in Seq(Headers)
  OBVIOUS
<1> QED
  BY <1>3, <1>5, <1>6, <1>7, <1>8

LEMMA ParsedExists ==
    ASSUME NEW q \in Text
    PROVE  \E h : IsParsed(h, q)
<1> DEFINE L == Len(q)
<1> DEFINE Made(h, m) == h = [start \in (L + 2 - m)..(L + 1) |-> ParseFrom(h, q, start)]
<1> DEFINE S == {m \in Nat : m <= L + 1 => \E h : Made(h, m)}
<1>1. L \in Nat
  BY TextFacts
<1>2. 0 \in S
  <2> DEFINE h == [start \in {} |-> <<>>]
  <2>1. (L + 2 - 0)..(L + 1) = {}
    BY <1>1
  <2>2. Made(h, 0)
    BY <2>1
  <2> HIDE DEF h, Made
  <2> QED
    BY <2>2
<1>3. ASSUME NEW m \in Nat, m \in S PROVE m + 1 \in S
  <2> SUFFICES ASSUME m + 1 <= L + 1 PROVE \E h : Made(h, m + 1)
    OBVIOUS
  <2>1. PICK h : Made(h, m)
    BY <1>1, <1>3
  <2> DEFINE a == L + 1 - m
  <2> DEFINE first == ParseFrom(h, q, a)
  <2> DEFINE k == [start \in a..(L + 1) |-> IF start = a THEN first ELSE h[start]]
  <2>2. a \in Nat /\ 1 <= a /\ a <= L + 1 /\ L + 2 - m = a + 1 /\ L + 2 - (m + 1) = a
    BY <1>1
  <2>3. \A start \in (a + 1)..(L + 1) : h[start] = ParseFrom(h, q, start)
    BY <2>1, <2>2
  <2>4. Made(k, m + 1) <=> k = [start \in a..(L + 1) |-> ParseFrom(k, q, start)]
    BY <2>2, Zenon
  <2> HIDE DEF Made, first, a
  <2>5. \A start \in (a + 1)..(L + 1) : k[start] = h[start] /\ start \in Nat /\ start > a
    BY <2>2
  <2>6. k = [start \in a..(L + 1) |-> k[start]] /\ k[a] = first
    BY <2>2, <1>1
  <2> HIDE DEF k
  <2>7. \A start \in a..(L + 1) : k[start] = ParseFrom(k, q, start)
    <3> SUFFICES ASSUME NEW start \in a..(L + 1) PROVE k[start] = ParseFrom(k, q, start)
      OBVIOUS
    <3>1. /\ start \in 1..(L + 1)
          /\ \A i \in (start + 1)..(L + 1) : i \in (a + 1)..(L + 1)
      BY <1>1, <2>2
    <3>2. ParseFrom(k, q, start) = ParseFrom(h, q, start)
      BY <2>5, <3>1, ParseFromLater
    <3>3. CASE start = a
      BY <2>6, <3>2, <3>3 DEF first
    <3>4. CASE start # a
      <4>1. start \in (a + 1)..(L + 1)
        BY <1>1, <2>2, <3>4
      <4> QED
        BY <2>3, <2>5, <3>2, <4>1
    <3> QED
      BY <3>3, <3>4
  <2>8. [start \in a..(L + 1) |-> k[start]] = [start \in a..(L + 1) |-> ParseFrom(k, q, start)]
    BY <2>7, Zenon
  <2>9. Made(k, m + 1)
    BY <2>4, <2>6, <2>8, Zenon
  <2> QED
    BY <2>9
<1>4. L + 1 \in S
  <2> HIDE DEF S
  <2> QED
    BY <1>1, <1>2, <1>3, Induction
<1>5. PICK h : Made(h, L + 1)
  BY <1>1, <1>4
<1>6. L + 2 - (L + 1) = 1
  BY <1>1
<1>7. IsParsed(h, q)
  BY <1>5, <1>6 DEF IsParsed
<1> QED
  BY <1>7

LEMMA ParseQueryHeaders ==
    ASSUME NEW q \in Text
    PROVE  ParseQuery(q) \in Seq(Headers)
<1> DEFINE L == Len(q)
<1> DEFINE h == CHOOSE f : IsParsed(f, q)
<1>1. ParseQuery(q) = h[1]
  BY Zenon DEF ParseQuery, IsParsed, ParseFrom
<1>2. IsParsed(h, q)
  BY ParsedExists
<1> HIDE DEF h
<1>3. L \in Nat /\ \A start \in 1..(L + 1) : h[start] = ParseFrom(h, q, start)
  BY <1>2, TextFacts DEF IsParsed
<1> DEFINE S == {m \in Nat : \A start \in (L + 2 - m)..(L + 1) :
                                 start >= 1 => h[start] \in Seq(Headers)}
<1>4. 0 \in S
  BY <1>3
<1>5. ASSUME NEW m \in Nat, m \in S PROVE m + 1 \in S
  <2> SUFFICES ASSUME NEW start \in (L + 2 - (m + 1))..(L + 1), start >= 1
               PROVE  h[start] \in Seq(Headers)
    OBVIOUS
  <2>1. start \in 1..(L + 1) /\ \A i \in (start + 1)..(L + 1) :
                                   i \in (L + 2 - m)..(L + 1) /\ i >= 1
    BY <1>3
  <2>2. \A i \in (start + 1)..(L + 1) : h[i] \in Seq(Headers)
    BY <1>5, <2>1
  <2>3. ParseFrom(h, q, start) \in Seq(Headers)
    BY <2>1, <2>2, ParseFromLater
  <2> QED
    BY <1>3, <2>1, <2>3
<1>6. L + 1 \in S
  <2> HIDE DEF S
  <2> QED
    BY <1>3, <1>4, <1>5, Induction
<1>7. h[1] \in Seq(Headers)
  BY <1>3, <1>6
<1> QED
  BY <1>1, <1>7

LEMMA FieldPointer ==
    ASSUME NEW url \in Text, NEW from \in Nat \ {0}, NEW to \in 0..Len(url)
    PROVE  Field(url, from, to) \in Pointer
<1>1. CASE from > to
  BY <1>1, OptionalFacts DEF Field, Pointer
<1>2. CASE ~(from > to)
  <2>1. from \in 1..(Len(url) + 1) /\ to \in 0..Len(url)
    BY <1>2, TextFacts
  <2>2. SubSeq(url, from, to) \in Text
    BY <2>1, TextFacts
  <2>3. Field(url, from, to) = <<SubSeq(url, from, to)>>
    BY <1>2 DEF Field
  <2> QED
    BY <2>2, <2>3, OptionalFacts DEF Pointer
<1> QED
  BY <1>1, <1>2

(* What http_parser_parse_url makes of a request, field by field. *)
LEMMA ParseUrlEffect ==
    ASSUME NEW r \in Requests, r.url # Null
    PROVE  LET p == ParseUrl(r)
           IN  p \in Requests /\ p.url = r.url /\ p.headers = r.headers
<1> DEFINE url == r.url[1]
<1> DEFINE abs == url[1] = "http://h"
<1> DEFINE from == IF abs THEN 2 ELSE 1
<1> DEFINE q == Find(url, from, {"?", "#"})
<1> DEFINE h == Find(url, q, {"#"})
<1> DEFINE schema == IF abs THEN << <<"http">> >> ELSE Null
<1> DEFINE host == IF abs THEN << <<"h">> >> ELSE Null
<1> DEFINE query == Field(url, q + 1, h - 1)
<1> DEFINE path == Field(url, from, q - 1)
<1> DEFINE shown == IF path = Null THEN Null ELSE <<DecodeQuery(url, from, q - from)>>
<1> DEFINE params == IF query = Null THEN <<>> ELSE ParseQuery(query[1])
<1> DEFINE fragment == Field(url, h + 1, Len(url))
<1>1. url \in Text /\ Len(url) \in Nat
  BY OptionalFacts, TextFacts DEF Requests, Pointer
<1>2. ParseUrl(r) = IF url[1] = "h:1" THEN [r EXCEPT !.host = <<url>>]
                    ELSE [r EXCEPT !.schema = schema, !.host = host, !.path = shown,
                                   !.query = query, !.params = params, !.fragment = fragment]
  BY Zenon DEF ParseUrl
<1>3. Null \in Pointer /\ \A t \in Text : <<t>> \in Pointer /\ <<t>>[1] = t
  BY OptionalFacts DEF Pointer
<1>4. schema \in Pointer /\ host \in Pointer
  <2>1. "http" \in Bytes /\ "h" \in Bytes
    BY HttpAssumption
  <2>2. <<"http">> \in Text /\ <<"h">> \in Text
    BY <2>1, TextFacts
  <2> QED
    BY <1>3, <2>2
<1>5. from \in Nat \ {0}
  OBVIOUS
<1> HIDE DEF url, from, schema, host
<1>6. q \in 1..(Len(url) + 1) /\ q \in Nat \ {0}
  BY <1>1, <1>5, FindFacts
<1> HIDE DEF q
<1>7. h \in 1..(Len(url) + 1)
  BY <1>1, <1>6, FindFacts
<1> HIDE DEF h
<1>8. query \in Pointer /\ path \in Pointer /\ fragment \in Pointer
  <2>1. /\ q + 1 \in Nat \ {0} /\ h + 1 \in Nat \ {0}
        /\ h - 1 \in 0..Len(url) /\ q - 1 \in 0..Len(url) /\ Len(url) \in 0..Len(url)
    BY <1>1, <1>6, <1>7
  <2> QED
    BY <1>1, <1>5, <2>1, FieldPointer
<1>9. shown \in Pointer
  <2>1. CASE path = Null
    BY <1>3, <2>1
  <2>2. CASE path # Null
    <3>1. ~(from > q - 1)
      BY <2>2 DEF Field
    <3>2. from \in 1..(Len(url) + 1) /\ q - from \in Nat
      BY <1>1, <1>5, <1>6, <3>1
    <3> QED
      BY <1>1, <1>3, <2>2, <3>2, DecodeQueryText
  <2> QED
    BY <2>1, <2>2
<1>10. params \in Seq(Headers)
  <2>1. CASE query = Null
    BY <2>1
  <2>2. CASE query # Null
    <3>1. query[1] \in Text
      BY <1>8, <2>2, OptionalFacts DEF Pointer
    <3> QED
      BY <2>2, <3>1, ParseQueryHeaders
  <2> QED
    BY <2>1, <2>2
<1> HIDE DEF query, path, shown, params, fragment, abs
<1>11. <<url>> \in Pointer
  BY <1>1, <1>3
<1>12. ASSUME NEW u \in Pointer
       PROVE  LET p == [r EXCEPT !.host = u]
              IN  p \in Requests /\ p.url = r.url /\ p.headers = r.headers
  BY DEF Requests
<1>13. LET p == [r EXCEPT !.schema = schema, !.host = host, !.path = shown,
                          !.query = query, !.params = params, !.fragment = fragment]
       IN  p \in Requests /\ p.url = r.url /\ p.headers = r.headers
  BY <1>4, <1>8, <1>9, <1>10 DEF Requests
<1> QED
  BY <1>2, <1>11, <1>12, <1>13

-----------------------------------------------------------------------------
(* What http_request_parse leaves behind *)

LEMMA NothingHeld ==
    /\ NoRequest \in Requests /\ HeldRequest(NoRequest) = 0
    /\ \A c \in Contexts : c.data = Null /\ c.header = Null => HeldContext(c) = 0
<1>1. <<>> \in Seq(Headers) /\ Null \in Pointer
  BY OptionalFacts DEF Pointer
<1>2. NoRequest \in Requests
  BY <1>1 DEF NoRequest, Requests
<1>3. HeldHeaders(<<>>) = 0 /\ Owned(Null) = 0
  BY <1>1, HeldFacts DEF Owned
<1>4. /\ NoRequest.url = Null /\ NoRequest.schema = Null /\ NoRequest.host = Null
      /\ NoRequest.path = Null /\ NoRequest.query = Null /\ NoRequest.fragment = Null
      /\ NoRequest.params = <<>> /\ NoRequest.headers = <<>>
  BY DEF NoRequest
<1>5. HeldRequest(NoRequest) = 0
  BY <1>3, <1>4 DEF HeldRequest, HeldUri
<1>6. \A c \in Contexts : c.data = Null /\ c.header = Null => HeldContext(c) = 0
  BY <1>3 DEF HeldContext, Null
<1> QED
  BY <1>2, <1>5, <1>6

LEMMA CleanEffect ==
    ASSUME NEW f \in Frames
    PROVE  LET g == Clean(f)
           IN  /\ g \in Frames /\ g.parser = f.parser /\ g.ctx = f.ctx /\ g.past = f.past
               /\ g.crashed = f.crashed /\ g.request = NoRequest
               /\ Balanced(f) => Balanced(g)
<1> DEFINE n == f.allocs - HeldRequest(f.request)
<1> DEFINE g == [f EXCEPT !.allocs = n, !.request = NoRequest]
<1>1. /\ f.request \in Requests /\ f.ctx \in Contexts /\ f.allocs \in Int
      /\ HeldRequest(f.request) \in Nat /\ HeldContext(f.ctx) \in Nat
  BY HeldNat DEF Frames
<1>2. Clean(f) = g
  BY DEF Clean
<1>3. n \in Int /\ (Balanced(f) => n = HeldContext(f.ctx))
  BY <1>1 DEF Balanced
<1> HIDE DEF n
<1>4. /\ g \in Frames /\ g.parser = f.parser /\ g.ctx = f.ctx /\ g.past = f.past
      /\ g.crashed = f.crashed /\ g.request = NoRequest /\ g.allocs = n
  BY <1>3, NothingHeld DEF Frames
<1> HIDE DEF g
<1>5. Balanced(f) => Balanced(g)
  BY <1>1, <1>3, <1>4, NothingHeld DEF Balanced
<1> QED
  BY <1>2, <1>4, <1>5

LEMMA FreeContextEffect ==
    ASSUME NEW f \in Frames
    PROVE  LET g == FreeContext(f)
           IN  /\ g \in Frames /\ g.parser = f.parser /\ g.request = f.request
               /\ g.past = f.past /\ g.crashed = f.crashed
               /\ g.ctx.data = Null /\ g.ctx.header = Null
               /\ Balanced(f) => Balanced(g)
<1> DEFINE n == f.allocs - HeldContext(f.ctx)
<1> DEFINE c == [f.ctx EXCEPT !.data = Null, !.header = Null]
<1> DEFINE g == [f EXCEPT !.allocs = n, !.ctx = c]
<1>1. /\ f.request \in Requests /\ f.ctx \in Contexts /\ f.allocs \in Int
      /\ HeldRequest(f.request) \in Nat /\ HeldContext(f.ctx) \in Nat
  BY HeldNat DEF Frames
<1>2. n \in Int /\ (Balanced(f) => n = HeldRequest(f.request))
  BY <1>1 DEF Balanced
<1>3. FreeContext(f) = g
  <2>1. FreeContext(f) = [f EXCEPT !.allocs = n, !.ctx.data = Null, !.ctx.header = Null]
    BY DEF FreeContext
  <2> HIDE DEF n
  <2> QED
    BY <1>1, <2>1 DEF Frames, Contexts
<1> HIDE DEF n
<1>4. c \in Contexts /\ c.data = Null /\ c.header = Null
  BY <1>1, OptionalFacts DEF Contexts, Pointer
<1> HIDE DEF c
<1>5. /\ g \in Frames /\ g.parser = f.parser /\ g.ctx = c /\ g.past = f.past
      /\ g.crashed = f.crashed /\ g.request = f.request /\ g.allocs = n
  BY <1>2, <1>4 DEF Frames
<1> HIDE DEF g
<1>6. Balanced(f) => Balanced(g)
  BY <1>1, <1>2, <1>4, <1>5, NothingHeld DEF Balanced
<1> QED
  BY <1>3, <1>4, <1>5, <1>6

LEMMA WholeEffect ==
    ASSUME NEW f \in Frames, f.request.url # Null
    PROVE  LET parsed == ParseUrl(f.request)
               g == [f EXCEPT !.request = parsed, !.allocs = @ + HeldUri(parsed)]
           IN  /\ g \in Frames /\ g.parser = f.parser /\ g.ctx = f.ctx /\ g.past = f.past
               /\ g.crashed = f.crashed
               /\ Balanced(f) /\ HeldUri(f.request) = 0 => Balanced(g)
<1> DEFINE parsed == ParseUrl(f.request)
<1> DEFINE n == f.allocs + HeldUri(parsed)
<1> DEFINE g == [f EXCEPT !.request = parsed, !.allocs = n]
<1>1. f.request \in Requests /\ f.ctx \in Contexts /\ f.allocs \in Int
  BY DEF Frames
<1>2. /\ parsed \in Requests /\ parsed.url = f.request.url
      /\ parsed.headers = f.request.headers
  BY <1>1, ParseUrlEffect
<1> HIDE DEF parsed
<1>3. HeldUri(parsed) \in Nat
  BY <1>1, <1>2, HeldNat
<1>4. n \in Int
  BY <1>1, <1>3
<1>5. ASSUME Balanced(f), HeldUri(f.request) = 0
      PROVE  n = HeldRequest(parsed) + HeldContext(f.ctx)
  <2>1. /\ HeldRequest(f.request) = Owned(f.request.url) + HeldHeaders(f.request.headers)
                                        + HeldUri(f.request)
        /\ HeldRequest(parsed) = Owned(f.request.url) + HeldHeaders(f.request.headers)
                                     + HeldUri(parsed)
    BY <1>2 DEF HeldRequest
  <2>2. f.allocs = HeldRequest(f.request) + HeldContext(f.ctx)
    BY <1>5 DEF Balanced
  <2>3. /\ Owned(f.request.url) \in Nat /\ HeldHeaders(f.request.headers) \in Nat
        /\ HeldContext(f.ctx) \in Nat
    BY <1>1, HeldNat DEF Owned
  <2> QED
    BY <1>3, <1>5, <2>1, <2>2, <2>3
<1> HIDE DEF n
<1>6. /\ g \in Frames /\ g.parser = f.parser /\ g.ctx = f.ctx /\ g.past = f.past
      /\ g.crashed = f.crashed /\ g.request = parsed /\ g.allocs = n
  BY <1>2, <1>4 DEF Frames
<1> HIDE DEF g
<1>7. Balanced(f) /\ HeldUri(f.request) = 0 => Balanced(g)
  BY <1>5, <1>6 DEF Balanced
<1> QED
  BY <1>6, <1>7 DEF g, n, parsed

-----------------------------------------------------------------------------
(* The bytes of messages *)

IsFlat(h, seqs) ==
    h = [i \in 1..Len(seqs) |-> IF i = 1 THEN seqs[i] ELSE h[i - 1] \o seqs[i]]

LEMMA FlatExists ==
    ASSUME NEW seqs \in Seq(Text)
    PROVE  \E h : IsFlat(h, seqs)
<1> DEFINE At(h, i) == IF i = 1 THEN seqs[i] ELSE h[i - 1] \o seqs[i]
<1> DEFINE Made(h, m) == h = [i \in 1..m |-> At(h, i)]
<1> DEFINE S == {m \in Nat : \E h : Made(h, m)}
<1>1. 0 \in S
  <2> DEFINE h == [i \in {} |-> <<>>]
  <2>1. 1..0 = {}
    OBVIOUS
  <2>2. Made(h, 0)
    BY <2>1
  <2> HIDE DEF h, Made
  <2> QED
    BY <2>2
<1>2. ASSUME NEW m \in Nat, m \in S PROVE m + 1 \in S
  <2>1. PICK h : Made(h, m)
    BY <1>2
  <2> DEFINE last == At(h, m + 1)
  <2> DEFINE k == [i \in 1..(m + 1) |-> IF i = m + 1 THEN last ELSE h[i]]
  <2>2. \A i \in 1..m : h[i] = At(h, i)
    BY <2>1
  <2> HIDE DEF Made, last
  <2>3. /\ \A i \in 1..m : k[i] = h[i]
        /\ k[m + 1] = last /\ k = [i \in 1..(m + 1) |-> k[i]]
    OBVIOUS
  <2> HIDE DEF k
  <2>4. \A i \in 1..(m + 1) : k[i] = At(k, i)
    <3> SUFFICES ASSUME NEW i \in 1..(m + 1) PROVE k[i] = At(k, i)
      OBVIOUS
    <3>1. i # 1 => k[i - 1] = h[i - 1]
      <4>1. i # 1 => i - 1 \in 1..m
        OBVIOUS
      <4> QED
        BY <2>3, <4>1
    <3>2. At(k, i) = At(h, i)
      BY <3>1
    <3> HIDE DEF At
    <3>3. CASE i = m + 1
      BY <2>3, <3>2, <3>3 DEF last
    <3>4. CASE i # m + 1
      <4>1. i \in 1..m
        BY <3>4
      <4> QED
        BY <2>2, <2>3, <3>2, <4>1
    <3> QED
      BY <3>3, <3>4
  <2> HIDE DEF At
  <2>5. [i \in 1..(m + 1) |-> k[i]] = [i \in 1..(m + 1) |-> At(k, i)]
    BY <2>4, Zenon
  <2>6. Made(k, m + 1)
    BY <2>3, <2>5, Zenon DEF Made
  <2> QED
    BY <2>6
<1>3. Len(seqs) \in S
  <2> HIDE DEF S
  <2>1. Len(seqs) \in Nat
    OBVIOUS
  <2> QED
    BY <1>1, <1>2, <2>1, Induction
<1>4. \E h : Made(h, Len(seqs))
  BY <1>3
<1> QED
  BY <1>4 DEF IsFlat

(* FlattenSeq, by the texts of the first i members. *)
LEMMA FlattenFacts ==
    ASSUME NEW seqs \in Seq(Text)
    PROVE  /\ FlattenSeq(seqs) \in Text
           /\ seqs = <<>> => FlattenSeq(seqs) = <<>>
           /\ seqs # <<>> =>
                 \E h : /\ h \in [1..Len(seqs) -> Text] /\ FlattenSeq(seqs) = h[Len(seqs)]
                        /\ h[1] = seqs[1]
                        /\ \A i \in 2..Len(seqs) : h[i] = h[i - 1] \o seqs[i]
<1> DEFINE L == Len(seqs)
<1>1. L \in Nat /\ (L = 0 <=> seqs = <<>>) /\ \A i \in 1..L : seqs[i] \in Text
  OBVIOUS
<1> DEFINE h == CHOOSE f : IsFlat(f, seqs)
<1>2. FlattenSeq(seqs) = IF L = 0 THEN seqs ELSE h[L]
  BY Zenon DEF FlattenSeq, IsFlat
<1>3. IsFlat(h, seqs)
  BY FlatExists
<1> HIDE DEF h
<1>4. h = [i \in 1..L |-> IF i = 1 THEN seqs[i] ELSE h[i - 1] \o seqs[i]]
  BY <1>3 DEF IsFlat
<1> HIDE DEF L
<1>5. \A i \in 1..L : h[i] = IF i = 1 THEN seqs[i] ELSE h[i - 1] \o seqs[i]
  BY <1>4
<1> DEFINE S == {n \in Nat : n >= 1 /\ n <= L => h[n] \in Text}
<1>6. \A n \in Nat : n \in S
  <2>1. 0 \in S
    OBVIOUS
  <2>2. ASSUME NEW n \in Nat, n \in S PROVE n + 1 \in S
    <3> SUFFICES ASSUME n + 1 <= L PROVE h[n + 1] \in Text
      OBVIOUS
    <3>1. seqs[n + 1] \in Text /\ n + 1 \in 1..L
      BY <1>1
    <3>2. CASE n = 0
      BY <1>5, <3>1, <3>2
    <3>3. CASE n # 0
      <4>1. h[n] \in Text /\ n + 1 # 1 /\ (n + 1) - 1 = n
        BY <1>1, <2>2, <3>3
      <4>2. h[n + 1] = h[n] \o seqs[n + 1]
        BY <1>5, <3>1, <4>1
      <4> QED
        BY <3>1, <4>1, <4>2, TextFacts
    <3> QED
      BY <3>2, <3>3
  <2> HIDE DEF S
  <2> QED
    BY <2>1, <2>2, Induction
<1>7. \A i \in 1..L : h[i] \in Text
  BY <1>1, <1>6
<1>8. h \in [1..L -> Text]
  <2>1. h = [i \in 1..L |-> h[i]]
    BY <1>4
  <2> QED
    BY <1>7, <2>1
<1>9. \A i \in 2..L : h[i] = h[i - 1] \o seqs[i]
  <2> SUFFICES ASSUME NEW i \in 2..L PROVE h[i] = h[i - 1] \o seqs[i]
    OBVIOUS
  <2>1. i \in 1..L /\ i # 1
    BY <1>1
  <2> QED
    BY <1>5, <2>1
<1>10. FlattenSeq(seqs) \in Text
  <2>1. CASE L = 0
    BY <1>1, <1>2, <2>1, TextFacts
  <2>2. CASE L # 0
    BY <1>1, <1>2, <1>7, <2>2
  <2> QED
    BY <2>1, <2>2
<1>11. seqs # <<>> => L # 0 /\ h[1] = seqs[1]
  BY <1>1, <1>5
<1>12. seqs = <<>> => FlattenSeq(seqs) = <<>>
  BY <1>1, <1>2
<1> QED
  BY <1>2, <1>8, <1>9, <1>10, <1>11, <1>12 DEF L

LEMMA RenderText ==
    ASSUME NEW m \in Messages
    PROVE  Render(m) \in Text /\ Top(m) \in Text /\ RequestLine(m) \in Text /\ Lines(m) \in Text
<1> DEFINE H == [name : Text, colon : BOOLEAN, value : Text]
<1>1. /\ m.method \in Bytes /\ m.url \in Text /\ m.body \in Text /\ m.headers \in Seq(H)
      /\ Eol \in Bytes /\ Version \in Bytes /\ ":" \in Bytes
  BY HttpAssumption DEF Messages
<1>2. \A h \in H : Line(h) \in Text
  <2> SUFFICES ASSUME NEW h \in H PROVE Line(h) \in Text
    OBVIOUS
  <2> DEFINE v == IF h.colon THEN <<":">> \o h.value ELSE <<>>
  <2>1. v \in Text
    BY <1>1, TextFacts
  <2>2. h.name \in Text /\ <<Eol>> \in Text
    BY <1>1, TextFacts
  <2>3. Line(h) = h.name \o v \o <<Eol>>
    BY DEF Line
  <2> HIDE DEF v
  <2> QED
    BY <2>1, <2>2, <2>3, TextFacts
<1> HIDE DEF H
<1>3. Lines(m) \in Text
  <2> DEFINE s == [i \in DOMAIN m.headers |-> Line(m.headers[i])]
  <2>1. DOMAIN m.headers = 1..Len(m.headers) /\ Len(m.headers) \in Nat
        /\ \A i \in 1..Len(m.headers) : m.headers[i] \in H
    BY <1>1
  <2>2. s \in [1..Len(m.headers) -> Text]
    BY <1>2, <2>1
  <2>3. s \in Seq(Text)
    <3> HIDE DEF s
    <3> QED
      BY <2>1, <2>2, SeqDef
  <2>4. Lines(m) = FlattenSeq(s)
    BY DEF Lines
  <2> HIDE DEF s
  <2> QED
    BY <2>3, <2>4, FlattenFacts
<1>4. RequestLine(m) \in Text
  <2>1. <<m.method>> \in Text /\ <<Version>> \in Text
    BY <1>1, TextFacts
  <2> QED
    BY <1>1, <2>1, TextFacts DEF RequestLine
<1>5. Top(m) \in Text
  <2>1. <<Eol>> \in Text
    BY <1>1, TextFacts
  <2> QED
    BY <1>3, <1>4, <2>1, TextFacts DEF Top
<1> QED
  BY <1>1, <1>3, <1>4, <1>5, TextFacts DEF Render

LEMMA ConversationText ==
    ASSUME NEW s \in Seq(Messages)
    PROVE  [i \in DOMAIN s |-> Render(s[i])] \in Seq(Text)
<1>1. DOMAIN s = 1..Len(s) /\ Len(s) \in Nat /\ \A i \in 1..Len(s) : s[i] \in Messages
  OBVIOUS
<1> DEFINE r == [i \in DOMAIN s |-> Render(s[i])]
<1>2. r \in [1..Len(s) -> Text]
  BY <1>1, RenderText
<1> HIDE DEF r
<1>3. r \in Seq(Text)
  BY <1>1, <1>2, SeqDef
<1> QED
  BY <1>3 DEF r

-----------------------------------------------------------------------------
(* The memory of a request *)

LEMMA NewFrameEffect ==
    ASSUME NEW n \in Int, NEW past \in BOOLEAN
    PROVE  LET f == NewFrame(n, past)
           IN  /\ f \in Frames /\ Fits(f) /\ f.parser.state \in States /\ Placed(f)
               /\ Tidy(f) /\ ~f.ctx.done /\ ~f.crashed /\ f.past = past
               /\ (n = 0 => Balanced(f))
<1> DEFINE f == NewFrame(n, past)
<1> DEFINE p == [state  |-> "start", run |-> Null, method |-> Null, conn |-> FALSE,
                 close  |-> FALSE, error |-> FALSE, stopped |-> FALSE, size |-> 0]
<1> DEFINE c == [state |-> "Url", header |-> Null, data |-> Null, alloc |-> 0,
                 lastWasValue |-> FALSE, done |-> FALSE]
<1>1. Null \in Pointer /\ Null \in Optional(Bytes) /\ Null \in Optional(Headers)
  BY OptionalFacts DEF Pointer
<1>2. p \in Parsers /\ p.state = "start"
  BY <1>1 DEF Parsers, States
<1>3. /\ c \in Contexts /\ c.state = "Url" /\ c.header = Null /\ c.data = Null
      /\ c.lastWasValue = FALSE /\ c.done = FALSE
  BY <1>1 DEF Contexts
<1>4. f = [parser |-> p, ctx |-> c, request |-> NoRequest, allocs |-> n, past |-> past,
           crashed |-> FALSE]
  BY DEF NewFrame
<1> HIDE DEF p, c, f
<1>5. /\ f \in Frames /\ f.parser = p /\ f.ctx = c /\ f.request = NoRequest
      /\ f.allocs = n /\ f.past = past /\ f.crashed = FALSE
  BY <1>2, <1>3, <1>4, NothingHeld DEF Frames
<1>6. HeldUri(NoRequest) = 0 /\ NoRequest.url = Null
  <2>1. NoRequest.url = Null /\ NoRequest.headers = <<>>
    BY DEF NoRequest
  <2>2. HeldHeaders(<<>>) = 0 /\ Owned(Null) = 0
    <3>1. <<>> \in Seq(Headers)
      OBVIOUS
    <3> QED
      BY <3>1, HeldFacts DEF Owned
  <2>3. HeldRequest(NoRequest) = 0 + 0 + HeldUri(NoRequest)
    BY <2>1, <2>2 DEF HeldRequest
  <2>4. HeldUri(NoRequest) \in Nat
    BY <1>3, NothingHeld, HeldNat
  <2> QED
    BY <2>1, <2>3, <2>4, NothingHeld
<1>7. HeldContext(c) = 0
  BY <1>3, NothingHeld
<1> QED
  BY <1>2, <1>3, <1>5, <1>6, <1>7, NothingHeld
     DEF Fits, Placed, Tidy, Balanced, States, f

(* Between reads, the frame is what a piece begins with. *)
LEMMA FrameSteady ==
    ASSUME MemoryKept, phase = "parse"
    PROVE  Steady(frame)
<1>1. /\ frame \in Frames /\ frame.parser.state \in States
      /\ ~frame.ctx.done /\ ~frame.crashed /\ Placed(frame)
      /\ ~frame.past => Tidy(frame) /\ Balanced(frame)
      /\ Fits(frame)
  BY DEF MemoryKept, TypeOK, ContextTidy, NothingLeaked, BufferFits, Balanced, Fits
<1>2. ~frame.past => Clear(frame)
  BY <1>1 DEF Clear, Tidy, Collecting
<1> QED
  BY <1>1, <1>2 DEF Steady

LEMMA InitMemory ==
    Init => MemoryKept
<1> SUFFICES ASSUME Init PROVE MemoryKept
  OBVIOUS
<1>1. messages \in Conversations /\ messages \in Seq(Messages) \ {<<>>}
  BY HttpAssumption DEF Init
<1>2. turn \in DOMAIN messages
  BY <1>1 DEF Init
<1>3. stream \in Text
  BY <1>1, ConversationText, FlattenFacts DEF Init
<1> DEFINE f == NewFrame(0, FALSE)
<1>4. frame = f /\ phase = "parse"
  BY DEF Init
<1>5. /\ f \in Frames /\ Fits(f) /\ f.parser.state \in States /\ Placed(f)
      /\ Tidy(f) /\ ~f.ctx.done /\ ~f.crashed /\ Balanced(f)
  <2>1. 0 \in Int /\ FALSE \in BOOLEAN
    OBVIOUS
  <2>2. /\ f \in Frames /\ Fits(f) /\ f.parser.state \in States /\ Placed(f)
        /\ Tidy(f) /\ ~f.ctx.done /\ ~f.crashed /\ f.past = FALSE
        /\ (0 = 0 => Balanced(f))
    BY <2>1, NewFrameEffect, Zenon
  <2> QED
    BY <2>2
<1> HIDE DEF f
<1>6. TypeOK
  BY <1>1, <1>2, <1>3, <1>4, <1>5 DEF TypeOK
<1>7. NothingLeaked /\ BufferFits /\ ContextTidy
  BY <1>4, <1>5 DEF NothingLeaked, BufferFits, ContextTidy, Balanced, Fits
<1> QED
  BY <1>6, <1>7 DEF MemoryKept

(* An end of http_request_parse that frees the context. *)
LEMMA Finished ==
    ASSUME TypeOK, messages' = messages, turn' = turn, stream' \in Text,
           frame' \in Frames, frame'.parser.state \in States,
           ~frame'.past => Balanced(frame'),
           frame'.ctx.data = Null, frame'.ctx.header = Null,
           phase' \in {"parsed", "failed", "unreadable"}
    PROVE  MemoryKept'
BY DEF MemoryKept, TypeOK, NothingLeaked, BufferFits, ContextTidy, Balanced

LEMMA ReturnMemory ==
    ASSUME TypeOK, messages' = messages, turn' = turn, stream' \in Text,
           NEW f, Steady(f), ~f.crashed, NEW ok \in BOOLEAN, ok => f.ctx.done, Return(f, ok)
    PROVE  MemoryKept'
<1>1. f \in Frames /\ f.parser.state \in States /\ Placed(f)
  BY DEF Steady
<1>2. ~f.past => Balanced(f) /\ (f.ctx.done => HeldUri(f.request) = 0)
  BY DEF Steady, Clear, Collecting
<1>3. CASE ok /\ UrlValid(f.request.url[1])
  <2> DEFINE parsed == ParseUrl(f.request)
  <2> DEFINE g == [f EXCEPT !.request = parsed, !.allocs = f.allocs + HeldUri(parsed)]
  <2> DEFINE h == FreeContext(g)
  <2>1. frame' = h /\ phase' = "parsed"
    BY <1>3 DEF Return
  <2>2. f.request.url # Null
    BY <1>1, <1>3 DEF Placed
  <2>3. /\ g \in Frames /\ g.parser = f.parser /\ g.past = f.past
        /\ Balanced(f) /\ HeldUri(f.request) = 0 => Balanced(g)
    BY <1>1, <2>2, WholeEffect
  <2> HIDE DEF g
  <2>4. /\ h \in Frames /\ h.parser = g.parser /\ h.past = g.past
        /\ h.ctx.data = Null /\ h.ctx.header = Null /\ (Balanced(g) => Balanced(h))
    BY <2>3, FreeContextEffect
  <2> HIDE DEF h
  <2> QED
    BY <1>1, <1>2, <1>3, <2>1, <2>3, <2>4, Finished
<1>4. CASE ~(ok /\ UrlValid(f.request.url[1]))
  <2> DEFINE g == FreeContext(f)
  <2> DEFINE h == Clean(g)
  <2>1. frame' = h /\ phase' = "failed"
    BY <1>4 DEF Return
  <2>2. /\ g \in Frames /\ g.parser = f.parser /\ g.past = f.past
        /\ g.ctx.data = Null /\ g.ctx.header = Null /\ (Balanced(f) => Balanced(g))
    BY <1>1, FreeContextEffect
  <2> HIDE DEF g
  <2>3. /\ h \in Frames /\ h.parser = g.parser /\ h.ctx = g.ctx /\ h.past = g.past
        /\ (Balanced(g) => Balanced(h))
    BY <2>2, CleanEffect
  <2> HIDE DEF h
  <2> QED
    BY <1>1, <1>2, <2>1, <2>2, <2>3, Finished
<1> QED
  BY <1>3, <1>4

LEMMA ReadMemory ==
    ASSUME MemoryKept, NEW n \in 1..BufferSize, Read(n)
    PROVE  MemoryKept'
<1> DEFINE f == Execute(frame, SubSeq(stream, 1, n))
<1> DEFINE put == IF f.ctx.done THEN n - f.parser.size ELSE 0
<1>1. n \in Nat /\ 1 <= n /\ n <= Len(stream) /\ stream \in Text /\ Len(stream) \in Nat
  BY HttpAssumption, TextFacts DEF MemoryKept, TypeOK, Read
<1>2. SubSeq(stream, 1, n) \in Text
  BY <1>1, TextFacts
<1>3. Steady(f)
  BY <1>2, FrameSteady, ExecuteSteady DEF Read
<1>4. /\ phase = "parse" /\ messages' = messages /\ turn' = turn
      /\ stream' = SubSeq(stream, n - put + 1, Len(stream))
      /\ IF f.crashed THEN frame' = f /\ phase' = "crashed"
         ELSE IF f.parser.error THEN Return(f, FALSE)
         ELSE IF f.ctx.done THEN Return(f, TRUE)
         ELSE frame' = f /\ phase' = phase
  BY DEF Read
<1> HIDE DEF f
<1>5. stream' \in Text
  <2>1. f.parser.size \in Nat
    BY <1>3 DEF Steady, Frames, Parsers
  <2>2. n - put + 1 \in Int /\ n - put + 1 >= 1
    BY <1>1, <2>1
  <2> HIDE DEF put
  <2> DEFINE m == n - put + 1
  <2>3. m \in Int /\ m >= 1
    BY <2>2
  <2> HIDE DEF m
  <2>4. \A i \in m..Len(stream) : stream[i] \in Bytes
    BY <1>1, <2>3, TextFacts
  <2>5. SubSeq(stream, m, Len(stream)) \in Seq(Bytes)
    BY <1>1, <2>3, <2>4, SubSeqProperties
  <2> QED
    BY <1>4, <2>5 DEF m, Text
<1> HIDE DEF put
<1>6. TypeOK
  BY DEF MemoryKept
<1>7. CASE f.crashed
  <2>1. frame' = f /\ phase' = "crashed"
    BY <1>4, <1>7
  <2>2. f.past
    BY <1>3, <1>7 DEF Steady, Clear
  <2>3. f \in Frames /\ f.parser.state \in States /\ Fits(f)
    BY <1>3 DEF Steady
  <2> QED
    BY <1>4, <1>5, <1>6, <2>1, <2>2, <2>3
       DEF MemoryKept, TypeOK, NothingLeaked, BufferFits, ContextTidy, Fits
<1>8. CASE ~f.crashed /\ f.parser.error
  BY <1>3, <1>4, <1>5, <1>6, <1>8, ReturnMemory
<1>9. CASE ~f.crashed /\ ~f.parser.error /\ f.ctx.done
  BY <1>3, <1>4, <1>5, <1>6, <1>9, ReturnMemory
<1>10. CASE ~f.crashed /\ ~f.parser.error /\ ~f.ctx.done
  <2>1. frame' = f /\ phase' = "parse"
    BY <1>4, <1>10
  <2>2. f \in Frames /\ f.parser.state \in States /\ Fits(f) /\ Placed(f)
    BY <1>3, <1>10 DEF Steady
  <2>3. ~f.past => Balanced(f) /\ Tidy(f)
    BY <1>3, <1>10 DEF Steady, Clear, Collecting, Tidy
  <2> QED
    BY <1>4, <1>5, <1>6, <1>10, <2>1, <2>2, <2>3
       DEF MemoryKept, TypeOK, NothingLeaked, BufferFits, ContextTidy, Fits, Balanced
<1> QED
  BY <1>7, <1>8, <1>9, <1>10

LEMMA ReadFailsMemory ==
    ASSUME MemoryKept, ReadFails
    PROVE  MemoryKept'
<1> DEFINE g == FreeContext(frame)
<1> DEFINE h == Clean(g)
<1>1. /\ frame \in Frames /\ frame.parser.state \in States
      /\ ~frame.past => Balanced(frame)
  BY DEF MemoryKept, TypeOK, NothingLeaked, Balanced
<1>2. frame' = h /\ phase' = "unreadable" /\ UNCHANGED <<messages, turn, stream>>
  BY DEF ReadFails
<1>3. /\ g \in Frames /\ g.parser = frame.parser /\ g.past = frame.past
      /\ g.ctx.data = Null /\ g.ctx.header = Null /\ (Balanced(frame) => Balanced(g))
  BY <1>1, FreeContextEffect
<1> HIDE DEF g
<1>4. /\ h \in Frames /\ h.parser = g.parser /\ h.ctx = g.ctx /\ h.past = g.past
      /\ (Balanced(g) => Balanced(h))
  BY <1>3, CleanEffect
<1> HIDE DEF h
<1>5. stream \in Text /\ TypeOK
  BY DEF MemoryKept, TypeOK
<1> QED
  BY <1>1, <1>2, <1>3, <1>4, <1>5, Finished

LEMMA ServedMemory ==
    ASSUME MemoryKept, Served
    PROVE  MemoryKept'
<1> DEFINE g == Clean(frame)
<1> DEFINE n == Len(messages[turn].body)
<1>1. /\ frame \in Frames /\ frame.parser.state \in States /\ stream \in Text
      /\ frame.ctx.data = Null /\ frame.ctx.header = Null
      /\ ~frame.past => Balanced(frame)
  BY DEF MemoryKept, TypeOK, NothingLeaked, ContextTidy, Balanced, Served
<1>2. /\ frame' = g /\ phase' = "served" /\ UNCHANGED <<messages, turn>>
      /\ n <= Len(stream) /\ stream' = SubSeq(stream, n + 1, Len(stream))
  BY DEF Served
<1>3. /\ g \in Frames /\ g.parser = frame.parser /\ g.ctx = frame.ctx /\ g.past = frame.past
      /\ g.request = NoRequest /\ (Balanced(frame) => Balanced(g))
  BY <1>1, CleanEffect
<1> HIDE DEF g
<1>4. stream' \in Text
  <2>1. n \in Nat
    <3>1. messages \in Seq(Messages) /\ turn \in DOMAIN messages
      BY HttpAssumption DEF MemoryKept, TypeOK
    <3>2. messages[turn] \in Messages
      BY <3>1
    <3>3. messages[turn].body \in Text
      BY <3>2 DEF Messages
    <3> QED
      BY <3>3, TextFacts
  <2> HIDE DEF n
  <2>2. Len(stream) \in Nat /\ n + 1 \in 1..(Len(stream) + 1) /\ Len(stream) \in 0..Len(stream)
    BY <1>1, <1>2, <2>1, TextFacts
  <2> QED
    BY <1>1, <1>2, <2>2, TextFacts
<1> QED
  BY <1>1, <1>2, <1>3, <1>4
     DEF MemoryKept, TypeOK, NothingLeaked, BufferFits, ContextTidy, Balanced

LEMMA NextRequestMemory ==
    ASSUME MemoryKept, NextRequest
    PROVE  MemoryKept'
<1> DEFINE f == NewFrame(frame.allocs, frame.past)
<1>1. /\ frame \in Frames /\ frame.request = NoRequest
      /\ frame.ctx.data = Null /\ frame.ctx.header = Null
      /\ ~frame.past => Balanced(frame)
  BY DEF MemoryKept, TypeOK, NothingLeaked, ContextTidy, Balanced, NextRequest
<1>2. frame.allocs \in Int /\ frame.past \in BOOLEAN /\ frame.ctx \in Contexts
  BY <1>1 DEF Frames
<1>3. ~frame.past => frame.allocs = 0
  BY <1>1, <1>2, NothingHeld DEF Balanced
<1>4. /\ f \in Frames /\ Fits(f) /\ f.parser.state \in States /\ Placed(f)
      /\ Tidy(f) /\ ~f.ctx.done /\ ~f.crashed /\ f.past = frame.past
      /\ (frame.allocs = 0 => Balanced(f))
  BY <1>2, NewFrameEffect
<1>5. /\ frame' = f /\ phase' = "parse" /\ UNCHANGED <<messages, stream>>
      /\ turn' = turn + 1 /\ turn < Len(messages)
  BY DEF NextRequest
<1> HIDE DEF f
<1>6. turn' \in DOMAIN messages'
  <2>1. messages \in Seq(Messages) /\ turn \in DOMAIN messages
    BY HttpAssumption DEF MemoryKept, TypeOK
  <2> QED
    BY <1>5, <2>1
<1> QED
  BY <1>3, <1>4, <1>5, <1>6
     DEF MemoryKept, TypeOK, NothingLeaked, BufferFits, ContextTidy, Balanced, Fits

LEMMA NextMemory ==
    ASSUME MemoryKept, [Next]_vars
    PROVE  MemoryKept'
<1>1. CASE \E n \in 1..BufferSize : Read(n)
  BY <1>1, ReadMemory
<1>2. CASE ReadFails
  BY <1>2, ReadFailsMemory
<1>3. CASE Served
  BY <1>3, ServedMemory
<1>4. CASE NextRequest
  BY <1>4, NextRequestMemory
<1>5. CASE UNCHANGED vars
  BY <1>5 DEF vars, MemoryKept, TypeOK, NothingLeaked, BufferFits, ContextTidy
<1> QED
  BY <1>1, <1>2, <1>3, <1>4, <1>5 DEF Next

(* Whatever pieces a request is read in and wherever it goes wrong: what   *)
(* is allocated is held by the request or by the context until it is       *)
(* freed, once, the buffer has room for all that is written to it, and no  *)
(* callback finds its header missing unless bytes behind the headers were  *)
(* parsed (http_request_parse and its callbacks).                          *)
THEOREM RequestMemory == Spec => []MemoryKept
<1>1. Init => MemoryKept
  BY InitMemory
<1>2. MemoryKept /\ [Next]_vars => MemoryKept'
  BY NextMemory
<1> QED
  BY <1>1, <1>2, PTL DEF Spec

-----------------------------------------------------------------------------
(* Where the parser is, by the bytes it was given *)

(* what a byte inside the request leaves alone *)
Calm(f, g) ==
    /\ g.parser.size = f.parser.size /\ g.parser.stopped = f.parser.stopped
    /\ g.ctx.done = f.ctx.done

Went(f, g, states) == g.parser.error \/ (Calm(f, g) /\ g.parser.state \in states)
Ended(f, g) == g.parser.size = f.parser.size /\ g.ctx.done

Inside == {"name", "valueStart", "value"}

LEMMA GotoCalm ==
    ASSUME NEW f \in Frames, NEW state \in States \cup {"urlEnd", "nameEnd"}
    PROVE  Calm(f, Goto(f, state)) /\ Goto(f, state).parser.state = state
<1> DEFINE p == [f.parser EXCEPT !.state = state]
<1>1. f.parser \in Parsers
  BY DEF Frames
<1>2. p \in Parsers /\ p.state = state /\ p.size = f.parser.size /\ p.stopped = f.parser.stopped
  BY <1>1 DEF Parsers
<1>3. Goto(f, state) = [f EXCEPT !.parser = p]
  BY DEF Goto
<1> HIDE DEF p
<1> QED
  BY <1>2, <1>3, ParserUpdate DEF Calm, SameBeside

LEMMA MarkCalm ==
    ASSUME NEW f \in Frames, NEW c
    PROVE  Calm(f, Mark(f, c)) /\ Mark(f, c).parser.state = f.parser.state
<1> DEFINE r == <<IF f.parser.run = Null THEN <<c>> ELSE Append(f.parser.run[1], c)>>
<1> DEFINE p == [f.parser EXCEPT !.run = r]
<1>1. f.parser \in Parsers
  BY DEF Frames
<1> HIDE DEF r
<1>2. p.state = f.parser.state /\ p.size = f.parser.size /\ p.stopped = f.parser.stopped
  BY <1>1 DEF Parsers
<1>3. Mark(f, c) = [f EXCEPT !.parser = p]
  BY DEF Mark, r
<1> HIDE DEF p
<1>4. [f EXCEPT !.parser = p].parser = p /\ [f EXCEPT !.parser = p].ctx = f.ctx
  BY DEF Frames
<1> QED
  BY <1>2, <1>3, <1>4 DEF Calm

LEMMA FailError ==
    ASSUME NEW f \in Frames
    PROVE  Fail(f).parser.error
  BY DEF Fail, Frames, Parsers

LEMMA RunCalm ==
    ASSUME NEW f \in Frames, NEW r
    PROVE  LET g == [f EXCEPT !.parser.run = r]
           IN  Calm(f, g) /\ g.parser.state = f.parser.state /\ g.parser.error = f.parser.error
  BY DEF Frames, Parsers, Calm

LEMMA FlagCalm ==
    ASSUME NEW f \in Frames, NEW b
    PROVE  /\ LET g == [f EXCEPT !.parser.conn = b]
              IN  Calm(f, g) /\ g.parser.state = f.parser.state
           /\ LET g == [f EXCEPT !.parser.close = b]
              IN  Calm(f, g) /\ g.parser.state = f.parser.state
  BY DEF Frames, Parsers, Calm

LEMMA CallBackCalm ==
    ASSUME NEW f \in Frames, Fits(f)
    PROVE  LET g == CallBack(f)
           IN  /\ Calm(f, g) /\ g.parser.state = f.parser.state
               /\ g.parser.error = f.parser.error /\ g.past = f.past
<1>1. CASE f.parser.run = Null
  BY <1>1 DEF CallBack, Calm
<1>2. CASE f.parser.run # Null
  <2> DEFINE e == [f EXCEPT !.parser.run = Null]
  <2> DEFINE text == f.parser.run[1]
  <2>1. text \in Text
    BY <1>2, OptionalFacts DEF Frames, Parsers, Pointer
  <2>2. e \in Frames /\ SameBeside(f, e)
    BY OptionalFacts, RunEffect DEF Pointer
  <2>3. CallBack(f) \in {OnUrl(e, text), OnHeaderField(e, text), OnHeaderValue(e, text)}
    BY <1>2 DEF CallBack
  <2>4. /\ Calm(f, e) /\ e.parser.state = f.parser.state /\ e.parser.error = f.parser.error
    BY RunCalm
  <2> HIDE DEF e, text
  <2>5. Fits(e)
    BY <2>2 DEF Fits, SameBeside
  <2>6. SameOutside(e, CallBack(f))
    BY <2>1, <2>2, <2>3, <2>5, OnUrlEffect, OnHeaderFieldEffect, OnHeaderValueEffect
  <2> QED
    BY <2>2, <2>4, <2>6 DEF SameOutside, SameBeside, Calm
<1> QED
  BY <1>1, <1>2

LEMMA HeadersDoneGoes ==
    ASSUME NEW f \in Frames
    PROVE  Ended(f, HeadersDone(f))
<1> DEFINE h == OnHeadersComplete(f)
<1> DEFINE n == NewMessage(h)
<1> DEFINE b == f.parser.method = <<"CONNECT">>
<1>1. h \in Frames /\ h.parser = f.parser /\ h.ctx.done = TRUE
  BY OnHeadersCompleteEffect
<1>2. HeadersDone(f) = [n EXCEPT !.parser.stopped = b]
  BY DEF HeadersDone
<1> HIDE DEF h, b
<1>3. n \in Frames /\ Calm(h, n)
  BY <1>1, GotoEffect, GotoCalm DEF NewMessage, States
<1> HIDE DEF n
<1> QED
  BY <1>1, <1>2, <1>3 DEF Ended, Calm, Frames, Parsers

LEMMA AtLineGoes ==
    ASSUME NEW f \in Frames, NEW c \in Bytes
    PROVE  IF c = Eol THEN Ended(f, AtLine(f, c)) ELSE Went(f, AtLine(f, c), {"name"})
<1>1. CASE c = Eol
  BY <1>1, HeadersDoneGoes DEF AtLine, Eol, NameChars
<1>2. CASE c # Eol /\ c \in NameChars
  <2> DEFINE b == c = "Connection"
  <2> DEFINE e == [f EXCEPT !.parser.conn = b]
  <2> DEFINE n == Goto(e, "name")
  <2>1. AtLine(f, c) = Mark(n, c)
    BY <1>2 DEF AtLine
  <2>2. e \in Frames /\ Calm(f, e)
    <3>1. b \in BOOLEAN /\ <<>> \in Optional(Bytes)
      BY OptionalFacts DEF Null
    <3> HIDE DEF b
    <3> QED
      BY <3>1, FlagEffect, FlagCalm
  <2> HIDE DEF e
  <2>3. n \in Frames /\ Calm(e, n) /\ n.parser.state = "name"
    BY <2>2, GotoEffect, GotoCalm DEF States
  <2> HIDE DEF n
  <2> QED
    BY <1>2, <2>1, <2>2, <2>3, MarkCalm DEF Went, Calm
<1>3. CASE c # Eol /\ c \notin NameChars
  BY <1>3, FailError DEF AtLine, Went
<1> QED
  BY <1>1, <1>2, <1>3

LEMMA AtStartGoes ==
    ASSUME NEW f \in Frames, NEW c \in Bytes, c # Eol
    PROVE  Went(f, AtStart(f, c), {"spaces"})
<1>1. CASE c \notin Methods
  BY <1>1, FailError DEF AtStart, Went
<1>2. CASE c \in Methods
  <2> DEFINE e == Goto(f, "spaces")
  <2> DEFINE m == <<c>>
  <2> DEFINE b == FALSE
  <2>1. AtStart(f, c) = [e EXCEPT !.parser.method = m, !.parser.close = b]
    BY <1>2 DEF AtStart
  <2>2. e \in Frames /\ Calm(f, e) /\ e.parser.state = "spaces"
    BY GotoEffect, GotoCalm DEF States
  <2> HIDE DEF e, m, b
  <2>3. LET g == [e EXCEPT !.parser.method = m, !.parser.close = b]
        IN  /\ g.parser.size = e.parser.size /\ g.parser.stopped = e.parser.stopped
            /\ g.ctx = e.ctx /\ g.parser.state = e.parser.state
    BY <2>2 DEF Frames, Parsers
  <2> QED
    BY <2>1, <2>2, <2>3 DEF Went, Calm
<1> QED
  BY <1>1, <1>2

(* the end of a text, by a state its callback is made in *)
LEMMA EndGoes ==
    ASSUME NEW f \in Frames, Fits(f), NEW between \in {"urlEnd", "nameEnd"},
           NEW state \in {"line", "valueStart", "lws"}, f.parser.run # Null
    PROVE  Went(f, Goto(CallBack(Goto(f, between)), state), {state})
<1> DEFINE e == Goto(f, between)
<1> DEFINE n == CallBack(e)
<1>1. e \in Frames /\ SameBeside(f, e) /\ Calm(f, e) /\ e.parser.run # Null
  BY GotoEffect, GotoCalm
<1> HIDE DEF e
<1>2. Fits(e)
  BY <1>1 DEF Fits, SameBeside
<1>3. n \in Frames /\ Calm(e, n)
  BY <1>1, <1>2, CallBackEffect, CallBackCalm
<1> HIDE DEF n
<1>4. Calm(n, Goto(n, state)) /\ Goto(n, state).parser.state = state
  BY <1>3, GotoCalm DEF States
<1> QED
  BY <1>1, <1>3, <1>4 DEF Went, Calm, e, n

LEMMA ValueEndGoes ==
    ASSUME NEW f \in Frames, Fits(f), f.parser.run # Null
    PROVE  Went(f, Goto(CallBack(f), "lws"), {"lws"})
<1> DEFINE n == CallBack(f)
<1>1. n \in Frames /\ Calm(f, n)
  BY CallBackEffect, CallBackCalm
<1> HIDE DEF n
<1>2. Calm(n, Goto(n, "lws")) /\ Goto(n, "lws").parser.state = "lws"
  BY <1>1, GotoCalm DEF States
<1> QED
  BY <1>1, <1>2 DEF Went, Calm, n

LEMMA AtValueGoes ==
    ASSUME NEW f \in Frames, Fits(f), NEW c \in Bytes, f.parser.state = "valueStart"
    PROVE  Went(f, AtValue(f, c), IF c = Eol THEN {"lws"} ELSE Inside)
<1>1. CASE c = Space
  BY <1>1 DEF AtValue, Went, Calm, Inside, Space, Eol
<1>2. CASE c # Space /\ c = Eol
  <2> DEFINE r == << <<>> >>
  <2> DEFINE e == [f EXCEPT !.parser.run = r]
  <2>1. AtValue(f, c) = Goto(CallBack(e), "lws")
    BY <1>2 DEF AtValue
  <2>2. r \in Pointer /\ r # Null
    BY TextFacts, OptionalFacts DEF Pointer
  <2> HIDE DEF r
  <2>3. e \in Frames /\ SameBeside(f, e) /\ Calm(f, e) /\ e.parser.run = r
    BY <2>2, RunEffect, RunCalm
  <2> HIDE DEF e
  <2>4. Fits(e)
    BY <2>3 DEF Fits, SameBeside
  <2> QED
    BY <1>2, <2>1, <2>2, <2>3, <2>4, ValueEndGoes DEF Went, Calm
<1>3. CASE c # Space /\ c # Eol
  <2> DEFINE b == f.parser.close \/ (f.parser.conn /\ c = "close")
  <2> DEFINE e == [f EXCEPT !.parser.close = b]
  <2> DEFINE n == Goto(e, "value")
  <2>1. AtValue(f, c) = Mark(n, c)
    <3>1. [f EXCEPT !.parser.close = @ \/ (f.parser.conn /\ c = "close")] = e
      BY DEF Frames, Parsers
    <3> HIDE DEF e
    <3> QED
      BY <1>3, <3>1 DEF AtValue
  <2>2. e \in Frames /\ Calm(f, e)
    <3>1. b \in BOOLEAN /\ <<>> \in Optional(Bytes)
      BY OptionalFacts DEF Null, Frames, Parsers
    <3> HIDE DEF b
    <3> QED
      BY <3>1, FlagEffect, FlagCalm
  <2> HIDE DEF e
  <2>3. n \in Frames /\ Calm(e, n) /\ n.parser.state = "value"
    BY <2>2, GotoEffect, GotoCalm DEF States
  <2> HIDE DEF n
  <2> QED
    BY <1>3, <2>1, <2>2, <2>3, MarkCalm DEF Went, Calm, Inside
<1> QED
  BY <1>1, <1>2, <1>3

(* One byte: the states it leads to. *)
LEMMA ByteGoes ==
    ASSUME NEW f, Ready(f), NEW c \in Bytes
    PROVE  LET g == Byte(f, c)
               s == f.parser.state
           IN  /\ s = "start" /\ c # Eol => Went(f, g, {"spaces"})
               /\ s = "spaces" => Went(f, g, {"url"})
               /\ s = "url" => Went(f, g, IF c = Version THEN {"line"} ELSE {"url"})
               /\ s \in Inside => Went(f, g, IF c = Eol THEN {"lws"} ELSE Inside)
               /\ s \in {"line", "lws"} =>
                     IF c = Eol THEN Ended(f, g) ELSE Went(f, g, Inside)
<1> DEFINE s == f.parser.state
<1> DEFINE g == Byte(f, c)
<1>1. f \in Frames /\ Fits(f) /\ (s \in {"url", "name", "value"} => f.parser.run # Null)
  BY DEF Ready, Running
<1>2. CASE s = "start" /\ c # Eol
  BY <1>1, <1>2, AtStartGoes DEF Byte, Inside
<1>3. CASE s = "spaces"
  <2> DEFINE e == Goto(f, "url")
  <2>1. g = Mark(e, c)
    BY <1>3 DEF Byte
  <2>2. e \in Frames /\ Calm(f, e) /\ e.parser.state = "url"
    BY <1>1, GotoEffect, GotoCalm DEF States
  <2> HIDE DEF e, g
  <2> QED
    BY <1>3, <2>1, <2>2, MarkCalm DEF Went, Calm, Inside, g
<1>4. CASE s = "url"
  <2>1. g = InUrl(f, c)
    BY <1>4 DEF Byte
  <2>2. Went(f, g, IF c = Version THEN {"line"} ELSE {"url"})
    BY <1>1, <1>4, <2>1, EndGoes, MarkCalm DEF InUrl, Went
  <2> QED
    BY <1>4, <2>2 DEF Inside
<1>5. CASE s = "line"
  <2>1. g = AtLine(f, c)
    BY <1>5 DEF Byte
  <2> QED
    BY <1>1, <1>5, <2>1, AtLineGoes DEF Went, Inside
<1>6. CASE s = "lws"
  <2>1. g = AfterLine(f, c)
    BY <1>6 DEF Byte
  <2>2. CASE c = Space
    <3>1. g = Goto(f, "valueStart") /\ c # Eol
      BY <2>1, <2>2 DEF AfterLine, Space, Eol
    <3> QED
      BY <1>1, <1>6, <3>1, GotoCalm DEF Went, Inside, States
  <2>3. CASE c # Space
    BY <1>1, <1>6, <2>1, <2>3, AtLineGoes DEF AfterLine, Went, Inside
  <2> QED
    BY <2>2, <2>3
<1>7. CASE s = "name"
  <2>1. g = InName(f, c)
    BY <1>7 DEF Byte
  <2>2. CASE c = ":"
    <3>1. g = Goto(CallBack(Goto(f, "nameEnd")), "valueStart") /\ c # Eol
      BY <2>1, <2>2 DEF InName, Eol
    <3> QED
      BY <1>1, <1>7, <3>1, EndGoes DEF Went, Inside
  <2>3. CASE c = Eol
    <3>1. g = Goto(CallBack(Goto(f, "nameEnd")), "lws")
      BY <2>1, <2>3 DEF InName, Eol
    <3> QED
      BY <1>1, <1>7, <2>3, <3>1, EndGoes DEF Went, Inside
  <2>4. CASE c # ":" /\ c # Eol
    <3>1. g = Mark(f, c)
      BY <2>1, <2>4 DEF InName
    <3> QED
      BY <1>1, <1>7, <2>4, <3>1, MarkCalm DEF Went, Inside
  <2> QED
    BY <2>2, <2>3, <2>4
<1>8. CASE s = "valueStart"
  <2>1. g = AtValue(f, c)
    BY <1>8 DEF Byte
  <2> QED
    BY <1>1, <1>8, <2>1, AtValueGoes DEF Inside
<1>9. CASE s = "value"
  <2>1. g = InValue(f, c)
    BY <1>9 DEF Byte
  <2> QED
    BY <1>1, <1>9, <2>1, ValueEndGoes, MarkCalm DEF InValue, Went, Inside
<1>10. CASE s = "dead" \/ (s = "start" /\ c = Eol)
  BY <1>10 DEF Inside
<1> QED
  BY <1>2, <1>3, <1>4, <1>5, <1>6, <1>7, <1>8, <1>9, <1>10 DEF Inside

(* What a message is made of, byte by byte, up to the end of its headers. *)
LEMMA LinesEnd ==
    ASSUME NEW m \in Messages, Lines(m) # <<>>
    PROVE  Lines(m)[Len(Lines(m))] = Eol
<1> DEFINE H == [name : Text, colon : BOOLEAN, value : Text]
<1> DEFINE s == [i \in DOMAIN m.headers |-> Line(m.headers[i])]
<1>1. m.headers \in Seq(H) /\ Eol \in Bytes /\ ":" \in Bytes
  BY HttpAssumption DEF Messages
<1>2. \A h \in H : Line(h) \in Text /\ Line(h) # <<>> /\ Line(h)[Len(Line(h))] = Eol
  <2> SUFFICES ASSUME NEW h \in H
               PROVE  Line(h) \in Text /\ Line(h) # <<>> /\ Line(h)[Len(Line(h))] = Eol
    OBVIOUS
  <2> DEFINE v == IF h.colon THEN <<":">> \o h.value ELSE <<>>
  <2> DEFINE front == h.name \o v
  <2> DEFINE e == <<Eol>>
  <2>1. v \in Text
    BY <1>1, TextFacts
  <2>2. h.name \in Text /\ e \in Text /\ Len(e) = 1 /\ e[1] = Eol
    BY <1>1, TextFacts
  <2>3. Line(h) = front \o e
    BY DEF Line
  <2> HIDE DEF v, e
  <2>4. front \in Text
    BY <2>1, <2>2, TextFacts
  <2> HIDE DEF front
  <2>5. /\ Line(h) \in Text /\ Len(Line(h)) = Len(front) + 1 /\ Len(front) \in Nat
        /\ \A i \in 1..(Len(front) + 1) :
              Line(h)[i] = IF i <= Len(front) THEN front[i] ELSE e[i - Len(front)]
    <3>1. /\ front \o e \in Seq(Bytes) /\ Len(front \o e) = Len(front) + Len(e)
          /\ \A i \in 1..(Len(front) + Len(e)) :
                (front \o e)[i] = IF i <= Len(front) THEN front[i] ELSE e[i - Len(front)]
      BY <2>2, <2>4, ConcatProperties DEF Text
    <3>2. Len(front) \in Nat
      BY <2>4, TextFacts
    <3> QED
      BY <2>2, <2>3, <3>1, <3>2 DEF Text
  <2>6. Line(h)[Len(front) + 1] = e[1]
    BY <2>5
  <2> QED
    BY <2>2, <2>5, <2>6
<1> HIDE DEF H
<1> DEFINE L == Len(m.headers)
<1>3. L \in Nat /\ DOMAIN m.headers = 1..L /\ \A i \in 1..L : m.headers[i] \in H
  BY <1>1
<1>4. s \in [1..L -> Text] /\ \A i \in 1..L : s[i] # <<>> /\ s[i][Len(s[i])] = Eol
  BY <1>2, <1>3
<1>5. Lines(m) = FlattenSeq(s)
  BY DEF Lines
<1> HIDE DEF s, L
<1>6. s \in Seq(Text) /\ Len(s) = L /\ L \in Nat /\ s # <<>>
  <2>1. s \in Seq(Text) /\ Len(s) = L
    BY <1>3, <1>4, SeqDef
  <2> QED
    BY <1>3, <1>5, <2>1, FlattenFacts
<1>7. PICK h : /\ h \in [1..L -> Text] /\ FlattenSeq(s) = h[L] /\ h[1] = s[1]
               /\ \A i \in 2..L : h[i] = h[i - 1] \o s[i]
  BY <1>6, FlattenFacts
<1>8. L \in 1..L /\ s[L] \in Text /\ s[L] # <<>> /\ s[L][Len(s[L])] = Eol
  BY <1>4, <1>6, EmptySeq
<1>9. CASE L = 1
  BY <1>5, <1>7, <1>8, <1>9
<1>10. CASE L # 1
  <2> DEFINE a == h[L - 1]
  <2> DEFINE b == s[L]
  <2>1. L \in 2..L /\ L - 1 \in 1..L
    BY <1>8, <1>10
  <2>2. Lines(m) = a \o b /\ a \in Text /\ b \in Text /\ b # <<>> /\ b[Len(b)] = Eol
    BY <1>5, <1>7, <1>8, <2>1
  <2> HIDE DEF a, b
  <2>3. Len(a) \in Nat /\ Len(b) \in Nat /\ Len(b) # 0
    BY <2>2 DEF Text
  <2>4. /\ Len(Lines(m)) = Len(a) + Len(b)
        /\ \A i \in 1..(Len(a) + Len(b)) :
              Lines(m)[i] = IF i <= Len(a) THEN a[i] ELSE b[i - Len(a)]
    BY <2>2, ConcatProperties DEF Text
  <2>5. Lines(m)[Len(a) + Len(b)] = b[Len(b)]
    BY <2>3, <2>4
  <2> QED
    BY <2>2, <2>4, <2>5
<1> QED
  BY <1>9, <1>10

LEMMA TopFacts ==
    ASSUME NEW m \in Messages, EndsOnce(m)
    PROVE  LET first == Len(RequestLine(m))
               lines == Len(Lines(m))
               top == Top(m)
           IN  /\ first \in Nat /\ first >= 3 /\ lines \in Nat /\ Len(top) = first + lines + 1
               /\ top[1] # Eol /\ top[first] = Version
               /\ \A i \in 3..(first - 1) : top[i] # Version
               /\ \A i \in 1..lines : top[first + i] = Lines(m)[i]
               /\ top[first + lines + 1] = Eol
               /\ lines # 0 => Lines(m)[1] # Eol /\ Lines(m)[lines] = Eol
               /\ \A i \in 2..lines : Lines(m)[i] = Eol => Lines(m)[i - 1] # Eol
<1> DEFINE u == m.url
<1> DEFINE a == <<m.method>>
<1> DEFINE v == <<Version>>
<1> DEFINE e == <<Eol>>
<1> DEFINE R == RequestLine(m)
<1> DEFINE H == Lines(m)
<1> DEFINE T == Top(m)
<1>1. /\ a \in Text /\ Len(a) = 1 /\ a[1] = m.method /\ u \in Text
      /\ v \in Text /\ Len(v) = 1 /\ v[1] = Version /\ e \in Text /\ Len(e) = 1 /\ e[1] = Eol
  BY HttpAssumption, TextFacts DEF Messages
<1>2. R = a \o u \o v /\ T = R \o H \o e
  BY DEF RequestLine, Top
<1>3. /\ m.method # Eol /\ u # <<>> /\ \A i \in 2..Len(u) : u[i] # Version
      /\ \A i \in DOMAIN H : H[i] = Eol => i > 1 /\ H[i - 1] # Eol
  BY DEF EndsOnce
<1>4. R \in Text /\ H \in Text /\ (H # <<>> => H[Len(H)] = Eol)
  BY RenderText, LinesEnd
<1> HIDE DEF u, a, v, e, R, H, T
<1>5. Len(u) \in Nat /\ Len(u) # 0 /\ Len(H) \in Nat /\ Len(R) \in Nat /\ DOMAIN H = 1..Len(H)
      /\ (H = <<>> <=> Len(H) = 0)
  BY <1>1, <1>3, <1>4 DEF Text
<1> DEFINE au == a \o u
<1>6. /\ au \in Text /\ Len(au) = Len(u) + 1
      /\ \A i \in 1..(Len(u) + 1) : au[i] = IF i <= 1 THEN m.method ELSE u[i - 1]
  <2>1. /\ a \o u \in Seq(Bytes) /\ Len(a \o u) = Len(a) + Len(u)
        /\ \A i \in 1..(Len(a) + Len(u)) :
              (a \o u)[i] = IF i <= Len(a) THEN a[i] ELSE u[i - Len(a)]
    BY <1>1, ConcatProperties DEF Text
  <2> HIDE DEF au
  <2>2. au = a \o u
    BY DEF au
  <2> QED
    BY <1>1, <1>5, <2>1, <2>2 DEF Text
<1> HIDE DEF au
<1>7. /\ Len(R) = Len(u) + 2
      /\ \A i \in 1..(Len(u) + 2) : R[i] = IF i <= Len(u) + 1 THEN au[i] ELSE v[i - (Len(u) + 1)]
  <2>1. R = au \o v
    BY <1>2 DEF au
  <2>2. /\ Len(au \o v) = Len(au) + Len(v)
        /\ \A i \in 1..(Len(au) + Len(v)) :
              (au \o v)[i] = IF i <= Len(au) THEN au[i] ELSE v[i - Len(au)]
    BY <1>1, <1>6, ConcatProperties DEF Text
  <2> QED
    BY <1>1, <1>5, <1>6, <2>1, <2>2
<1> DEFINE rh == R \o H
<1>8. /\ rh \in Text /\ Len(rh) = Len(R) + Len(H)
      /\ \A i \in 1..(Len(R) + Len(H)) : rh[i] = IF i <= Len(R) THEN R[i] ELSE H[i - Len(R)]
  <2>1. R \in Seq(Bytes) /\ H \in Seq(Bytes)
    BY <1>4 DEF Text
  <2>2. /\ R \o H \in Seq(Bytes) /\ Len(R \o H) = Len(R) + Len(H)
        /\ \A i \in 1..(Len(R) + Len(H)) :
              (R \o H)[i] = IF i <= Len(R) THEN R[i] ELSE H[i - Len(R)]
    BY <2>1, ConcatProperties
  <2> QED
    BY <2>2 DEF Text
<1> HIDE DEF rh
<1>9. /\ Len(T) = Len(R) + Len(H) + 1
      /\ \A i \in 1..(Len(R) + Len(H) + 1) :
            T[i] = IF i <= Len(R) + Len(H) THEN rh[i] ELSE e[i - (Len(R) + Len(H))]
  <2>1. T = rh \o e
    BY <1>2 DEF rh
  <2>2. /\ Len(rh \o e) = Len(rh) + Len(e)
        /\ \A i \in 1..(Len(rh) + Len(e)) :
              (rh \o e)[i] = IF i <= Len(rh) THEN rh[i] ELSE e[i - Len(rh)]
    <3>1. rh \in Seq(Bytes) /\ e \in Seq(Bytes)
      BY <1>1, <1>8 DEF Text
    <3> QED
      BY <3>1, ConcatProperties
  <2> QED
    BY <1>1, <1>5, <1>8, <2>1, <2>2
<1> DEFINE first == Len(R)
<1> DEFINE lines == Len(H)
<1>10. first \in Nat /\ first >= 3 /\ lines \in Nat /\ first = Len(u) + 2
  BY <1>5, <1>7
<1>11. /\ \A i \in 1..first : T[i] = R[i]
       /\ \A i \in 1..lines : T[first + i] = H[i]
       /\ T[first + lines + 1] = Eol
  BY <1>1, <1>8, <1>9, <1>10, SMTT(60)
<1>12. R[1] = m.method /\ R[first] = Version /\ \A i \in 3..(first - 1) : R[i] # Version
  <2>1. R[1] = m.method /\ R[first] = Version
    BY <1>1, <1>5, <1>6, <1>7
  <2>2. ASSUME NEW i \in 3..(first - 1) PROVE R[i] # Version
    <3>1. i - 1 \in 2..Len(u) /\ i \in 1..(Len(u) + 1) /\ i \in 1..(Len(u) + 2)
      BY <1>10, <2>2
    <3>2. R[i] = u[i - 1]
      BY <1>6, <1>7, <3>1
    <3> QED
      BY <1>3, <3>1, <3>2
  <2> QED
    BY <2>1, <2>2
<1>13. /\ T[1] # Eol /\ T[first] = Version
       /\ \A i \in 3..(first - 1) : T[i] # Version
  BY <1>3, <1>10, <1>11, <1>12
<1>14. /\ lines # 0 => H[1] # Eol /\ H[lines] = Eol
       /\ \A i \in 2..lines : H[i] = Eol => H[i - 1] # Eol
  <2>1. \A i \in 1..lines : H[i] = Eol => i > 1 /\ H[i - 1] # Eol
    BY <1>3, <1>5
  <2>2. lines # 0 => 1 \in 1..lines /\ H # <<>>
    BY <1>5
  <2>3. ASSUME NEW i \in 2..lines PROVE i \in 1..lines
    BY <1>5, <2>3
  <2> QED
    BY <1>4, <2>1, <2>2, <2>3
<1> QED
  BY <1>9, <1>10, <1>11, <1>13, <1>14 DEF R, H, T

(* The next byte of a message takes the parser on in step. *)
LEMMA NextPlace ==
    ASSUME NEW m \in Messages, EndsOnce(m), NEW n \in Nat, n < Len(Top(m)),
           NEW s \in States, InStep(s, m, n)
    PROVE  LET c == Top(m)[n + 1]
               on == n + 1 < Len(Top(m))
           IN  /\ s # "dead"
               /\ s = "start" => c # Eol /\ on /\ InStep("spaces", m, n + 1)
               /\ s = "spaces" => on /\ InStep("url", m, n + 1)
               /\ s = "url" => on /\ InStep(IF c = Version THEN "line" ELSE "url", m, n + 1)
               /\ s \in {"line", "lws"} =>
                     IF c = Eol THEN n + 1 = Len(Top(m))
                     ELSE on /\ \A t \in Inside : InStep(t, m, n + 1)
               /\ s \in Inside =>
                     on /\ IF c = Eol THEN InStep("lws", m, n + 1)
                           ELSE \A t \in Inside : InStep(t, m, n + 1)
<1> DEFINE first == Len(RequestLine(m))
<1> DEFINE lines == Len(Lines(m))
<1> DEFINE T == Top(m)
<1> DEFINE H == Lines(m)
<1> DEFINE c == T[n + 1]
<1>1. /\ first \in Nat /\ first >= 3 /\ lines \in Nat /\ Len(T) = first + lines + 1
      /\ T[1] # Eol /\ T[first] = Version
      /\ \A i \in 3..(first - 1) : T[i] # Version
      /\ \A i \in 1..lines : T[first + i] = H[i]
      /\ T[first + lines + 1] = Eol
      /\ lines # 0 => H[1] # Eol /\ H[lines] = Eol
      /\ \A i \in 2..lines : H[i] = Eol => H[i - 1] # Eol
  BY TopFacts
<1>2. ASSUME NEW t, NEW k \in Nat
      PROVE  InStep(t, m, k) <=>
                /\ t = "start" <=> k = 0
                /\ t = "spaces" <=> k = 1
                /\ t = "url" <=> k \in 2..(first - 1)
                /\ t = "line" <=> k = first
                /\ t \in Inside <=> k > first /\ T[k] # Eol
                /\ t = "lws" <=> k > first /\ T[k] = Eol
  BY DEF InStep, Inside
<1> HIDE DEF first, lines
<1>3. /\ s = "start" <=> n = 0
      /\ s = "spaces" <=> n = 1
      /\ s = "url" <=> n \in 2..(first - 1)
      /\ s = "line" <=> n = first
      /\ s \in Inside <=> n > first /\ T[n] # Eol
      /\ s = "lws" <=> n > first /\ T[n] = Eol
      /\ n < Len(T)
  BY <1>2
<1> DEFINE on == n + 1 < Len(T)
<1>4. ASSUME NEW t
       PROVE  InStep(t, m, n + 1) <=>
                /\ t # "start"
                /\ t = "spaces" <=> n = 0
                /\ t = "url" <=> n + 1 \in 2..(first - 1)
                /\ t = "line" <=> n + 1 = first
                /\ t \in Inside <=> n + 1 > first /\ c # Eol
                /\ t = "lws" <=> n + 1 > first /\ c = Eol
  <2>1. n + 1 \in Nat /\ n + 1 # 0 /\ (n + 1 = 1 <=> n = 0)
    OBVIOUS
  <2> DEFINE k == n + 1
  <2> HIDE DEF k
  <2>2. k \in Nat /\ k = n + 1
    BY DEF k
  <2>3. InStep(t, m, k) <=>
                /\ t = "start" <=> k = 0
                /\ t = "spaces" <=> k = 1
                /\ t = "url" <=> k \in 2..(first - 1)
                /\ t = "line" <=> k = first
                /\ t \in Inside <=> k > first /\ T[k] # Eol
                /\ t = "lws" <=> k > first /\ T[k] = Eol
    BY <1>2, <2>2
  <2> QED
    BY <2>1, <2>3 DEF k
<1>5. s # "dead"
  BY <1>1, <1>3 DEF Inside
<1>6. CASE s = "start"
  BY <1>1, <1>4, <1>3, <1>6 DEF Inside
<1>7. CASE s = "spaces"
  BY <1>1, <1>4, <1>3, <1>7 DEF Inside
<1>8. CASE s = "url"
  <2>1. n \in 2..(first - 1)
    BY <1>3, <1>8
  <2>2. on /\ (c = Version <=> n + 1 = first)
    BY <1>1, <2>1 DEF Inside
  <2>3. CASE c = Version
    BY <1>1, <1>4, <1>8, <2>1, <2>2, <2>3 DEF Inside
  <2>4. CASE c # Version
    <3>1. n + 1 \in 2..(first - 1)
      BY <1>1, <2>1, <2>2, <2>4 DEF Inside
    <3>2. InStep("url", m, n + 1)
      BY <1>1, <1>4, <3>1 DEF Inside
    <3> QED
      BY <1>8, <2>2, <2>4, <3>2 DEF Inside
  <2> QED
    BY <1>8, <2>2, <2>3, <2>4 DEF Inside

(* behind the first line *)
<1>9. ASSUME n >= first, c # Eol
      PROVE  on /\ \A t \in Inside : InStep(t, m, n + 1)
  <2>1. on
    BY <1>1, <1>3, <1>9, SMTT(60) DEF Inside
  <2>2. n + 1 > first /\ n + 1 # first /\ n # 0 /\ n + 1 \notin 2..(first - 1)
    BY <1>1, <1>9
  <2>3. ASSUME NEW t \in Inside PROVE InStep(t, m, n + 1)
    BY <1>4, <1>9, <2>2 DEF Inside
  <2> QED
    BY <2>1, <2>3
<1>10. CASE s = "line"
  <2>1. n = first
    BY <1>3, <1>10
  <2>2. c = Eol => n + 1 = Len(T)
    BY <1>1, <2>1 DEF Inside
  <2> QED
    BY <1>1, <1>9, <1>10, <2>1, <2>2 DEF Inside
<1>11. CASE s = "lws"
  <2>1. n > first /\ T[n] = Eol
    BY <1>3, <1>11
  <2> DEFINE i == n - first
  <2>2. i \in 1..lines /\ n = first + i
    BY <1>1, <1>3, <2>1 DEF Inside
  <2> HIDE DEF i
  <2>3. H[i] = Eol
    BY <1>1, <2>1, <2>2 DEF Inside
  <2>4. c = Eol => n + 1 = Len(T)
    <3> SUFFICES ASSUME c = Eol, i # lines PROVE FALSE
      BY <1>1, <2>2 DEF Inside
    <3>1. i + 1 \in 1..lines /\ i + 1 \in 2..lines /\ (i + 1) - 1 = i
      BY <1>1, <2>2 DEF Inside
    <3>2. T[first + (i + 1)] = H[i + 1] /\ first + (i + 1) = n + 1
      BY <1>1, <2>2, <3>1 DEF Inside
    <3> QED
      BY <1>1, <2>3, <3>1, <3>2 DEF Inside
  <2> QED
    BY <1>1, <1>9, <1>11, <2>1, <2>4 DEF Inside
<1>12. CASE s \in Inside
  <2>1. n > first /\ T[n] # Eol
    BY <1>3, <1>12 DEF Inside
  <2> DEFINE i == n - first
  <2>2. i \in 1..lines /\ n = first + i
    BY <1>1, <1>3, <2>1 DEF Inside
  <2> HIDE DEF i
  <2>3. H[i] # Eol
    BY <1>1, <2>1, <2>2 DEF Inside
  <2>4. i # lines
    BY <1>1, <2>2, <2>3 DEF Inside
  <2>5. on
    BY <1>1, <2>2, <2>4 DEF Inside
  <2>6. c = Eol => InStep("lws", m, n + 1)
    BY <1>1, <1>4, <2>1, <2>2 DEF Inside
  <2> QED
    BY <1>1, <1>9, <1>12, <2>1, <2>5, <2>6 DEF Inside
<1> QED
  BY <1>5, <1>6, <1>7, <1>8, <1>10, <1>11, <1>12 DEF States, Inside

-----------------------------------------------------------------------------
(* A piece of a message *)

(* where the parser is when k bytes of a piece that begins behind the      *)
(* first n bytes of message m were given to it                             *)
Reached(f, m, n, k) ==
    ~f.past =>
        \/ f.parser.error \/ f.crashed
        \/ f.ctx.done /\ n + f.parser.size = Len(Top(m)) /\ f.parser.size \in 0..k
        \/ /\ ~f.ctx.done /\ ~f.parser.stopped /\ f.parser.size = k
           /\ n + k < Len(Top(m)) /\ InStep(f.parser.state, m, n + k)

LEMMA ByteReaches ==
    ASSUME NEW f, Ready(f), NEW m \in Messages, EndsOnce(m), NEW n \in Nat,
           n < Len(Top(m)), InStep(f.parser.state, m, n), NEW c, c = Top(m)[n + 1],
           c \in Bytes
    PROVE  LET g == Byte(f, c)
           IN  \/ g.parser.error
               \/ g.parser.size = f.parser.size /\ g.ctx.done /\ n + 1 = Len(Top(m))
               \/ /\ Calm(f, g) /\ n + 1 < Len(Top(m))
                  /\ InStep(g.parser.state, m, n + 1)
<1> DEFINE s == f.parser.state
<1> DEFINE g == Byte(f, c)
<1> DEFINE on == n + 1 < Len(Top(m))
<1>1. s \in States
  BY DEF Ready
<1>2. /\ s # "dead"
      /\ s = "start" => c # Eol /\ on /\ InStep("spaces", m, n + 1)
      /\ s = "spaces" => on /\ InStep("url", m, n + 1)
      /\ s = "url" => on /\ InStep(IF c = Version THEN "line" ELSE "url", m, n + 1)
      /\ s \in {"line", "lws"} =>
            IF c = Eol THEN n + 1 = Len(Top(m))
            ELSE on /\ \A t \in Inside : InStep(t, m, n + 1)
      /\ s \in Inside =>
            on /\ IF c = Eol THEN InStep("lws", m, n + 1)
                  ELSE \A t \in Inside : InStep(t, m, n + 1)
  BY <1>1, NextPlace
<1>3. /\ s = "start" /\ c # Eol => Went(f, g, {"spaces"})
      /\ s = "spaces" => Went(f, g, {"url"})
      /\ s = "url" => Went(f, g, IF c = Version THEN {"line"} ELSE {"url"})
      /\ s \in Inside => Went(f, g, IF c = Eol THEN {"lws"} ELSE Inside)
      /\ s \in {"line", "lws"} =>
            IF c = Eol THEN Ended(f, g) ELSE Went(f, g, Inside)
  BY ByteGoes
<1> HIDE DEF g, on
<1>4. \/ g.parser.error
      \/ g.parser.size = f.parser.size /\ g.ctx.done /\ n + 1 = Len(Top(m))
      \/ Calm(f, g) /\ on /\ InStep(g.parser.state, m, n + 1)
  <2>1. CASE s \in {"start", "spaces", "url"}
    BY <1>2, <1>3, <2>1 DEF Went
  <2>2. CASE s \in Inside
    BY <1>2, <1>3, <2>2 DEF Went
  <2>3. CASE s \in {"line", "lws"}
    BY <1>2, <1>3, <2>3 DEF Went, Ended
  <2> QED
    BY <1>1, <1>2, <2>1, <2>2, <2>3 DEF States, Inside
<1> QED
  BY <1>4 DEF g, on

LEMMA ExecuteByteReaches ==
    ASSUME NEW f, InPiece(f), NEW m \in Messages, EndsOnce(m), NEW n \in Nat, NEW k \in Nat,
           Reached(f, m, n, k), NEW c \in Bytes,
           ~f.past /\ n + k < Len(Top(m)) => c = Top(m)[n + k + 1]
    PROVE  /\ Reached(ExecuteByte(f, c), m, n, k + 1)
           /\ f.past => ExecuteByte(f, c).past
<1> DEFINE g == Byte(f, c)
<1> DEFINE h == ExecuteByte(f, c)
<1> DEFINE end == Len(Top(m))
<1>1. end \in Nat
  BY RenderText DEF Text
<1>2. f \in Frames /\ f.parser.size \in Nat
  BY DEF InPiece, Steady, Frames, Parsers
<1>3. CASE f.parser.error \/ f.parser.stopped \/ f.crashed
  <2>1. h = f
    BY <1>3 DEF ExecuteByte
  <2> HIDE DEF h, end
  <2>2. 0..k \subseteq 0..(k + 1)
    OBVIOUS
  <2> QED
    BY <1>3, <2>1, <2>2 DEF Reached, h, end
<1>4. CASE ~(f.parser.error \/ f.parser.stopped \/ f.crashed)
  <2> DEFINE size == g.parser.size + 1
  <2> DEFINE past == g.past \/ f.ctx.done
  <2>1. Ready(f)
    BY <1>4 DEF InPiece, Steady, Ready
  <2>2. Kept(f, g)
    BY <2>1, ByteKept
  <2>3. h = [g EXCEPT !.parser.size = size, !.past = past]
    BY <1>4, <2>2 DEF ExecuteByte, Kept, Frames
  <2> HIDE DEF g, h
  <2>4. g \in Frames /\ g.past = f.past
    BY <2>2 DEF Kept
  <2> HIDE DEF size, past
  <2>5. /\ h.parser.size = size /\ h.past = past /\ h.ctx = g.ctx /\ h.crashed = g.crashed
        /\ h.parser.error = g.parser.error /\ h.parser.stopped = g.parser.stopped
        /\ h.parser.state = g.parser.state
    BY <2>3, <2>4 DEF Frames, Parsers
  <2>6. (past <=> f.past \/ f.ctx.done) /\ size = g.parser.size + 1
    BY <2>4 DEF past, size
  <2>7. CASE f.past \/ f.ctx.done
    BY <2>5, <2>6, <2>7 DEF Reached, h
  <2>8. CASE ~f.past /\ ~f.ctx.done
    <3> DEFINE p == n + k
    <3> HIDE DEF end
    <3>1. /\ f.parser.size = k /\ p < end /\ InStep(f.parser.state, m, p) /\ ~f.parser.stopped
      BY <1>4, <2>8 DEF Reached, end
    <3>2. p \in Nat /\ c = Top(m)[p + 1]
      BY <2>8, <3>1 DEF end
    <3> HIDE DEF p
    <3>3. \/ g.parser.error
          \/ g.parser.size = f.parser.size /\ g.ctx.done /\ p + 1 = end
          \/ /\ Calm(f, g) /\ p + 1 < end /\ InStep(g.parser.state, m, p + 1)
      BY <2>1, <3>1, <3>2, ByteReaches DEF end, g
    <3>4. p + 1 = n + (k + 1) /\ k + 1 \in 0..(k + 1) /\ (g.parser.size = k => size = k + 1)
      BY <2>6 DEF p
    <3>5. CASE g.parser.error
      BY <2>5, <2>8, <3>5 DEF Reached, h
    <3>6. CASE g.parser.size = f.parser.size /\ g.ctx.done /\ p + 1 = end
      BY <2>5, <2>8, <3>1, <3>4, <3>6 DEF Reached, h, end
    <3>7. CASE Calm(f, g) /\ p + 1 < end /\ InStep(g.parser.state, m, p + 1)
      <4>1. /\ ~h.ctx.done /\ ~h.parser.stopped /\ h.parser.size = k + 1
            /\ n + (k + 1) < end /\ InStep(h.parser.state, m, n + (k + 1))
        BY <2>5, <2>8, <3>1, <3>4, <3>7 DEF Calm
      <4>2. Reached(h, m, n, k + 1)
        BY <4>1 DEF Reached, end
      <4> QED
        BY <2>8, <4>2 DEF h
    <3> QED
      BY <2>8, <3>3, <3>5, <3>6, <3>7
  <2> QED
    BY <2>7, <2>8
<1> QED
  BY <1>3, <1>4

LEMMA ExecuteReaches ==
    ASSUME NEW f, Steady(f), NEW m \in Messages, EndsOnce(m), NEW n \in Nat, NEW piece \in Text,
           ~f.past => /\ ~f.ctx.done /\ ~f.parser.stopped
                      /\ n < Len(Top(m)) /\ InStep(f.parser.state, m, n)
                      /\ \A k \in 1..Len(piece) :
                            n + k <= Len(Top(m)) => piece[k] = Top(m)[n + k]
    PROVE  /\ Reached(Execute(f, piece), m, n, Len(piece))
           /\ f.past => Execute(f, piece).past
<1> DEFINE r == IF f.parser.state \in {"url", "name", "value"} THEN << <<>> >> ELSE Null
<1> DEFINE begun == [f EXCEPT !.parser.size = 0, !.parser.run = r]
<1> DEFINE after == CHOOSE h : IsAfter(h, begun, piece)
<1> DEFINE read == after[Len(piece)]
<1>1. Execute(f, piece) = IF read.parser.error \/ read.parser.stopped \/ read.crashed
                          THEN read ELSE CallBack(read)
  BY Zenon DEF Execute, IsAfter
<1>2. InPiece(begun)
  <2>1. <<>> \in Text
    BY DEF Text
  <2>2. r \in Pointer /\ (r # Null <=> f.parser.state \in {"url", "name", "value"})
    BY <2>1, OptionalFacts DEF Pointer
  <2> HIDE DEF r
  <2> QED
    BY <2>2, BegunKept
<1> HIDE DEF r
<1>3. /\ begun.parser.size = 0 /\ begun.past = f.past /\ begun.ctx = f.ctx
      /\ begun.parser.stopped = f.parser.stopped /\ begun.parser.state = f.parser.state
  BY DEF Steady, Frames, Parsers
<1> HIDE DEF begun
<1>4. after = [i \in 0..Len(piece) |->
                   IF i = 0 THEN begun ELSE ExecuteByte(after[i - 1], piece[i])]
  <2>1. \E h : IsAfter(h, begun, piece)
    BY AfterDefined
  <2>2. IsAfter(after, begun, piece)
    BY <2>1
  <2> QED
    BY <2>2 DEF IsAfter
<1> HIDE DEF after
<1>5. Len(piece) \in Nat /\ \A i \in 1..Len(piece) : piece[i] \in Bytes
  BY DEF Text
<1> DEFINE P(i) == /\ InPiece(after[i]) /\ Reached(after[i], m, n, i)
                   /\ f.past => after[i].past
<1> DEFINE S == {i \in Nat : i <= Len(piece) => P(i)}
<1>6. 0 \in S
  <2>1. after[0] = begun
    BY <1>4, <1>5
  <2>2. Reached(begun, m, n, 0)
    <3>1. n + 0 = n /\ 0 \in 0..0
      OBVIOUS
    <3> QED
      BY <1>3, <3>1 DEF Reached
  <2> QED
    BY <1>2, <1>3, <2>1, <2>2
<1>7. ASSUME NEW i \in Nat, i \in S PROVE i + 1 \in S
  <2> SUFFICES ASSUME i + 1 <= Len(piece) PROVE P(i + 1)
    OBVIOUS
  <2> DEFINE c == piece[i + 1]
  <2>1. i + 1 \in 0..Len(piece) /\ i + 1 # 0 /\ (i + 1) - 1 = i /\ i + 1 \in 1..Len(piece)
    BY <1>5
  <2>2. c \in Bytes
    BY <1>5, <2>1
  <2>3. after[i + 1] = ExecuteByte(after[i], c)
    BY <1>4, <2>1
  <2>4. P(i)
    BY <1>5, <1>7
  <2>5. ~after[i].past /\ n + i < Len(Top(m)) => c = Top(m)[n + i + 1]
    <3>1. Len(Top(m)) \in Nat
      BY RenderText DEF Text
    <3>2. n + i < Len(Top(m)) => n + (i + 1) <= Len(Top(m))
      BY <3>1
    <3>3. n + (i + 1) = n + i + 1
      OBVIOUS
    <3> QED
      BY <2>1, <2>4, <3>2, <3>3
  <2> HIDE DEF c
  <2> QED
    BY <2>2, <2>3, <2>4, <2>5, ExecuteByteKept, ExecuteByteReaches
<1>8. P(Len(piece))
  <2>1. Len(piece) \in S
    <3> HIDE DEF S
    <3> QED
      BY <1>5, <1>6, <1>7, Induction
  <2> QED
    BY <1>5, <2>1
<1>9. InPiece(read) /\ Reached(read, m, n, Len(piece)) /\ (f.past => read.past)
  BY <1>8
<1> HIDE DEF read, S
<1>10. CASE read.parser.error \/ read.parser.stopped \/ read.crashed
  BY <1>1, <1>9, <1>10
<1>11. CASE ~(read.parser.error \/ read.parser.stopped \/ read.crashed)
  <2> DEFINE g == CallBack(read)
  <2>1. Execute(f, piece) = g
    BY <1>1, <1>11
  <2>2. Calm(read, g) /\ g.parser.state = read.parser.state /\ g.past = read.past
    BY <1>9, CallBackCalm DEF InPiece, Steady
  <2> HIDE DEF g
  <2>3. Reached(g, m, n, Len(piece))
    BY <1>9, <1>11, <2>2 DEF Reached, Calm
  <2> QED
    BY <1>9, <2>1, <2>2, <2>3
<1> QED
  BY <1>10, <1>11

-----------------------------------------------------------------------------
(* What is left to be read *)

(* The end of a text, and the end of that. *)
LEMMA Suffix ==
    ASSUME NEW s \in Text, NEW p \in 0..Len(s)
    PROVE  LET t == SubSeq(s, p + 1, Len(s))
           IN  /\ t \in Text /\ Len(t) = Len(s) - p
               /\ \A k \in 1..Len(t) : t[k] = s[p + k]
               /\ \A q \in 0..Len(t) : SubSeq(t, q + 1, Len(t)) = SubSeq(s, p + q + 1, Len(s))
<1> DEFINE t == SubSeq(s, p + 1, Len(s))
<1>1. s \in Seq(Bytes) /\ Len(s) \in Nat /\ p \in Nat /\ p <= Len(s)
  BY DEF Text
<1> DEFINE L == Len(s)
<1>2. t \in Seq(Bytes) /\ Len(t) = L - p /\ \A k \in 1..(L - p) : t[k] = s[p + k]
  <2>1. \A i \in (p + 1)..L : s[i] \in Bytes
    BY <1>1
  <2>2. p + 1 \in Int /\ L \in Int /\ L - (p + 1) + 1 = L - p
    BY <1>1
  <2>3. /\ t \in Seq(Bytes) /\ Len(t) = IF p + 1 <= L THEN L - (p + 1) + 1 ELSE 0
        /\ \A i \in 1..(L - (p + 1) + 1) : t[i] = s[(p + 1) + i - 1]
    BY <2>1, <2>2, SubSeqProperties
  <2> HIDE DEF t, L
  <2>4. L \in Nat /\ p \in Nat /\ p <= L
    BY <1>1 DEF L
  <2>5. Len(t) = L - p
    BY <2>3, <2>4
  <2>6. ASSUME NEW k \in 1..(L - p) PROVE t[k] = s[p + k]
    <3>1. k \in 1..(L - (p + 1) + 1) /\ (p + 1) + k - 1 = p + k
      BY <2>4
    <3> QED
      BY <2>3, <3>1
  <2> QED
    BY <2>3, <2>5, <2>6
<1> HIDE DEF t
<1>3. ASSUME NEW q \in 0..Len(t) PROVE SubSeq(t, q + 1, Len(t)) = SubSeq(s, p + q + 1, L)
  <2>1. q \in Nat /\ q <= L - p
    BY <1>1, <1>2
  <2>2. CASE q = L - p
    <3>1. q + 1 \in Int /\ Len(t) \in Int /\ Len(t) < q + 1
      BY <1>1, <1>2, <2>1, <2>2
    <3>2. p + q + 1 \in Int /\ L \in Int /\ L < p + q + 1
      BY <1>1, <2>1, <2>2
    <3> QED
      BY <3>1, <3>2, SubSeqEmpty
  <2>3. CASE q # L - p
    <3> DEFINE i == p + 1
    <3> DEFINE m == q + 1
    <3> DEFINE n == L - p
    <3>1. i \in 1..L /\ L \in 1..L /\ m \in 1..(L - i + 1) /\ n \in 1..(L - i + 1)
      BY <1>1, <2>1, <2>3
    <3>2. SubSeq(SubSeq(s, i, L), m, n) = SubSeq(s, i + m - 1, i + n - 1)
      BY <1>1, <3>1, SubSeqOfSubSeq
    <3>3. i + m - 1 = p + q + 1 /\ i + n - 1 = L
      BY <1>1, <2>1
    <3> QED
      BY <1>2, <3>2, <3>3 DEF t
  <2> QED
    BY <2>2, <2>3
<1> QED
  BY <1>2, <1>3 DEF t, Text

LEMMA SuffixOfConcat ==
    ASSUME NEW a \in Text, NEW b \in Text
    PROVE  SubSeq(a \o b, Len(a) + 1, Len(a \o b)) = b
<1>1. /\ a \in Seq(Bytes) /\ b \in Seq(Bytes) /\ Len(a) \in Nat /\ Len(b) \in Nat
      /\ Len(a \o b) = Len(a) + Len(b)
  BY ConcatProperties DEF Text
<1>2. CASE b = <<>>
  <2>1. Len(a) + 1 \in Int /\ Len(a) + Len(b) \in Int /\ Len(a) + Len(b) < Len(a) + 1
    BY <1>1, <1>2
  <2> QED
    BY <1>1, <1>2, <2>1, SubSeqEmpty
<1>3. CASE b # <<>>
  <2> DEFINE m == Len(a) + 1
  <2> DEFINE n == Len(a) + Len(b)
  <2>1. Len(b) # 0
    BY <1>3
  <2>2. m \in (Len(a) + 1)..(Len(a) + Len(b)) /\ n \in (Len(a) + 1)..(Len(a) + Len(b))
    BY <1>1, <2>1
  <2>3. SubSeq(a \o b, m, n) = SubSeq(b, m - Len(a), n - Len(a))
    BY <1>1, <2>2, SubSeqOfConcat2
  <2>4. m - Len(a) = 1 /\ n - Len(a) = Len(b)
    BY <1>1
  <2>5. SubSeq(b, 1, Len(b)) = b
    BY <1>1, SubSeqFull
  <2> QED
    BY <1>1, <2>3, <2>4, <2>5
<1> QED
  BY <1>2, <1>3

LEMMA Assemble ==
    \A s, t, u \in Text : (s \o t) \o u = s \o (t \o u)
  BY ConcatAssociative, SMTT(60) DEF Text

(* FlattenSeq, by the first member and the others. *)
LEMMA FlattenCons ==
    ASSUME NEW seqs \in Seq(Text), NEW s \in Seq(Text), Len(seqs) = Len(s) + 1,
           \A i \in 1..Len(s) : seqs[i + 1] = s[i]
    PROVE  FlattenSeq(seqs) = seqs[1] \o FlattenSeq(s)
<1> DEFINE L == Len(s)
<1> DEFINE t == seqs[1]
<1>1. L \in Nat /\ Len(seqs) = L + 1 /\ seqs # <<>> /\ t \in Text /\ (\A i \in 1..L : s[i] \in Text)
      /\ (L = 0 <=> s = <<>>) /\ \A i \in 1..L : seqs[i + 1] = s[i]
  OBVIOUS
<1> HIDE DEF L, t
<1>2. PICK h : /\ h \in [1..(L + 1) -> Text] /\ FlattenSeq(seqs) = h[L + 1] /\ h[1] = t
               /\ \A i \in 2..(L + 1) : h[i] = h[i - 1] \o seqs[i]
  <2>1. \E h : /\ h \in [1..Len(seqs) -> Text] /\ FlattenSeq(seqs) = h[Len(seqs)]
               /\ h[1] = seqs[1]
               /\ \A i \in 2..Len(seqs) : h[i] = h[i - 1] \o seqs[i]
    BY <1>1, FlattenFacts
  <2> QED
    BY <1>1, <2>1 DEF t
<1>3. CASE L = 0
  <2>1. FlattenSeq(s) = <<>>
    <3>1. s = <<>> => FlattenSeq(s) = <<>>
      BY FlattenFacts
    <3> QED
      BY <1>1, <1>3, <3>1
  <2>2. t \o <<>> = t
    BY <1>1, ConcatEmptySeq DEF Text
  <2> QED
    BY <1>2, <1>3, <2>1, <2>2 DEF t
<1>4. CASE L # 0
  <2>1. PICK k : /\ k \in [1..L -> Text] /\ FlattenSeq(s) = k[L] /\ k[1] = s[1]
                 /\ \A i \in 2..L : k[i] = k[i - 1] \o s[i]
    <3>1. \E k : /\ k \in [1..Len(s) -> Text] /\ FlattenSeq(s) = k[Len(s)] /\ k[1] = s[1]
                 /\ \A i \in 2..Len(s) : k[i] = k[i - 1] \o s[i]
      <4>1. s # <<>> =>
               \E k : /\ k \in [1..Len(s) -> Text] /\ FlattenSeq(s) = k[Len(s)] /\ k[1] = s[1]
                      /\ \A i \in 2..Len(s) : k[i] = k[i - 1] \o s[i]
        BY FlattenFacts
      <4>2. s # <<>>
        BY <1>1, <1>4
      <4> QED
        BY <4>1, <4>2
    <3> QED
      BY <3>1 DEF L
  <2>2. \A i \in 1..L : seqs[i + 1] = s[i]
    BY <1>1
  <2> DEFINE S == {n \in Nat : n >= 1 /\ n <= L => h[n + 1] = t \o k[n]}
  <2>3. 0 \in S
    OBVIOUS
  <2>4. ASSUME NEW n \in Nat, n \in S PROVE n + 1 \in S
    <3> SUFFICES ASSUME n + 1 <= L PROVE h[(n + 1) + 1] = t \o k[n + 1]
      OBVIOUS
    <3>1. /\ n + 1 \in 1..L /\ (n + 1) + 1 \in 2..(L + 1) /\ ((n + 1) + 1) - 1 = n + 1
      BY <1>1
    <3>2. h[(n + 1) + 1] = h[n + 1] \o s[n + 1]
      BY <1>2, <2>2, <3>1
    <3>3. CASE n = 0
      <4>1. n + 1 = 1
        BY <3>3
      <4> QED
        BY <1>2, <2>1, <3>2, <4>1
    <3>4. CASE n # 0
      <4>1. n \in 1..L /\ n + 1 \in 2..L /\ (n + 1) - 1 = n
        BY <1>1, <3>1, <3>4
      <4>2. h[n + 1] = t \o k[n]
        BY <2>4, <4>1
      <4>3. k[n + 1] = k[n] \o s[n + 1]
        BY <2>1, <4>1
      <4>4. k[n] \in Text /\ s[n + 1] \in Text
        BY <1>1, <2>1, <3>1, <4>1
      <4>5. (t \o k[n]) \o s[n + 1] = t \o (k[n] \o s[n + 1])
        BY <1>1, <4>4, Assemble
      <4> QED
        BY <3>2, <4>2, <4>3, <4>5
    <3> QED
      BY <3>3, <3>4
  <2>5. L \in S
    <3> HIDE DEF S
    <3> QED
      BY <1>1, <2>3, <2>4, Induction
  <2>6. h[L + 1] = t \o k[L]
    BY <1>1, <1>4, <2>5
  <2> QED
    BY <1>2, <2>1, <2>6 DEF t
<1> QED
  BY <1>3, <1>4

LEMMA MessageText ==
    ASSUME TypeOK
    PROVE  /\ messages \in Seq(Messages) /\ Len(messages) \in Nat /\ turn \in 1..Len(messages)
           /\ \A i \in 1..Len(messages) : /\ messages[i] \in Messages /\ EndsOnce(messages[i])
                                          /\ messages[i].body \in Text
<1>1. messages \in Conversations /\ messages \in Seq(Messages) /\ turn \in DOMAIN messages
  BY HttpAssumption DEF TypeOK
<1>2. DOMAIN messages = 1..Len(messages) /\ Len(messages) \in Nat
  BY <1>1
<1>3. \A i \in 1..Len(messages) : messages[i] \in Messages /\ EndsOnce(messages[i])
  BY <1>1, <1>2, HttpAssumption
<1> QED
  BY <1>1, <1>2, <1>3 DEF Messages

LEMMA RestFacts ==
    ASSUME TypeOK
    PROVE  /\ \A i \in 0..Len(messages) : Rest(i) \in Text
           /\ \A i \in 1..Len(messages) : Rest(i - 1) = Render(messages[i]) \o Rest(i)
<1> DEFINE L == Len(messages)
<1> DEFINE r(i) == [j \in 1..(L - i) |-> Render(messages[i + j])]
<1>1. L \in Nat /\ \A i \in 1..L : Render(messages[i]) \in Text
  BY MessageText, RenderText
<1>2. \A i : Rest(i) = FlattenSeq(r(i))
  BY DEF Rest
<1> HIDE DEF L
<1>3. ASSUME NEW i \in 0..L
      PROVE  r(i) \in Seq(Text) /\ Len(r(i)) = L - i
             /\ \A j \in 1..(L - i) : r(i)[j] = Render(messages[i + j])
  <2>1. L - i \in Nat /\ \A j \in 1..(L - i) : i + j \in 1..L
    BY <1>1
  <2>2. r(i) \in [1..(L - i) -> Text]
    BY <1>1, <2>1
  <2> DEFINE s == r(i)
  <2>4. \A j \in 1..(L - i) : s[j] = Render(messages[i + j])
    OBVIOUS
  <2> HIDE DEF s
  <2>3. s \in Seq(Text) /\ Len(s) = L - i
    BY <2>1, <2>2, SeqDef DEF s
  <2> QED
    BY <2>3, <2>4 DEF s
<1> HIDE DEF r
<1>4. ASSUME NEW i \in 1..L PROVE Rest(i - 1) = Render(messages[i]) \o Rest(i)
  <2> DEFINE k == i - 1
  <2>1. k \in 0..L /\ i \in 0..L /\ L - k = (L - i) + 1 /\ k + 1 = i /\ 1 \in 1..(L - k)
    BY <1>1
  <2> HIDE DEF k
  <2>2. \A j \in 1..(L - i) : j + 1 \in 1..(L - k) /\ k + (j + 1) = i + j
    BY <1>1, <2>1
  <2>3. r(k) \in Seq(Text) /\ r(i) \in Seq(Text) /\ Len(r(k)) = L - k /\ Len(r(i)) = L - i
        /\ (\A j \in 1..(L - k) : r(k)[j] = Render(messages[k + j]))
        /\ (\A j \in 1..(L - i) : r(i)[j] = Render(messages[i + j]))
    BY <1>3, <2>1
  <2>4. Len(r(k)) = Len(r(i)) + 1 /\ \A j \in 1..Len(r(i)) : r(k)[j + 1] = r(i)[j]
    <3>1. Len(r(k)) = Len(r(i)) + 1
      BY <1>1, <2>1, <2>3
    <3>2. ASSUME NEW j \in 1..(L - i) PROVE r(k)[j + 1] = r(i)[j]
      BY <2>2, <2>3
    <3> QED
      BY <2>3, <3>1, <3>2
  <2>5. FlattenSeq(r(k)) = r(k)[1] \o FlattenSeq(r(i))
    BY <2>3, <2>4, FlattenCons
  <2>6. r(k)[1] = Render(messages[i])
    BY <2>1, <2>3
  <2> QED
    BY <1>2, <2>5, <2>6 DEF k
<1>5. \A i \in 0..L : Rest(i) \in Text
  BY <1>2, <1>3, FlattenFacts
<1> QED
  BY <1>4, <1>5 DEF L

(* the text of a turn: the head of the message, its body and what follows *)
LEMMA TurnText ==
    ASSUME TypeOK
    PROVE  LET top == Top(Message)
               left == Message.body \o Rest(turn)
           IN  /\ Message \in Messages /\ EndsOnce(Message) /\ Message.body \in Text
               /\ top \in Text /\ left \in Text /\ Rest(turn) \in Text
               /\ Rest(turn - 1) = top \o left /\ Rest(turn - 1) \in Text
               /\ turn \in 1..Len(messages) /\ Len(messages) \in Nat
<1>1. /\ turn \in 1..Len(messages) /\ Len(messages) \in Nat
      /\ Message \in Messages /\ EndsOnce(Message) /\ Message.body \in Text
  BY MessageText DEF Message
<1>2. turn \in 0..Len(messages) /\ turn - 1 \in 0..Len(messages)
  BY <1>1
<1>3. Top(Message) \in Text /\ Rest(turn) \in Text /\ Rest(turn - 1) \in Text
  BY <1>1, <1>2, RenderText, RestFacts
<1>4. Rest(turn - 1) = (Top(Message) \o Message.body) \o Rest(turn)
  BY <1>1, RestFacts DEF Render, Message
<1>5. (Top(Message) \o Message.body) \o Rest(turn) = Top(Message) \o (Message.body \o Rest(turn))
  BY <1>1, <1>3, Assemble
<1>6. Message.body \o Rest(turn) \in Text
  BY <1>1, <1>3, TextFacts
<1> QED
  BY <1>1, <1>3, <1>4, <1>5, <1>6

(* the beginning of a turn *)
LEMMA StartInStep ==
    ASSUME TypeOK, Position = 0
    PROVE  /\ Position \in 0..(Len(Top(Message)) - 1)
           /\ InStep("start", Message, Position)
<1>1. Message \in Messages /\ EndsOnce(Message)
  BY TurnText
<1>2. /\ Len(RequestLine(Message)) \in Nat /\ Len(RequestLine(Message)) >= 3
      /\ Len(Lines(Message)) \in Nat
      /\ Len(Top(Message)) = Len(RequestLine(Message)) + Len(Lines(Message)) + 1
  BY <1>1, TopFacts
<1> DEFINE first == Len(RequestLine(Message))
<1> HIDE DEF first
<1>3. first \in Nat /\ first >= 3
  BY <1>2 DEF first
<1>4. InStep("start", Message, Position)
  BY <1>3 DEF InStep, first
<1> QED
  BY <1>2, <1>4

TurnBegun ==
    stream = Rest(turn - 1) /\ frame.parser.state = "start" /\ ~frame.parser.stopped

LEMMA TurnStarts == TypeOK /\ TurnBegun => ParserInStep
<1> SUFFICES ASSUME TypeOK, TurnBegun PROVE ParserInStep
  OBVIOUS
<1> USE DEF TurnBegun
<1> DEFINE text == Rest(turn - 1)
<1>1. text \in Text /\ Len(text) \in Nat
  BY TurnText, TextFacts
<1>2. Position = 0
  BY <1>1 DEF Position
<1>3. stream = SubSeq(text, Position + 1, Len(text))
  BY <1>1, <1>2, SubSeqFull DEF Text
<1> HIDE DEF text
<1> QED
  BY <1>2, <1>3, StartInStep DEF ParserInStep, text

(* at first the stream is the whole conversation *)
LEMMA StreamAtFirst ==
    ASSUME Init
    PROVE  stream = Rest(0)
<1> DEFINE a == [i \in DOMAIN messages |-> Render(messages[i])]
<1> DEFINE b == [j \in 1..(Len(messages) - 0) |-> Render(messages[0 + j])]
<1>1. DOMAIN messages = 1..Len(messages) /\ Len(messages) \in Nat
  BY InitMemory, MessageText DEF MemoryKept
<1>2. 1..(Len(messages) - 0) = DOMAIN messages /\ \A j \in DOMAIN messages : 0 + j = j
  BY <1>1
<1>3. a = b
  BY <1>2
<1> QED
  BY <1>3 DEF Init, Rest

LEMMA InitBody == Init => MemoryKept /\ BodyLeft
<1> SUFFICES ASSUME Init PROVE MemoryKept /\ BodyLeft
  OBVIOUS
<1>1. MemoryKept /\ TypeOK
  BY InitMemory DEF MemoryKept
<1>2. turn = 1 /\ phase = "parse" /\ frame = NewFrame(0, FALSE)
  BY DEF Init
<1>3. stream = Rest(0)
  BY StreamAtFirst
<1>4. ParserInStep
  <2>1. turn - 1 = 0
    BY <1>2
  <2>2. frame.parser.state = "start" /\ ~frame.parser.stopped
    BY <1>2 DEF NewFrame
  <2> QED
    BY <1>1, <1>3, <2>1, <2>2, TurnStarts DEF TurnBegun
<1> QED
  BY <1>1, <1>2, <1>4 DEF BodyLeft

(* Until another turn begins, what is left of the conversation stays. *)
LEMMA SameTurn ==
    ASSUME messages' = messages, turn' = turn
    PROVE  /\ Rest(turn)' = Rest(turn) /\ Rest(turn - 1)' = Rest(turn - 1)
           /\ Message' = Message
  BY DEF Rest, Message

LEMMA ReturnOutside ==
    ASSUME NEW f \in Frames, NEW ok \in BOOLEAN, Return(f, ok)
    PROVE  frame'.past = f.past /\ ((phase' = "parsed" /\ ok) \/ phase' = "failed")
<1>1. CASE ok /\ UrlValid(f.request.url[1])
  <2>1. frame'.past = f.past /\ phase' = "parsed"
    BY <1>1 DEF Return, FreeContext, Frames
  <2> QED
    BY <1>1, <2>1
<1>2. CASE ~(ok /\ UrlValid(f.request.url[1]))
  BY <1>2 DEF Return, FreeContext, Clean, Frames
<1> QED
  BY <1>1, <1>2

LEMMA ReadBody ==
    ASSUME MemoryKept, BodyLeft, NEW n \in 1..BufferSize, Read(n)
    PROVE  BodyLeft'
<1> DEFINE text == Rest(turn - 1)
<1> DEFINE top == Top(Message)
<1> DEFINE left == Message.body \o Rest(turn)
<1> DEFINE piece == SubSeq(stream, 1, n)
<1> DEFINE f == Execute(frame, piece)
<1> DEFINE put == IF f.ctx.done THEN n - f.parser.size ELSE 0
<1> DEFINE p == Position
<1>1. /\ n \in Nat /\ 1 <= n /\ n <= Len(stream) /\ stream \in Text /\ Len(stream) \in Nat
      /\ TypeOK
  BY HttpAssumption, TextFacts DEF MemoryKept, TypeOK, Read
<1>2. /\ Message \in Messages /\ EndsOnce(Message) /\ top \in Text /\ left \in Text
      /\ text = top \o left /\ text \in Text /\ Rest(turn) \in Text
  BY <1>1, TurnText
<1>3. /\ piece \in Text /\ Len(piece) = n /\ \A k \in 1..n : piece[k] = stream[k]
  <2>1. \A i \in 1..n : stream[i] \in Bytes
    BY <1>1, TextFacts
  <2>2. 1 \in Int /\ n \in Int
    BY <1>1
  <2>3. /\ piece \in Seq(Bytes) /\ Len(piece) = IF 1 <= n THEN n - 1 + 1 ELSE 0
        /\ \A i \in 1..(n - 1 + 1) : piece[i] = stream[1 + i - 1]
    BY <2>1, <2>2, SubSeqProperties
  <2> HIDE DEF piece
  <2>4. n - 1 + 1 = n /\ \A i \in 1..n : 1 + i - 1 = i
    BY <1>1
  <2> QED
    BY <1>1, <2>3, <2>4 DEF Text
<1>4. /\ phase = "parse" /\ messages' = messages /\ turn' = turn
      /\ stream' = SubSeq(stream, n - put + 1, Len(stream))
      /\ IF f.crashed THEN frame' = f /\ phase' = "crashed"
         ELSE IF f.parser.error THEN Return(f, FALSE)
         ELSE IF f.ctx.done THEN Return(f, TRUE)
         ELSE frame' = f /\ phase' = phase
  BY DEF Read
<1>5. Steady(frame) /\ ~frame.ctx.done /\ Steady(f)
  <2>1. Steady(frame) /\ ~frame.ctx.done
    BY <1>4, FrameSteady DEF MemoryKept, ContextTidy
  <2> QED
    BY <1>3, <2>1, ExecuteSteady
<1> HIDE DEF piece
<1>6. ~frame.past =>
          /\ p \in Nat /\ p < Len(top) /\ stream = SubSeq(text, p + 1, Len(text))
          /\ InStep(frame.parser.state, Message, p) /\ ~frame.parser.stopped
  <2>1. Len(top) \in Nat
    BY <1>2, TextFacts
  <2> QED
    BY <1>4, <2>1 DEF BodyLeft, ParserInStep
<1> HIDE DEF p, f, text, top, left
<1>7. ~frame.past =>
          /\ Len(stream) = Len(text) - p
          /\ \A k \in 1..Len(stream) : stream[k] = text[p + k]
          /\ \A q \in 0..Len(stream) :
                SubSeq(stream, q + 1, Len(stream)) = SubSeq(text, p + q + 1, Len(text))
  <2> SUFFICES ASSUME ~frame.past
               PROVE  /\ Len(stream) = Len(text) - p
                      /\ \A k \in 1..Len(stream) : stream[k] = text[p + k]
                      /\ \A q \in 0..Len(stream) :
                            SubSeq(stream, q + 1, Len(stream)) = SubSeq(text, p + q + 1, Len(text))
    OBVIOUS
  <2>1. Len(text) = Len(top) + Len(left) /\ Len(top) \in Nat /\ Len(left) \in Nat
    BY <1>2, ConcatProperties, TextFacts DEF Text
  <2>2. p \in 0..Len(text)
    BY <1>6, <2>1
  <2> DEFINE t == SubSeq(text, p + 1, Len(text))
  <2>3. /\ Len(t) = Len(text) - p
        /\ \A k \in 1..Len(t) : t[k] = text[p + k]
        /\ \A q \in 0..Len(t) : SubSeq(t, q + 1, Len(t)) = SubSeq(text, p + q + 1, Len(text))
    BY <1>2, <2>2, Suffix
  <2>4. stream = t
    BY <1>6
  <2> HIDE DEF t
  <2> QED
    BY <2>3, <2>4
<1>8. /\ Len(top) \in Nat /\ Len(left) \in Nat /\ Len(text) = Len(top) + Len(left)
      /\ \A k \in 1..Len(top) : text[k] = top[k]
  <2>1. /\ Len(text) = Len(top) + Len(left) /\ Len(top) \in Nat /\ Len(left) \in Nat
        /\ \A i \in 1..(Len(top) + Len(left)) :
              text[i] = IF i <= Len(top) THEN top[i] ELSE left[i - Len(top)]
    BY <1>2, ConcatProperties, TextFacts DEF Text
  <2> QED
    BY <2>1
<1>9. (~frame.past => Reached(f, Message, p, n)) /\ (frame.past => f.past)
  <2>1. CASE ~frame.past
    <3>1. \A k \in 1..n : p + k <= Len(top) => piece[k] = top[p + k]
      <4> SUFFICES ASSUME NEW k \in 1..n, p + k <= Len(top) PROVE piece[k] = top[p + k]
        OBVIOUS
      <4>1. k \in 1..Len(stream) /\ p + k \in 1..Len(top)
        BY <1>1, <1>6, <1>8, <2>1
      <4> QED
        BY <1>3, <1>7, <1>8, <2>1, <4>1
    <3> QED
      BY <1>2, <1>3, <1>5, <1>6, <2>1, <3>1, ExecuteReaches DEF top, f
  <2>2. CASE frame.past
    BY <1>2, <1>3, <1>5, <2>2, ExecuteReaches, 0 \in Nat DEF f
  <2> QED
    BY <2>1, <2>2
<1>10. /\ Rest(turn)' = Rest(turn) /\ Rest(turn - 1)' = text /\ Message' = Message
  BY <1>4, SameTurn DEF text
<1>11. f \in Frames
  BY <1>5 DEF Steady
<1>12. CASE f.crashed
  BY <1>4, <1>12 DEF BodyLeft, ParserInStep
<1>13. CASE ~f.crashed /\ f.parser.error
  <2>1. phase' = "failed"
    BY <1>4, <1>11, <1>13, ReturnOutside
  <2> QED
    BY <2>1 DEF BodyLeft, ParserInStep
<1>14. CASE ~f.crashed /\ ~f.parser.error /\ f.ctx.done
  <2>1. frame'.past = f.past /\ phase' \in {"parsed", "failed"}
    BY <1>4, <1>11, <1>14, ReturnOutside
  <2>2. ASSUME ~f.past PROVE stream' = left
    <3>1. p + f.parser.size = Len(top) /\ f.parser.size \in 0..n /\ ~frame.past
      BY <1>9, <1>14, <2>2 DEF Reached, top
    <3>2. put = n - f.parser.size
      BY <1>14
    <3> HIDE DEF put
    <3> DEFINE q == f.parser.size
    <3>3. q \in 0..Len(stream) /\ n - put + 1 = q + 1
      BY <1>1, <3>1, <3>2
    <3>4. stream' = SubSeq(stream, q + 1, Len(stream))
      BY <1>4, <3>3
    <3>5. p + q + 1 = Len(top) + 1
      BY <3>1
    <3>6. stream' = SubSeq(text, Len(top) + 1, Len(text))
      BY <1>7, <3>1, <3>3, <3>4, <3>5
    <3> QED
      BY <1>2, <3>6, SuffixOfConcat
  <2> QED
    BY <1>10, <2>1, <2>2 DEF BodyLeft, ParserInStep, left
<1>15. CASE ~f.crashed /\ ~f.parser.error /\ ~f.ctx.done
  <2>1. frame' = f /\ phase' = "parse"
    BY <1>4, <1>15
  <2> SUFFICES ASSUME ~f.past PROVE ParserInStep'
    BY <2>1 DEF BodyLeft, ParserInStep
  <2>2. /\ ~f.parser.stopped /\ p + n < Len(top) /\ InStep(f.parser.state, Message, p + n)
        /\ ~frame.past
    BY <1>9, <1>15 DEF Reached, top
  <2>3. put = 0
    BY <1>15
  <2> HIDE DEF put
  <2>4. n - put + 1 = n + 1 /\ n \in 0..Len(stream)
    BY <1>1, <2>3
  <2>5. stream' = SubSeq(text, p + n + 1, Len(text))
    BY <1>4, <1>7, <2>2, <2>4
  <2>6. p + n \in 0..Len(text) /\ p + n \in 0..(Len(top) - 1)
    BY <1>1, <1>6, <1>8, <2>2
  <2>7. Len(stream') = Len(text) - (p + n)
    BY <1>2, <2>5, <2>6, Suffix
  <2>8. Position' = p + n
    <3>1. Position' = Len(text) - Len(stream')
      BY <1>10 DEF Position
    <3> QED
      BY <1>1, <1>6, <1>8, <2>2, <2>7, <3>1
  <2> QED
    BY <1>10, <2>1, <2>2, <2>5, <2>6, <2>8 DEF ParserInStep, top
<1> QED
  BY <1>12, <1>13, <1>14, <1>15

LEMMA ServedBody ==
    ASSUME MemoryKept, BodyLeft, Served
    PROVE  BodyLeft'
<1> DEFINE body == Message.body
<1>1. TypeOK /\ frame \in Frames
  BY DEF MemoryKept, TypeOK
<1>2. body \in Text /\ Rest(turn) \in Text
  BY <1>1, TurnText
<1>3. /\ phase = "parsed" /\ phase' = "served" /\ messages' = messages /\ turn' = turn
      /\ stream' = SubSeq(stream, Len(body) + 1, Len(stream)) /\ frame'.past = frame.past
  BY <1>1 DEF Served, Message, Clean, Frames
<1>4. ~frame.past => stream = body \o Rest(turn)
  BY <1>3 DEF BodyLeft
<1> HIDE DEF body
<1>5. ~frame.past => stream' = Rest(turn)
  BY <1>2, <1>3, <1>4, SuffixOfConcat
<1>6. Rest(turn)' = Rest(turn)
  BY <1>3, SameTurn
<1> QED
  BY <1>3, <1>5, <1>6 DEF BodyLeft, ParserInStep

LEMMA NextRequestBody ==
    ASSUME MemoryKept, BodyLeft, NextRequest
    PROVE  BodyLeft'
<1>1. TypeOK /\ TypeOK'
  BY NextRequestMemory DEF MemoryKept
<1>2. /\ phase = "served" /\ phase' = "parse" /\ messages' = messages /\ turn' = turn + 1
      /\ stream' = stream /\ frame' = NewFrame(frame.allocs, frame.past)
  BY DEF NextRequest
<1>3. frame'.past = frame.past /\ frame'.parser.state = "start" /\ ~frame'.parser.stopped
  BY <1>2 DEF NewFrame
<1>4. ~frame.past => stream = Rest(turn)
  BY <1>2 DEF BodyLeft
<1>5. Rest(turn - 1)' = Rest(turn)
  <2>1. turn' - 1 = turn
    BY <1>1, <1>2, MessageText
  <2> QED
    BY <1>2, <2>1 DEF Rest
<1>6. ~frame.past => ParserInStep'
  <2> SUFFICES ASSUME ~frame.past PROVE ParserInStep'
    OBVIOUS
  <2>1. TurnBegun'
    BY <1>2, <1>3, <1>4, <1>5 DEF TurnBegun
  <2>2. TypeOK' /\ TurnBegun' => ParserInStep'
    BY TurnStarts, PTL
  <2> QED
    BY <1>1, <2>1, <2>2
<1> QED
  BY <1>2, <1>3, <1>6 DEF BodyLeft, ParserInStep

LEMMA NextBody ==
    ASSUME MemoryKept, BodyLeft, [Next]_vars
    PROVE  BodyLeft'
<1>1. CASE \E n \in 1..BufferSize : Read(n)
  BY <1>1, ReadBody
<1>2. CASE ReadFails
  BY <1>2 DEF ReadFails, BodyLeft, ParserInStep
<1>3. CASE Served
  BY <1>3, ServedBody
<1>4. CASE NextRequest
  BY <1>4, NextRequestBody
<1>5. CASE UNCHANGED vars
  BY <1>5 DEF vars, BodyLeft, ParserInStep, Position, Rest, Message
<1> QED
  BY <1>1, <1>2, <1>3, <1>4, <1>5 DEF Next

(* However a connection is cut into reads, a request that is returned      *)
(* leaves its body and what follows to be read, no byte less and none      *)
(* more, as long as no byte behind the headers of a request was parsed     *)
(* (http_request_parse, api_stream_unread).                                *)
THEOREM BodyStaysUnread == Spec => []BodyLeft
<1>1. Init => MemoryKept /\ BodyLeft
  BY InitBody
<1>2. MemoryKept /\ BodyLeft /\ [Next]_vars => MemoryKept' /\ BodyLeft'
  BY NextMemory, NextBody
<1> QED
  BY <1>1, <1>2, PTL DEF Spec

-----------------------------------------------------------------------------
(* What is to come: texts, token by token *)

LEMMA UntilAfter ==
    ASSUME NEW s \in Text
    PROVE  /\ After(s, 0) = s /\ After(s, Len(s)) = <<>> /\ Until(s, Len(s)) = s
           /\ \A n \in 0..Len(s) : Until(s, n) \in Text /\ After(s, n) \in Text
           /\ \A n \in Nat : n < Len(s) =>
                 /\ s[n + 1] \in Bytes
                 /\ After(s, n) = <<s[n + 1]>> \o After(s, n + 1)
                 /\ Until(s, n + 1) = Until(s, n) \o <<s[n + 1]>>
<1>1. s \in Seq(Bytes) /\ Len(s) \in Nat /\ \A i \in 1..Len(s) : s[i] \in Bytes
  BY TextFacts DEF Text
<1>2. After(s, 0) = s /\ Until(s, Len(s)) = s
  BY <1>1, SubSeqFull DEF After, Until
<1>3. After(s, Len(s)) = <<>>
  BY <1>1, SubSeqEmpty DEF After
<1>4. ASSUME NEW n \in 0..Len(s) PROVE Until(s, n) \in Text /\ After(s, n) \in Text
  <2>1. 1 \in 1..(Len(s) + 1) /\ n + 1 \in 1..(Len(s) + 1) /\ Len(s) \in 0..Len(s)
    BY <1>1
  <2> QED
    BY <2>1, TextFacts DEF Until, After
<1>5. ASSUME NEW n \in Nat, n < Len(s)
      PROVE  /\ s[n + 1] \in Bytes
             /\ After(s, n) = <<s[n + 1]>> \o After(s, n + 1)
             /\ Until(s, n + 1) = Until(s, n) \o <<s[n + 1]>>
  <2>1. n + 1 \in 1..Len(s) /\ (n + 1) + 1 = n + 2 /\ n + 1 - 1 = n /\ 1 <= n + 1 /\ n + 1 <= Len(s)
    BY <1>1, <1>5
  <2> DEFINE m == n + 1
  <2> DEFINE L == Len(s)
  <2>2. m \in 1..L /\ L \in 1..L /\ m <= L /\ 1 \in 1..L /\ 1 <= m /\ m - 1 = n
    BY <1>1, <2>1
  <2> HIDE DEF m, L
  <2>3. SubSeq(s, m, L) = <<s[m]>> \o SubSeq(s, m + 1, L)
    BY <1>1, <2>2, SubSeqRecursiveFirst DEF L
  <2>4. SubSeq(s, 1, m) = SubSeq(s, 1, m - 1) \o <<s[m]>>
    BY <1>1, <2>2, SubSeqRecursiveSecond DEF L
  <2> QED
    BY <1>1, <2>1, <2>2, <2>3, <2>4 DEF m, L, Until, After
<1> QED
  BY <1>2, <1>3, <1>4, <1>5

LEMMA OneByte ==
    ASSUME NEW c \in Bytes, NEW t \in Text
    PROVE  LET rest == <<c>> \o t
           IN  rest \in Text /\ Len(rest) = 1 + Len(t) /\ rest[1] = c /\ After(rest, 1) = t
<1>1. <<c>> \in Text /\ Len(<<c>>) = 1 /\ <<c>>[1] = c /\ t \in Text /\ Len(t) \in Nat
  BY TextFacts
<1>2. /\ <<c>> \o t \in Text /\ Len(<<c>> \o t) = 1 + Len(t) /\ (<<c>> \o t)[1] = c
  BY <1>1, ConcatProperties DEF Text
<1>3. SubSeq(<<c>> \o t, Len(<<c>>) + 1, Len(<<c>> \o t)) = t
  BY <1>1, SuffixOfConcat
<1> QED
  BY <1>1, <1>2, <1>3 DEF After

(* The first token of what is left of s, followed by t. *)
LEMMA ComesNext ==
    ASSUME NEW s \in Text, NEW t \in Text, NEW n \in 0..Len(s)
    PROVE  LET rest == After(s, n) \o t
           IN  /\ rest \in Text
               /\ n = Len(s) => rest = t
               /\ n # Len(s) => /\ n < Len(s) /\ s[n + 1] \in Bytes /\ rest[1] = s[n + 1]
                                /\ After(rest, 1) = After(s, n + 1) \o t
<1> DEFINE rest == After(s, n) \o t
<1>1. Len(s) \in Nat /\ n \in Nat /\ (n # Len(s) => n < Len(s)) /\ After(s, n) \in Text
  BY TextFacts, UntilAfter
<1>2. rest \in Text
  BY <1>1, TextFacts
<1>3. CASE n = Len(s)
  <2>1. After(s, n) = <<>>
    BY <1>3, UntilAfter
  <2> QED
    BY <1>2, <1>3, <2>1, ConcatEmptySeq DEF Text
<1>4. CASE n # Len(s)
  <2> DEFINE c == s[n + 1]
  <2> DEFINE a == After(s, n + 1)
  <2>1. n + 1 \in 0..Len(s)
    BY <1>1, <1>4
  <2>2. c \in Bytes /\ a \in Text /\ After(s, n) = <<c>> \o a
    BY <1>1, <1>4, <2>1, UntilAfter
  <2> HIDE DEF c, a
  <2>3. <<c>> \in Text /\ a \o t \in Text
    BY <2>2, TextFacts
  <2>4. rest = <<c>> \o (a \o t)
    BY <2>2, <2>3, Assemble
  <2> HIDE DEF rest
  <2>5. rest[1] = c /\ After(rest, 1) = a \o t
    BY <2>2, <2>3, <2>4, OneByte
  <2> QED
    BY <1>1, <1>2, <1>4, <2>2, <2>5 DEF c, a, rest
<1> QED
  BY <1>3, <1>4

-----------------------------------------------------------------------------
(* What the callbacks make of a url and of headers *)

Content(f, url, headers, header, data, state, last) ==
    /\ f.request.url = url /\ f.request.headers = headers
    /\ f.ctx.header = header /\ f.ctx.data = data
    /\ f.ctx.state = state /\ f.ctx.lastWasValue = last

(* The content of f, with another buffer. *)
WithData(f, g, data) ==
    Content(g, f.request.url, f.request.headers, f.ctx.header, data, f.ctx.state,
            f.ctx.lastWasValue)

(* a string and more text of it *)
Longer(p, text) == <<IF p = Null THEN text ELSE p[1] \o text>>

NewHeader == [name |-> Null, value |-> Null]

LEMMA ConcatContent ==
    ASSUME NEW f \in Frames, Fits(f), NEW text \in Text
    PROVE  WithData(f, Concat(f, text), Longer(f.ctx.data, text))
<1> DEFINE g == Concat(f, text)
<1>1. /\ g.request = f.request /\ g.ctx.state = f.ctx.state /\ g.ctx.header = f.ctx.header
      /\ g.ctx.lastWasValue = f.ctx.lastWasValue
  BY ConcatEffect
<1>2. g.ctx.data = Longer(f.ctx.data, text)
  <2>1. CASE f.ctx.data = Null
    <3>1. g.ctx.data = <<text>>
      BY <2>1 DEF Concat, Frames, Contexts
    <3> QED
      BY <2>1, <3>1 DEF Longer
  <2>2. CASE f.ctx.data # Null
    <3> DEFINE d == <<f.ctx.data[1] \o text>>
    <3> DEFINE a == IF f.ctx.alloc - Len(f.ctx.data[1]) - 1 >= Len(text) THEN f.ctx.alloc
                    ELSE Len(f.ctx.data[1]) + 2 * Len(text)
    <3>1. g = [f EXCEPT !.ctx.data = d, !.ctx.alloc = a]
      BY <2>2 DEF Concat, Frames, Contexts
    <3> HIDE DEF d, a, g
    <3>2. g.ctx.data = d
      BY <3>1 DEF Frames, Contexts
    <3> QED
      BY <2>2, <3>2 DEF Longer, d
  <2> QED
    BY <2>1, <2>2
<1> HIDE DEF g
<1> QED
  BY <1>1, <1>2 DEF WithData, Content, g

LEMMA OnUrlContent ==
    ASSUME NEW f \in Frames, Fits(f), NEW text \in Text
    PROVE  Content(OnUrl(f, text), f.request.url, f.request.headers, f.ctx.header,
                   Longer(f.ctx.data, text), "Url", f.ctx.lastWasValue)
<1> DEFINE e == [f EXCEPT !.ctx.state = "Url"]
<1>1. OnUrl(f, text) = Concat(e, text)
  BY DEF OnUrl
<1>2. /\ e \in Frames /\ e.request = f.request /\ e.ctx.state = "Url"
      /\ e.ctx.header = f.ctx.header /\ e.ctx.data = f.ctx.data
      /\ e.ctx.lastWasValue = f.ctx.lastWasValue /\ e.ctx.alloc = f.ctx.alloc
  BY DEF Frames, Contexts
<1> HIDE DEF e
<1>3. WithData(e, Concat(e, text), Longer(e.ctx.data, text))
  BY <1>2, ConcatContent DEF Fits
<1> QED
  BY <1>1, <1>2, <1>3 DEF WithData, Content

LEMMA NewHeaderContent ==
    ASSUME NEW f \in Frames
    PROVE  LET g == [f EXCEPT !.ctx.header = <<NewHeader>>, !.allocs = @ + 1]
               e == [g EXCEPT !.ctx.state = "HeaderName"]
           IN  /\ e \in Frames /\ e.ctx.alloc = f.ctx.alloc
               /\ Content(e, f.request.url, f.request.headers, <<NewHeader>>, f.ctx.data,
                          "HeaderName", f.ctx.lastWasValue)
<1> DEFINE p == <<NewHeader>>
<1> DEFINE n == f.allocs + 1
<1> DEFINE c == [f.ctx EXCEPT !.header = p]
<1> DEFINE d == [c EXCEPT !.state = "HeaderName"]
<1> DEFINE g == [f EXCEPT !.ctx.header = <<NewHeader>>, !.allocs = @ + 1]
<1> DEFINE e == [g EXCEPT !.ctx.state = "HeaderName"]
<1>1. p \in Optional(Headers) /\ n \in Int /\ f.ctx \in Contexts
  <2>1. NewHeader \in Headers
    BY OptionalFacts DEF NewHeader, Headers, Pointer
  <2>2. n \in Int /\ f.ctx \in Contexts
    BY DEF Frames
  <2> QED
    BY <2>1, <2>2, OptionalFacts
<1>2. g = [f EXCEPT !.ctx = c, !.allocs = n]
  BY DEF Frames, Contexts
<1> HIDE DEF p, n, g
<1>3. /\ d \in Contexts /\ d.header = p /\ d.state = "HeaderName" /\ d.data = f.ctx.data
      /\ d.lastWasValue = f.ctx.lastWasValue /\ d.alloc = f.ctx.alloc
  BY <1>1 DEF Contexts
<1>4. e = [f EXCEPT !.ctx = d, !.allocs = n]
  BY <1>2 DEF Frames
<1> HIDE DEF d, e
<1>5. e \in Frames /\ e.ctx = d /\ e.request = f.request
  BY <1>1, <1>3, <1>4 DEF Frames
<1> QED
  BY <1>3, <1>5 DEF p, e, g, Content

LEMMA OnHeaderFieldContent ==
    ASSUME NEW f \in Frames, Fits(f), Collecting(f), NEW text \in Text
    PROVE  LET g == OnHeaderField(f, text)
               h == [f.ctx.header[1] EXCEPT !.value = f.ctx.data]
           IN  /\ f.ctx.header = Null =>
                     Content(g, f.ctx.data, f.request.headers, <<NewHeader>>, <<text>>,
                             "HeaderName", FALSE)
               /\ f.ctx.header # Null /\ f.ctx.lastWasValue =>
                     Content(g, f.request.url, <<h>> \o f.request.headers, <<NewHeader>>,
                             <<text>>, "HeaderName", FALSE)
               /\ f.ctx.header # Null /\ ~f.ctx.lastWasValue =>
                     WithData(f, g, Longer(f.ctx.data, text))
<1> DEFINE f1 == IF f.ctx.state = "Url"
                 THEN TakeBuffer([f EXCEPT !.request.url = f.ctx.data]) ELSE f
<1> DEFINE f2 == IF f.ctx.lastWasValue /\ f.ctx.header # Null
                 THEN [PushHeader(f1) EXCEPT !.ctx.lastWasValue = FALSE] ELSE f1
<1> DEFINE f3 == IF f2.ctx.header = Null
                 THEN [f2 EXCEPT !.ctx.header = <<NewHeader>>, !.allocs = @ + 1]
                 ELSE f2
<1> DEFINE e == [f3 EXCEPT !.ctx.state = "HeaderName"]
<1> DEFINE g == OnHeaderField(f, text)
<1>1. /\ f.ctx \in Contexts /\ f.request \in Requests
      /\ f.ctx.state = "Url" <=> f.ctx.header = Null
      /\ f.ctx.header = Null => ~f.ctx.lastWasValue
      /\ f.ctx.state \in {"Url", "HeaderName"} /\ f.ctx.lastWasValue \in BOOLEAN
  BY DEF Collecting, Frames, Contexts
<1>2. g = Concat(e, text)
  BY <1>1 DEF OnHeaderField, NewHeader
<1> HIDE DEF g
<1>3. e \in Frames /\ Fits(e) => WithData(e, g, Longer(e.ctx.data, text))
  <2> HIDE DEF e
  <2> QED
    BY <1>2, ConcatContent
<1>4. CASE f.ctx.header = Null
  <2> DEFINE t == TakeBuffer([f EXCEPT !.request.url = f.ctx.data])
  <2>1. /\ t \in Frames /\ t.request = [f.request EXCEPT !.url = f.ctx.data]
        /\ t.ctx = [f.ctx EXCEPT !.data = Null, !.alloc = 0]
    BY TakeUrlEffect
  <2>2. f2 = t
    BY <1>1, <1>4
  <2> HIDE DEF t, f2
  <2>3. Content(t, f.ctx.data, f.request.headers, Null, Null, "Url", FALSE)
    BY <1>1, <1>4, <2>1 DEF Content, Contexts, Requests
  <2>4. e = [[t EXCEPT !.ctx.header = <<NewHeader>>, !.allocs = @ + 1]
                EXCEPT !.ctx.state = "HeaderName"]
    BY <2>2, <2>3 DEF Content
  <2> HIDE DEF e
  <2>5. e \in Frames /\ Content(e, t.request.url, t.request.headers, <<NewHeader>>, t.ctx.data,
                                "HeaderName", t.ctx.lastWasValue)
    BY <2>1, <2>4, NewHeaderContent
  <2> QED
    BY <1>3, <1>4, <2>3, <2>5 DEF Content, WithData, Longer, Fits, g
<1>5. CASE f.ctx.header # Null /\ f.ctx.lastWasValue
  <2> DEFINE p == PushHeader(f)
  <2> DEFINE h == [f.ctx.header[1] EXCEPT !.value = f.ctx.data]
  <2> DEFINE t == [p EXCEPT !.ctx.lastWasValue = FALSE]
  <2>1. /\ p \in Frames /\ p.request = [f.request EXCEPT !.headers = <<h>> \o f.request.headers]
        /\ p.ctx = [f.ctx EXCEPT !.header = Null, !.data = Null, !.alloc = 0]
    BY <1>5, PushEffect
  <2>2. f2 = t
    BY <1>1, <1>5
  <2> HIDE DEF p, h, f2
  <2>3. /\ t \in Frames /\ t.request = p.request /\ t.ctx = [p.ctx EXCEPT !.lastWasValue = FALSE]
    BY <2>1 DEF Frames, Contexts
  <2> HIDE DEF t
  <2>4. Content(t, f.request.url, <<h>> \o f.request.headers, Null, Null, "HeaderName", FALSE)
    <3>1. /\ t.ctx.header = Null /\ t.ctx.data = Null /\ t.ctx.state = "HeaderName"
          /\ t.ctx.lastWasValue = FALSE
      BY <1>1, <1>5, <2>1, <2>3 DEF Contexts
    <3>2. t.request.url = f.request.url /\ t.request.headers = <<h>> \o f.request.headers
      BY <1>1, <2>1, <2>3 DEF Requests
    <3> QED
      BY <3>1, <3>2 DEF Content
  <2>5. e = [[t EXCEPT !.ctx.header = <<NewHeader>>, !.allocs = @ + 1]
                EXCEPT !.ctx.state = "HeaderName"]
    BY <2>2, <2>4 DEF Content
  <2> HIDE DEF e
  <2>6. e \in Frames /\ Content(e, t.request.url, t.request.headers, <<NewHeader>>, t.ctx.data,
                                "HeaderName", t.ctx.lastWasValue)
    BY <2>3, <2>5, NewHeaderContent
  <2> QED
    BY <1>3, <1>5, <2>4, <2>6 DEF Content, WithData, Longer, Fits, g, h
<1>6. CASE f.ctx.header # Null /\ ~f.ctx.lastWasValue
  <2>1. f2 = f /\ f3 = f /\ f.ctx.state = "HeaderName"
    BY <1>1, <1>6
  <2>2. e = f
    BY <2>1, ZenonT(60) DEF Frames, Contexts
  <2> HIDE DEF e
  <2> QED
    BY <1>3, <1>6, <2>2 DEF g
<1> QED
  BY <1>4, <1>5, <1>6 DEF g

LEMMA OnHeaderValueContent ==
    ASSUME NEW f \in Frames, Fits(f), NEW text \in Text, f.ctx.header # Null
    PROVE  LET g == OnHeaderValue(f, text)
               h == [f.ctx.header[1] EXCEPT !.name = f.ctx.data]
           IN  /\ f.ctx.lastWasValue => WithData(f, g, Longer(f.ctx.data, text))
               /\ ~f.ctx.lastWasValue =>
                     Content(g, f.request.url, f.request.headers, <<h>>, <<text>>,
                             f.ctx.state, TRUE)
<1> DEFINE n == IF f.ctx.lastWasValue THEN f
                ELSE TakeBuffer([f EXCEPT !.ctx.header[1].name = f.ctx.data])
<1> DEFINE e == [n EXCEPT !.ctx.lastWasValue = TRUE]
<1> DEFINE g == OnHeaderValue(f, text)
<1>1. g = Concat(e, text)
  BY DEF OnHeaderValue
<1> HIDE DEF g
<1>2. e \in Frames /\ Fits(e) => WithData(e, g, Longer(e.ctx.data, text))
  <2> HIDE DEF e
  <2> QED
    BY <1>1, ConcatContent
<1>3. CASE f.ctx.lastWasValue
  <2>1. e = f
    BY <1>3 DEF Frames, Contexts
  <2> HIDE DEF e
  <2> QED
    BY <1>2, <1>3, <2>1 DEF g
<1>4. CASE ~f.ctx.lastWasValue
  <2> DEFINE h == f.ctx.header[1]
  <2> DEFINE k == [h EXCEPT !.name = f.ctx.data]
  <2> DEFINE q == <<k>>
  <2>1. /\ f.ctx \in Contexts /\ f.ctx.data \in Pointer /\ Null \in Pointer
        /\ h \in Headers /\ f.ctx.header = <<h>>
    BY OptionalFacts DEF Frames, Contexts, Pointer
  <2>2. k \in Headers /\ q \in Optional(Headers)
    <3>1. k \in Headers
      BY <2>1 DEF Headers
    <3> HIDE DEF k
    <3> QED
      BY <3>1, OptionalFacts
  <2>3. [f EXCEPT !.ctx.header[1].name = f.ctx.data] = [f EXCEPT !.ctx.header = q]
    <3>1. [<<h>> EXCEPT ![1].name = f.ctx.data] = q
      OBVIOUS
    <3> HIDE DEF h, q
    <3>2. [f EXCEPT !.ctx.header[1].name = f.ctx.data]
              = [f EXCEPT !.ctx.header = [f.ctx.header EXCEPT ![1].name = f.ctx.data]]
      BY DEF Frames, Contexts
    <3> QED
      BY <2>1, <3>1, <3>2
  <2> HIDE DEF h, k, q
  <2>4. n = [[f EXCEPT !.ctx.header = q] EXCEPT !.ctx.data = Null, !.ctx.alloc = 0]
    BY <1>4, <2>3 DEF TakeBuffer
  <2>5. n = [f EXCEPT !.ctx = [f.ctx EXCEPT !.header = q, !.data = Null, !.alloc = 0]]
    BY <2>1, <2>4 DEF Frames, Contexts
  <2> HIDE DEF n
  <2> DEFINE c == [f.ctx EXCEPT !.header = q, !.data = Null, !.alloc = 0, !.lastWasValue = TRUE]
  <2>6. e = [f EXCEPT !.ctx = c]
    BY <2>1, <2>5 DEF Frames, Contexts
  <2>7. /\ c \in Contexts /\ c.header = q /\ c.data = Null /\ c.lastWasValue = TRUE
        /\ c.state = f.ctx.state
    BY <2>1, <2>2 DEF Contexts
  <2> HIDE DEF c, e
  <2>8. e \in Frames /\ e.ctx = c /\ e.request = f.request
    BY <2>6, <2>7 DEF Frames
  <2> QED
    BY <1>2, <1>4, <2>7, <2>8 DEF Content, WithData, Longer, Fits, g, h, k, q
<1> QED
  BY <1>3, <1>4 DEF g

LEMMA OnHeadersCompleteContent ==
    ASSUME NEW f \in Frames
    PROVE  LET g == OnHeadersComplete(f)
           IN  /\ f.ctx.header = Null =>
                     g.request.url = f.ctx.data /\ g.request.headers = f.request.headers
               /\ f.ctx.header # Null =>
                     /\ g.request.url = f.request.url
                     /\ g.request.headers = <<[f.ctx.header[1] EXCEPT !.value = f.ctx.data]>>
                                                \o f.request.headers
<1> DEFINE e == IF f.ctx.header # Null THEN PushHeader(f)
                ELSE TakeBuffer([f EXCEPT !.request.url = f.ctx.data])
<1>1. OnHeadersComplete(f) = [e EXCEPT !.ctx.done = TRUE]
  BY DEF OnHeadersComplete
<1>2. f.request \in Requests
  BY DEF Frames
<1>3. CASE f.ctx.header = Null
  <2>1. e \in Frames /\ e.request = [f.request EXCEPT !.url = f.ctx.data]
    BY <1>3, TakeUrlEffect, Zenon
  <2> HIDE DEF e
  <2>2. OnHeadersComplete(f).request = e.request
    BY <1>1, <2>1 DEF Frames
  <2> QED
    BY <1>2, <1>3, <2>1, <2>2 DEF Requests
<1>4. CASE f.ctx.header # Null
  <2> DEFINE h == [f.ctx.header[1] EXCEPT !.value = f.ctx.data]
  <2>1. e \in Frames /\ e.request = [f.request EXCEPT !.headers = <<h>> \o f.request.headers]
    BY <1>4, PushEffect, Zenon
  <2> HIDE DEF e, h
  <2>2. OnHeadersComplete(f).request = e.request
    BY <1>1, <2>1 DEF Frames
  <2> QED
    BY <1>2, <1>4, <2>1, <2>2 DEF Requests, h
<1> QED
  BY <1>3, <1>4

-----------------------------------------------------------------------------
(* Callbacks and the marks they are made for *)

(* f in the midst of the headers of a request *)
Working(f) == Ready(f) /\ Collecting(f) /\ ~f.ctx.done

Same(f, g) == WithData(f, g, f.ctx.data)

LEMMA BesideSame ==
    ASSUME NEW f, NEW g, SameBeside(f, g)
    PROVE  Same(f, g)
  BY DEF SameBeside, Same, WithData, Content

LEMMA CallBackContent ==
    ASSUME NEW f \in Frames, Fits(f), Collecting(f), f.parser.run # Null,
           f.parser.state \notin {"url", "urlEnd", "name", "nameEnd"} => f.ctx.header # Null
    PROVE  LET g == CallBack(f)
               text == f.parser.run[1]
               h == f.ctx.header[1]
               state == f.parser.state
           IN  /\ state \in {"url", "urlEnd"} =>
                     Content(g, f.request.url, f.request.headers, f.ctx.header,
                             Longer(f.ctx.data, text), "Url", f.ctx.lastWasValue)
               /\ state \in {"name", "nameEnd"} =>
                     /\ f.ctx.header = Null =>
                           Content(g, f.ctx.data, f.request.headers, <<NewHeader>>, <<text>>,
                                   "HeaderName", FALSE)
                     /\ f.ctx.header # Null /\ f.ctx.lastWasValue =>
                           Content(g, f.request.url,
                                   <<[h EXCEPT !.value = f.ctx.data]>> \o f.request.headers,
                                   <<NewHeader>>, <<text>>, "HeaderName", FALSE)
                     /\ f.ctx.header # Null /\ ~f.ctx.lastWasValue =>
                           WithData(f, g, Longer(f.ctx.data, text))
               /\ state \notin {"url", "urlEnd", "name", "nameEnd"} =>
                     /\ f.ctx.lastWasValue => WithData(f, g, Longer(f.ctx.data, text))
                     /\ ~f.ctx.lastWasValue =>
                           Content(g, f.request.url, f.request.headers,
                                   <<[h EXCEPT !.name = f.ctx.data]>>, <<text>>,
                                   f.ctx.state, TRUE)
<1> DEFINE e == [f EXCEPT !.parser.run = Null]
<1> DEFINE text == f.parser.run[1]
<1> DEFINE g == CallBack(f)
<1>1. text \in Text
  BY OptionalFacts DEF Frames, Parsers, Pointer
<1>2. e \in Frames /\ SameBeside(f, e)
  BY OptionalFacts, RunEffect DEF Pointer
<1>3. g = CASE f.parser.state \in {"url", "urlEnd"} -> OnUrl(e, text)
            [] f.parser.state \in {"name", "nameEnd"} -> OnHeaderField(e, text)
            [] OTHER -> OnHeaderValue(e, text)
  BY DEF CallBack
<1> HIDE DEF e, text, g
<1>4. /\ Fits(e) /\ Collecting(e) /\ e.ctx = f.ctx /\ e.request = f.request
  BY <1>2 DEF Fits, SameBeside, Collecting, Balanced
<1>5. CASE f.parser.state \in {"url", "urlEnd"}
  <2>1. g = OnUrl(e, text)
    BY <1>3, <1>5
  <2>2. Content(g, f.request.url, f.request.headers, f.ctx.header,
                Longer(f.ctx.data, text), "Url", f.ctx.lastWasValue)
    BY <1>1, <1>2, <1>4, <2>1, OnUrlContent
  <2> QED
    BY <1>5, <2>2 DEF g, text
<1>6. CASE f.parser.state \in {"name", "nameEnd"}
  <2>1. g = OnHeaderField(e, text)
    BY <1>3, <1>6
  <2> DEFINE h == [e.ctx.header[1] EXCEPT !.value = e.ctx.data]
  <2>2. /\ e.ctx.header = Null =>
              Content(g, e.ctx.data, e.request.headers, <<NewHeader>>, <<text>>,
                      "HeaderName", FALSE)
        /\ e.ctx.header # Null /\ e.ctx.lastWasValue =>
              Content(g, e.request.url, <<h>> \o e.request.headers, <<NewHeader>>,
                      <<text>>, "HeaderName", FALSE)
        /\ e.ctx.header # Null /\ ~e.ctx.lastWasValue =>
              WithData(e, g, Longer(e.ctx.data, text))
    BY <1>1, <1>2, <1>4, <2>1, OnHeaderFieldContent
  <2> QED
    BY <1>4, <1>6, <2>2 DEF g, text, WithData
<1>7. CASE f.parser.state \notin {"url", "urlEnd", "name", "nameEnd"}
  <2>1. g = OnHeaderValue(e, text)
    BY <1>3, <1>7
  <2> DEFINE h == [e.ctx.header[1] EXCEPT !.name = e.ctx.data]
  <2>2. /\ e.ctx.lastWasValue => WithData(e, g, Longer(e.ctx.data, text))
        /\ ~e.ctx.lastWasValue =>
              Content(g, e.request.url, e.request.headers, <<h>>, <<text>>, e.ctx.state, TRUE)
    BY <1>1, <1>2, <1>4, <1>7, <2>1, OnHeaderValueContent
  <2> QED
    BY <1>4, <1>7, <2>2 DEF g, text, WithData
<1> QED
  BY <1>5, <1>6, <1>7 DEF g, text

(* What is behind a callback is the text from its mark on. *)
LEMMA CallBackData ==
    ASSUME NEW f, Working(f), f.parser.state \in {"url", "name", "value"}
    PROVE  /\ f.parser.run # Null /\ f.parser.run[1] \in Text
           /\ f.parser.state = "value" => f.ctx.header # Null
           /\ CallBack(f).ctx.data # Null /\ CallBack(f).ctx.data[1] \in Text
<1>1. /\ f \in Frames /\ Fits(f) /\ Collecting(f) /\ f.parser.run # Null
      /\ f.parser.state = "value" => f.ctx.header # Null
  BY DEF Working, Ready, Running, Placed
<1>2. f.parser.run[1] \in Text
  BY <1>1, OptionalFacts DEF Frames, Parsers, Pointer
<1> DEFINE k == CallBack(f)
<1>3. k.ctx.data # Null
  <2>1. \A p, text : Longer(p, text) # Null /\ <<text>> # Null
    BY DEF Longer, Null
  <2> DEFINE t == f.parser.run[1]
  <2>2. CASE f.parser.state = "url"
    <3>1. k.ctx.data = Longer(f.ctx.data, t)
      BY <1>1, <2>2, CallBackContent DEF Content
    <3> QED
      BY <2>1, <3>1
  <2>3. CASE f.parser.state = "name"
    <3>1. k.ctx.data \in {<<t>>, Longer(f.ctx.data, t)}
      BY <1>1, <2>3, CallBackContent DEF Content, WithData
    <3> QED
      BY <2>1, <3>1
  <2>4. CASE f.parser.state = "value"
    <3>1. k.ctx.data \in {<<t>>, Longer(f.ctx.data, t)}
      BY <1>1, <2>4, CallBackContent DEF Content, WithData
    <3> QED
      BY <2>1, <3>1
  <2> QED
    BY <2>2, <2>3, <2>4
<1>4. CallBack(f) \in Frames
  BY <1>1, CallBackEffect
<1>5. CallBack(f).ctx.data \in Pointer
  BY <1>4 DEF Frames, Contexts
<1> QED
  BY <1>1, <1>2, <1>3, <1>5, OptionalFacts DEF Pointer

LEMMA LongerByByte ==
    ASSUME NEW p \in Pointer, NEW text \in Text, NEW c \in Bytes
    PROVE  /\ Append(text, c) \in Text
           /\ <<Append(text, c)>> = << <<text>>[1] \o <<c>> >>
           /\ Longer(p, Append(text, c)) = <<Longer(p, text)[1] \o <<c>> >>
<1>1. Append(text, c) = text \o <<c>> /\ Append(text, c) \in Text /\ <<c>> \in Text
  BY TextFacts, AppendIsConcat, AppendProperties DEF Text
<1>2. CASE p = Null
  BY <1>1, <1>2 DEF Longer
<1>3. CASE p # Null
  <2>1. p[1] \in Text
    BY <1>3, OptionalFacts DEF Pointer
  <2>2. p[1] \o (text \o <<c>>) = (p[1] \o text) \o <<c>>
    BY <1>1, <2>1, Assemble
  <2> QED
    BY <1>1, <1>3, <2>2 DEF Longer
<1> QED
  BY <1>2, <1>3

(* A byte more under a mark is a byte more called back. *)
LEMMA MarkContent ==
    ASSUME NEW f, Working(f), f.parser.state \in {"url", "name", "value"}, NEW c \in Bytes
    PROVE  LET k == CallBack(f)
               g == CallBack(Mark(f, c))
           IN  g.parser.state = f.parser.state /\ WithData(k, g, <<k.ctx.data[1] \o <<c>> >>)
<1> DEFINE text == f.parser.run[1]
<1> DEFINE more == Append(text, c)
<1> DEFINE n == Mark(f, c)
<1> DEFINE k == CallBack(f)
<1> DEFINE g == CallBack(n)
<1>1. /\ f \in Frames /\ Fits(f) /\ Collecting(f) /\ f.parser.run # Null /\ text \in Text
      /\ f.parser.state = "value" => f.ctx.header # Null
  BY CallBackData DEF Working, Ready
<1>2. f.ctx.data \in Pointer
  BY <1>1 DEF Frames, Contexts
<1>3. more \in Text /\ <<more>> = << <<text>>[1] \o <<c>> >>
      /\ Longer(f.ctx.data, more) = <<Longer(f.ctx.data, text)[1] \o <<c>> >>
  BY <1>1, <1>2, LongerByByte
<1>4. /\ n \in Frames /\ SameBeside(f, n) /\ n.parser.state = f.parser.state
      /\ n.parser.run = <<more>>
  <2>1. n = [f EXCEPT !.parser.run = <<more>>]
    BY <1>1 DEF Mark
  <2>2. <<more>> \in Pointer
    BY <1>3, OptionalFacts DEF Pointer
  <2> HIDE DEF more, n
  <2> QED
    BY <1>1, <2>1, <2>2, RunEffect
<1> HIDE DEF text, more, n
<1>5. /\ Fits(n) /\ Collecting(n) /\ n.parser.run # Null /\ n.parser.run[1] = more
      /\ n.ctx = f.ctx /\ n.request = f.request
  BY <1>1, <1>4 DEF Fits, SameBeside, Collecting, Balanced, Null
<1>6. g.parser.state = f.parser.state
  BY <1>4, <1>5, CallBackCalm
<1> HIDE DEF k, g
<1> DEFINE h == f.ctx.header[1]
<1>7. CASE f.parser.state = "url"
  <2>1. Content(k, f.request.url, f.request.headers, f.ctx.header,
                Longer(f.ctx.data, text), "Url", f.ctx.lastWasValue)
    BY <1>1, <1>7, CallBackContent DEF k, text
  <2>2. Content(g, f.request.url, f.request.headers, f.ctx.header,
                Longer(f.ctx.data, more), "Url", f.ctx.lastWasValue)
    BY <1>4, <1>5, <1>7, CallBackContent DEF g
  <2> QED
    BY <1>3, <1>6, <2>1, <2>2 DEF Content, WithData, k, g, n
<1>8. CASE f.parser.state = "name"
  <2>1. /\ f.ctx.header = Null =>
              Content(k, f.ctx.data, f.request.headers, <<NewHeader>>, <<text>>,
                      "HeaderName", FALSE)
        /\ f.ctx.header # Null /\ f.ctx.lastWasValue =>
              Content(k, f.request.url,
                      <<[h EXCEPT !.value = f.ctx.data]>> \o f.request.headers,
                      <<NewHeader>>, <<text>>, "HeaderName", FALSE)
        /\ f.ctx.header # Null /\ ~f.ctx.lastWasValue =>
              WithData(f, k, Longer(f.ctx.data, text))
    BY <1>1, <1>8, CallBackContent DEF k, text
  <2>2. /\ f.ctx.header = Null =>
              Content(g, f.ctx.data, f.request.headers, <<NewHeader>>, <<more>>,
                      "HeaderName", FALSE)
        /\ f.ctx.header # Null /\ f.ctx.lastWasValue =>
              Content(g, f.request.url,
                      <<[h EXCEPT !.value = f.ctx.data]>> \o f.request.headers,
                      <<NewHeader>>, <<more>>, "HeaderName", FALSE)
        /\ f.ctx.header # Null /\ ~f.ctx.lastWasValue =>
              WithData(n, g, Longer(f.ctx.data, more))
    BY <1>4, <1>5, <1>8, CallBackContent DEF g
  <2> HIDE DEF h
  <2> QED
    BY <1>3, <1>5, <1>6, <2>1, <2>2 DEF Content, WithData, k, g, n
<1>9. CASE f.parser.state = "value"
  <2>1. /\ f.ctx.lastWasValue => WithData(f, k, Longer(f.ctx.data, text))
        /\ ~f.ctx.lastWasValue =>
              Content(k, f.request.url, f.request.headers,
                      <<[h EXCEPT !.name = f.ctx.data]>>, <<text>>, f.ctx.state, TRUE)
    BY <1>1, <1>9, CallBackContent DEF k, text
  <2>2. /\ f.ctx.lastWasValue => WithData(n, g, Longer(f.ctx.data, more))
        /\ ~f.ctx.lastWasValue =>
              Content(g, f.request.url, f.request.headers,
                      <<[h EXCEPT !.name = f.ctx.data]>>, <<more>>, f.ctx.state, TRUE)
    BY <1>1, <1>4, <1>5, <1>9, CallBackContent DEF g
  <2> HIDE DEF h
  <2> QED
    BY <1>3, <1>5, <1>6, <2>1, <2>2 DEF Content, WithData, k, g, n
<1> QED
  BY <1>7, <1>8, <1>9

(* The end of a text is called back with the text before it. *)
LEMMA EndContent ==
    ASSUME NEW f, Working(f), NEW end,
           \/ f.parser.state = "url" /\ end = "urlEnd"
           \/ f.parser.state = "name" /\ end = "nameEnd",
           NEW state \in States
    PROVE  LET k == CallBack(f)
               g == Goto(CallBack(Goto(f, end)), state)
           IN  Same(k, g) /\ g.parser.run = Null
<1> DEFINE n == Goto(f, end)
<1> DEFINE k == CallBack(f)
<1> DEFINE e == CallBack(n)
<1> DEFINE h == f.ctx.header[1]
<1> DEFINE text == f.parser.run[1]
<1>1. /\ f \in Frames /\ Fits(f) /\ Collecting(f) /\ f.parser.run # Null
      /\ f.parser.state \in {"url", "name"}
  BY CallBackData DEF Working, Ready
<1>2. /\ n \in Frames /\ SameBeside(f, n) /\ n.parser.state = end
      /\ n.parser.run = f.parser.run
  BY <1>1, GotoEffect
<1> HIDE DEF n
<1>3. Fits(n) /\ Collecting(n) /\ n.ctx = f.ctx /\ n.request = f.request
  BY <1>1, <1>2 DEF Fits, SameBeside, Collecting, Balanced
<1>4. e \in Frames /\ e.parser.run = Null
  BY <1>1, <1>2, <1>3, CallBackEffect
<1> HIDE DEF e, k
<1>5. Same(k, e)
  <2>1. CASE f.parser.state = "url"
    <3>1. Content(k, f.request.url, f.request.headers, f.ctx.header,
                  Longer(f.ctx.data, text), "Url", f.ctx.lastWasValue)
      BY <1>1, <2>1, CallBackContent DEF k
    <3>2. Content(e, f.request.url, f.request.headers, f.ctx.header,
                  Longer(f.ctx.data, text), "Url", f.ctx.lastWasValue)
      BY <1>1, <1>2, <1>3, <2>1, CallBackContent DEF e
    <3> QED
      BY <3>1, <3>2 DEF Content, WithData, Same
  <2>2. CASE f.parser.state = "name"
    <3>1. /\ f.ctx.header = Null =>
                Content(k, f.ctx.data, f.request.headers, <<NewHeader>>, <<text>>,
                        "HeaderName", FALSE)
          /\ f.ctx.header # Null /\ f.ctx.lastWasValue =>
                Content(k, f.request.url,
                        <<[h EXCEPT !.value = f.ctx.data]>> \o f.request.headers,
                        <<NewHeader>>, <<text>>, "HeaderName", FALSE)
          /\ f.ctx.header # Null /\ ~f.ctx.lastWasValue =>
                WithData(f, k, Longer(f.ctx.data, text))
      BY <1>1, <2>2, CallBackContent DEF k
    <3>2. /\ f.ctx.header = Null =>
                Content(e, f.ctx.data, f.request.headers, <<NewHeader>>, <<text>>,
                        "HeaderName", FALSE)
          /\ f.ctx.header # Null /\ f.ctx.lastWasValue =>
                Content(e, f.request.url,
                        <<[h EXCEPT !.value = f.ctx.data]>> \o f.request.headers,
                        <<NewHeader>>, <<text>>, "HeaderName", FALSE)
          /\ f.ctx.header # Null /\ ~f.ctx.lastWasValue =>
                WithData(n, e, Longer(f.ctx.data, text))
      BY <1>1, <1>2, <1>3, <2>2, CallBackContent DEF e
    <3> HIDE DEF h, text
    <3> QED
      BY <1>3, <3>1, <3>2 DEF Content, WithData, Same
  <2> QED
    BY <1>1, <2>1, <2>2
<1>6. LET g == Goto(e, state) IN SameBeside(e, g) /\ g.parser.run = Null
  BY <1>4, GotoEffect
<1> QED
  BY <1>5, <1>6 DEF Same, WithData, Content, SameBeside, k, e, n

-----------------------------------------------------------------------------
(* The lines of a message, header by header *)

HeaderLines == [name : Text, colon : BOOLEAN, value : Text]

LEMMA HeaderText ==
    ASSUME NEW m \in Messages
    PROVE  /\ m.headers \in Seq(HeaderLines) /\ DOMAIN m.headers = 1..Len(m.headers)
           /\ Len(m.headers) \in Nat
           /\ Eol \in Bytes /\ Version \in Bytes /\ ":" \in Bytes /\ Space \in Bytes
           /\ m.method \in Bytes /\ m.url \in Text
           /\ \A i \in 1..Len(m.headers) :
                 /\ m.headers[i] \in HeaderLines /\ m.headers[i].name \in Text
                 /\ m.headers[i].value \in Text /\ Line(m.headers[i]) \in Text
<1>1. /\ m.headers \in Seq(HeaderLines) /\ Eol \in Bytes /\ Version \in Bytes /\ ":" \in Bytes
      /\ Space \in Bytes /\ m.method \in Bytes /\ m.url \in Text
  BY HttpAssumption DEF Messages, HeaderLines
<1>2. /\ Len(m.headers) \in Nat /\ DOMAIN m.headers = 1..Len(m.headers)
      /\ \A i \in 1..Len(m.headers) : m.headers[i] \in HeaderLines
  BY <1>1
<1>3. ASSUME NEW h \in HeaderLines PROVE h.name \in Text /\ h.value \in Text /\ Line(h) \in Text
  <2> DEFINE v == IF h.colon THEN <<":">> \o h.value ELSE <<>>
  <2>1. h.name \in Text /\ h.value \in Text
    BY DEF HeaderLines
  <2>2. v \in Text /\ <<Eol>> \in Text
    BY <1>1, <2>1, TextFacts
  <2>3. Line(h) = h.name \o v \o <<Eol>>
    BY DEF Line
  <2> HIDE DEF v
  <2> QED
    BY <2>1, <2>2, <2>3, TextFacts
<1> QED
  BY <1>1, <1>2, <1>3

LEMMA LinesFromFacts ==
    ASSUME NEW m \in Messages
    PROVE  LET L == Len(m.headers)
           IN  /\ \A i \in 1..(L + 1) : LinesFrom(m, i) \in Text
               /\ LinesFrom(m, L + 1) = <<Eol>>
               /\ LinesFrom(m, 1) = Lines(m) \o <<Eol>>
               /\ \A i \in 1..L : LinesFrom(m, i) = Line(m.headers[i]) \o LinesFrom(m, i + 1)
<1> DEFINE L == Len(m.headers)
<1> DEFINE line(i) == Line(m.headers[i])
<1> DEFINE r(i) == [j \in 1..(L - i + 1) |-> line(i + j - 1)]
<1>1. L \in Nat /\ DOMAIN m.headers = 1..L /\ <<Eol>> \in Text /\ \A i \in 1..L : line(i) \in Text
  BY HeaderText, TextFacts
<1>2. \A i : LinesFrom(m, i) = FlattenSeq(r(i)) \o <<Eol>>
  BY DEF LinesFrom
<1>3. LinesFrom(m, 1) = Lines(m) \o <<Eol>>
  <2> DEFINE a == [i \in DOMAIN m.headers |-> Line(m.headers[i])]
  <2>1. L - 1 + 1 = L /\ \A j \in 1..L : 1 + j - 1 = j
    BY <1>1
  <2>2. r(1) = a
    BY <1>1, <2>1
  <2> QED
    BY <1>2, <2>2 DEF Lines
<1> HIDE DEF L, line
<1>4. ASSUME NEW i \in 1..(L + 1)
      PROVE  r(i) \in Seq(Text) /\ Len(r(i)) = L - i + 1
             /\ \A j \in 1..(L - i + 1) : r(i)[j] = line(i + j - 1)
  <2>1. L - i + 1 \in Nat /\ \A j \in 1..(L - i + 1) : i + j - 1 \in 1..L
    BY <1>1
  <2>2. r(i) \in [1..(L - i + 1) -> Text]
    BY <1>1, <2>1
  <2> DEFINE s == r(i)
  <2>3. \A j \in 1..(L - i + 1) : s[j] = line(i + j - 1)
    OBVIOUS
  <2> HIDE DEF s
  <2>4. s \in Seq(Text) /\ Len(s) = L - i + 1
    BY <2>1, <2>2, SeqDef DEF s
  <2> QED
    BY <2>3, <2>4 DEF s
<1> HIDE DEF r
<1>5. \A i \in 1..(L + 1) : FlattenSeq(r(i)) \in Text
  BY <1>4, FlattenFacts
<1>6. \A i \in 1..(L + 1) : LinesFrom(m, i) \in Text
  BY <1>1, <1>2, <1>5, TextFacts
<1>7. LinesFrom(m, L + 1) = <<Eol>>
  <2>1. L + 1 \in 1..(L + 1) /\ L - (L + 1) + 1 = 0
    BY <1>1
  <2>2. r(L + 1) = <<>>
    BY <1>4, <2>1
  <2>3. FlattenSeq(r(L + 1)) = <<>>
    BY <1>4, <2>1, <2>2, FlattenFacts
  <2> QED
    BY <1>1, <1>2, <2>3, ConcatEmptySeq DEF Text
<1>8. ASSUME NEW i \in 1..L PROVE LinesFrom(m, i) = line(i) \o LinesFrom(m, i + 1)
  <2> DEFINE k == i + 1
  <2>1. /\ i \in 1..(L + 1) /\ k \in 1..(L + 1) /\ L - i + 1 = (L - k + 1) + 1
        /\ 1 \in 1..(L - i + 1) /\ i + 1 - 1 = i
    BY <1>1
  <2> HIDE DEF k
  <2>2. \A j \in 1..(L - k + 1) : j + 1 \in 1..(L - i + 1) /\ i + (j + 1) - 1 = k + j - 1
    BY <1>1, <2>1 DEF k
  <2>3. /\ r(i) \in Seq(Text) /\ r(k) \in Seq(Text)
        /\ Len(r(i)) = L - i + 1 /\ Len(r(k)) = L - k + 1
        /\ (\A j \in 1..(L - i + 1) : r(i)[j] = line(i + j - 1))
        /\ (\A j \in 1..(L - k + 1) : r(k)[j] = line(k + j - 1))
    BY <1>4, <2>1
  <2>4. Len(r(i)) = Len(r(k)) + 1 /\ \A j \in 1..Len(r(k)) : r(i)[j + 1] = r(k)[j]
    <3>1. Len(r(i)) = Len(r(k)) + 1
      BY <2>1, <2>3
    <3>2. ASSUME NEW j \in 1..(L - k + 1) PROVE r(i)[j + 1] = r(k)[j]
      BY <2>2, <2>3
    <3> QED
      BY <2>3, <3>1, <3>2
  <2>5. FlattenSeq(r(i)) = r(i)[1] \o FlattenSeq(r(k))
    BY <2>3, <2>4, FlattenCons
  <2>6. r(i)[1] = line(i)
    BY <2>1, <2>3
  <2>7. (line(i) \o FlattenSeq(r(k))) \o <<Eol>> = line(i) \o (FlattenSeq(r(k)) \o <<Eol>>)
    BY <1>1, <1>5, <2>1, Assemble
  <2> QED
    BY <1>2, <2>5, <2>6, <2>7 DEF k
<1> QED
  BY <1>3, <1>6, <1>7, <1>8 DEF L, line

FromLeft(a, b, c, d) == ((a \o b) \o c) \o d
FromRight(a, b, c, d) == a \o (b \o (c \o d))

LEMMA AssembleFour ==
    ASSUME NEW a \in Text, NEW b \in Text, NEW c \in Text, NEW d \in Text
    PROVE  FromLeft(a, b, c, d) = FromRight(a, b, c, d)
<1>1. PICK x \in Text : x = a \o b
  BY TextFacts
<1>2. PICK y \in Text : y = c \o d
  BY TextFacts
<1>3. (x \o c) \o d = x \o (c \o d)
  BY Assemble, Zenon
<1>4. (a \o b) \o y = a \o (b \o y)
  BY Assemble, ZenonT(60)
<1> QED
  BY <1>1, <1>2, <1>3, <1>4, Zenon DEF FromLeft, FromRight

(* the tokens of the head of a message and of a header line, one behind the other *)
LEMMA TopCut ==
    ASSUME NEW m \in Messages
    PROVE  Top(m) = <<m.method>> \o (m.url \o (<<Version>> \o LinesFrom(m, 1)))
<1>1. PICK a \in Text : a = <<m.method>>
  BY HeaderText, TextFacts
<1>2. PICK u \in Text : u = m.url
  BY HeaderText
<1>3. PICK y \in Text : y = <<Version>> \o (Lines(m) \o <<Eol>>)
  BY HeaderText, RenderText, TextFacts
<1>4. (a \o u) \o y = a \o (u \o y)
  BY Assemble, Zenon
<1>5. PICK v \in Text : v = <<Version>>
  BY HeaderText, TextFacts
<1>6. PICK l \in Text : l = Lines(m)
  BY RenderText
<1>7. PICK e \in Text : e = <<Eol>>
  BY HeaderText, TextFacts
<1>8. PICK x \in Text : x = a \o u
  BY TextFacts
<1>9. /\ Top(m) = FromLeft(x, v, l, e)
      /\ y = v \o (l \o e) /\ LinesFrom(m, 1) = l \o e
  BY <1>1, <1>2, <1>3, <1>5, <1>6, <1>7, <1>8, LinesFromFacts DEF Top, RequestLine, FromLeft
<1>10. FromLeft(x, v, l, e) = FromRight(x, v, l, e)
  BY AssembleFour
<1>11. FromRight(x, v, l, e) = (a \o u) \o y
  BY <1>8, <1>9, Zenon DEF FromRight
<1>12. Top(m) = a \o (u \o y)
  BY <1>4, <1>9, <1>10, <1>11, Zenon
<1> QED
  BY <1>1, <1>2, <1>5, <1>9, <1>12, Zenon

LEMMA LineCut ==
    ASSUME NEW h \in HeaderLines, h.colon, NEW next \in Text
    PROVE  /\ Line(h) \o next = h.name \o (<<":">> \o (h.value \o (<<Eol>> \o next)))
           /\ h.value \o (<<Eol>> \o next) \in Text /\ <<Eol>> \o next \in Text
           /\ <<":">> \o (h.value \o (<<Eol>> \o next)) \in Text
<1>1. PICK n \in Text : n = h.name
  BY DEF HeaderLines
<1>2. PICK w \in Text : w = <<":">>
  BY HttpAssumption, TextFacts
<1>3. PICK v \in Text : v = h.value
  BY DEF HeaderLines
<1>4. PICK e \in Text : e = <<Eol>>
  BY HttpAssumption, TextFacts
<1>5. PICK x \in Text : x = w \o v
  BY TextFacts
<1>6. PICK y \in Text : y = e \o next
  BY TextFacts
<1>7. v \o y \in Text /\ w \o (v \o y) \in Text
  BY TextFacts
<1>8. Line(h) \o next = FromLeft(n, x, e, next)
  <2>1. Line(h) = (h.name \o (<<":">> \o h.value)) \o <<Eol>>
    BY DEF Line
  <2>2. Line(h) = (n \o (w \o v)) \o e
    BY <1>1, <1>2, <1>3, <1>4, <2>1, Zenon
  <2> QED
    BY <1>5, <2>2, Zenon DEF FromLeft
<1>9. FromLeft(n, x, e, next) = FromRight(n, x, e, next)
  BY AssembleFour
<1>10. FromRight(n, x, e, next) = n \o ((w \o v) \o y)
  BY <1>5, <1>6, Zenon DEF FromRight
<1>11. (w \o v) \o y = w \o (v \o y)
  BY Assemble, SMTT(60)
<1>12. Line(h) \o next = n \o (w \o (v \o y))
  BY <1>8, <1>9, <1>10, <1>11, Zenon
<1> QED
  BY <1>1, <1>2, <1>3, <1>4, <1>6, <1>7, <1>12, Zenon

-----------------------------------------------------------------------------
(* The text of a value, token by token *)

LEMMA InTextFacts ==
    ASSUME NEW v \in Text
    PROVE  /\ ~InText(v, 0)
           /\ \A n \in Nat : n < Len(v) =>
                 (InText(v, n + 1) <=> v[n + 1] # Eol /\ (InText(v, n) \/ v[n + 1] # Space))
<1>1. ~InText(v, 0)
  BY DEF InText
<1>2. ASSUME NEW n \in Nat, InText(v, n + 1)
      PROVE  v[n + 1] # Eol /\ (InText(v, n) \/ v[n + 1] # Space)
  <2>1. PICK j \in 1..(n + 1) : v[j] \notin {Space, Eol} /\ \A k \in j..(n + 1) : v[k] # Eol
    BY <1>2 DEF InText
  <2>2. n + 1 \in j..(n + 1)
    BY <2>1
  <2>3. CASE j = n + 1
    BY <2>1, <2>2, <2>3
  <2>4. CASE j # n + 1
    <3>1. j \in 1..n /\ \A k \in j..n : k \in j..(n + 1)
      BY <2>1, <2>4
    <3> QED
      BY <2>1, <2>2, <3>1 DEF InText
  <2> QED
    BY <2>3, <2>4
<1>3. ASSUME NEW n \in Nat, v[n + 1] # Eol, v[n + 1] # Space PROVE InText(v, n + 1)
  <2>1. n + 1 \in 1..(n + 1) /\ \A k \in (n + 1)..(n + 1) : k = n + 1
    OBVIOUS
  <2> QED
    BY <1>3, <2>1 DEF InText
<1>4. ASSUME NEW n \in Nat, v[n + 1] # Eol, InText(v, n) PROVE InText(v, n + 1)
  <2>1. PICK j \in 1..n : v[j] \notin {Space, Eol} /\ \A k \in j..n : v[k] # Eol
    BY <1>4 DEF InText
  <2>2. j \in 1..(n + 1) /\ \A k \in j..(n + 1) : k \in j..n \/ k = n + 1
    BY <2>1
  <2> QED
    BY <1>4, <2>1, <2>2 DEF InText
<1> QED
  BY <1>1, <1>2, <1>3, <1>4

TextStep(v, text, k) == IF InText(v, k) THEN Append(text, v[k]) ELSE text
IsText(t, v, m) == t = [k \in 0..m |-> IF k = 0 THEN <<>> ELSE TextStep(v, t[k - 1], k)]

LEMMA TextExists ==
    ASSUME NEW v \in Text
    PROVE  \E t : IsText(t, v, Len(v))
<1> DEFINE S == {m \in Nat : \E t : IsText(t, v, m)}
<1>1. 0 \in S
  <2> DEFINE t == [k \in 0..0 |-> <<>>]
  <2>1. \A k \in 0..0 : k = 0
    OBVIOUS
  <2>2. IsText(t, v, 0)
    BY <2>1 DEF IsText
  <2> QED
    BY <2>2
<1>2. ASSUME NEW m \in Nat, m \in S PROVE m + 1 \in S
  <2>1. PICK t : IsText(t, v, m)
    BY <1>2
  <2> DEFINE last == TextStep(v, t[m], m + 1)
  <2> DEFINE u == [k \in 0..(m + 1) |-> IF k = m + 1 THEN last ELSE t[k]]
  <2> HIDE DEF last
  <2>2. ASSUME NEW k \in 0..(m + 1)
        PROVE  u[k] = IF k = 0 THEN <<>> ELSE TextStep(v, u[k - 1], k)
    <3>1. CASE k = m + 1
      <4>1. k # 0 /\ k - 1 = m /\ m \in 0..(m + 1) /\ m # m + 1
        BY <3>1
      <4>2. u[k] = last /\ u[k - 1] = t[m]
        BY <3>1, <4>1
      <4> QED
        BY <3>1, <4>1, <4>2 DEF last
    <3>2. CASE k # m + 1
      <4>1. k \in 0..m /\ u[k] = t[k]
        BY <3>2
      <4>2. t[k] = IF k = 0 THEN <<>> ELSE TextStep(v, t[k - 1], k)
        BY <2>1, <4>1 DEF IsText
      <4>3. k # 0 => k - 1 \in 0..(m + 1) /\ k - 1 # m + 1
        BY <4>1
      <4>4. k # 0 => u[k - 1] = t[k - 1]
        BY <4>3
      <4> QED
        BY <4>1, <4>2, <4>4
    <3> QED
      BY <3>1, <3>2
  <2>3. IsText(u, v, m + 1)
    <3>1. u = [k \in 0..(m + 1) |-> u[k]]
      OBVIOUS
    <3> HIDE DEF u
    <3> QED
      BY <2>2, <3>1 DEF IsText
  <2> QED
    BY <2>3
<1>3. Len(v) \in S
  <2>1. Len(v) \in Nat
    BY TextFacts
  <2> HIDE DEF S
  <2> QED
    BY <1>1, <1>2, <2>1, Induction
<1> QED
  BY <1>3

LEMMA TextInFacts ==
    ASSUME NEW v \in Text
    PROVE  /\ TextIn(v, 0) = <<>>
           /\ \A n \in 0..Len(v) : TextIn(v, n) \in Text
           /\ \A n \in Nat : n < Len(v) =>
                 TextIn(v, n + 1) = IF InText(v, n + 1) THEN TextIn(v, n) \o <<v[n + 1]>>
                                    ELSE TextIn(v, n)
<1> DEFINE t == CHOOSE s : IsText(s, v, Len(v))
<1>1. \A n : TextIn(v, n) = t[n]
  BY Zenon DEF TextIn, IsText, TextStep
<1>2. IsText(t, v, Len(v))
  BY TextExists
<1> HIDE DEF t
<1>3. /\ Len(v) \in Nat /\ (\A i \in 1..Len(v) : v[i] \in Bytes)
      /\ \A k \in 0..Len(v) : t[k] = IF k = 0 THEN <<>> ELSE TextStep(v, t[k - 1], k)
  BY <1>2, TextFacts DEF IsText
<1>4. t[0] = <<>>
  BY <1>3
<1>5. ASSUME NEW n \in Nat, n < Len(v)
      PROVE  t[n + 1] = TextStep(v, t[n], n + 1) /\ v[n + 1] \in Bytes
  <2>1. n + 1 \in 0..Len(v) /\ n + 1 # 0 /\ (n + 1) - 1 = n /\ n + 1 \in 1..Len(v)
    BY <1>3, <1>5
  <2> QED
    BY <1>3, <2>1
<1> DEFINE S == {n \in Nat : n <= Len(v) => t[n] \in Text}
<1>6. \A n \in Nat : n \in S
  <2>1. 0 \in S
    BY <1>4, TextFacts
  <2>2. ASSUME NEW n \in Nat, n \in S PROVE n + 1 \in S
    <3> SUFFICES ASSUME n + 1 <= Len(v) PROVE t[n + 1] \in Text
      OBVIOUS
    <3>1. n < Len(v) /\ t[n] \in Text
      BY <1>3, <2>2
    <3>2. Append(t[n], v[n + 1]) \in Text
      BY <1>5, <3>1, AppendProperties DEF Text
    <3> QED
      BY <1>5, <3>1, <3>2 DEF TextStep
  <2> HIDE DEF S
  <2> QED
    BY <2>1, <2>2, Induction
<1>7. \A n \in 0..Len(v) : t[n] \in Text
  BY <1>3, <1>6
<1>8. ASSUME NEW n \in Nat, n < Len(v)
      PROVE  t[n + 1] = IF InText(v, n + 1) THEN t[n] \o <<v[n + 1]>> ELSE t[n]
  <2>1. t[n] \in Text
    BY <1>3, <1>7, <1>8
  <2>2. Append(t[n], v[n + 1]) = t[n] \o <<v[n + 1]>>
    BY <1>5, <1>8, <2>1, AppendIsConcat DEF Text
  <2> QED
    BY <1>5, <1>8, <2>2 DEF TextStep
<1> QED
  BY <1>1, <1>4, <1>7, <1>8

(* The headers of a request, the last one first. *)
LEMMA TakenFacts ==
    ASSUME NEW m \in Messages
    PROVE  LET L == Len(m.headers)
           IN  /\ Taken(m, 0) = <<>>
               /\ \A i \in 1..L : Taken(m, i) = <<Sent(m.headers[i])>> \o Taken(m, i - 1)
               /\ Taken(m, L) = Reverse([i \in DOMAIN m.headers |-> Sent(m.headers[i])])
<1> DEFINE L == Len(m.headers)
<1> DEFINE X == {Sent(m.headers[i]) : i \in 1..L}
<1> DEFINE x(i) == Sent(m.headers[i])
<1>1. L \in Nat /\ DOMAIN m.headers = 1..L /\ \A i \in 1..L : x(i) \in X
  BY HeaderText
<1>2. Taken(m, L) = Reverse([i \in DOMAIN m.headers |-> Sent(m.headers[i])])
  BY <1>1 DEF Taken
<1> HIDE DEF L, X, x
<1>3. ASSUME NEW i \in 0..L
      PROVE  /\ Taken(m, i) \in Seq(X) /\ Len(Taken(m, i)) = i
             /\ \A k \in 1..i : Taken(m, i)[k] = x((i - k) + 1)
  <2> DEFINE s == [j \in 1..i |-> Sent(m.headers[j])]
  <2>1. i \in Nat /\ (\A j \in 1..i : s[j] = x(j) /\ s[j] \in X) /\ s \in [1..i -> X]
    BY <1>1 DEF x
  <2> HIDE DEF s
  <2>2. s \in Seq(X) /\ Len(s) = i
    BY <2>1, SeqDef
  <2> DEFINE t == Reverse(s)
  <2>3. t = [k \in 1..i |-> s[(i - k) + 1]] /\ \A k \in 1..i : (i - k) + 1 \in 1..i
    BY <2>1, <2>2 DEF Reverse
  <2>4. t \in [1..i -> X] /\ \A k \in 1..i : t[k] = x((i - k) + 1)
    <3> HIDE DEF t
    <3> QED
      BY <2>1, <2>3
  <2> HIDE DEF t
  <2>5. t \in Seq(X) /\ Len(t) = i
    BY <2>1, <2>4, SeqDef
  <2>6. Taken(m, i) = t
    BY DEF Taken, t, s
  <2> QED
    BY <2>4, <2>5, <2>6
<1>4. Taken(m, 0) = <<>>
  <2>1. 0 \in 0..L
    BY <1>1
  <2> QED
    BY <1>3, <2>1
<1>5. ASSUME NEW i \in 1..L PROVE Taken(m, i) = <<x(i)>> \o Taken(m, i - 1)
  <2> DEFINE a == Taken(m, i)
  <2> DEFINE b == Taken(m, i - 1)
  <2> DEFINE c == <<x(i)>>
  <2>1. i \in 0..L /\ i - 1 \in 0..L /\ i \in 1..L
    BY <1>1
  <2>2. /\ a \in Seq(X) /\ Len(a) = i /\ (\A k \in 1..i : a[k] = x((i - k) + 1))
        /\ b \in Seq(X) /\ Len(b) = i - 1 /\ (\A k \in 1..(i - 1) : b[k] = x(((i - 1) - k) + 1))
    BY <1>3, <2>1
  <2>3. c \in Seq(X) /\ Len(c) = 1 /\ c[1] = x(i)
    BY <1>1
  <2> HIDE DEF a, b, c
  <2>4. /\ c \o b \in Seq(X) /\ Len(c \o b) = i
        /\ \A k \in 1..i : (c \o b)[k] = IF k <= 1 THEN c[k] ELSE b[k - 1]
    <3>1. 1 + (i - 1) = i
      BY <2>1
    <3> QED
      <4>1. /\ c \o b \in Seq(X) /\ Len(c \o b) = Len(c) + Len(b)
            /\ \A k \in 1..(Len(c) + Len(b)) :
                  (c \o b)[k] = IF k <= Len(c) THEN c[k] ELSE b[k - Len(c)]
        BY <2>2, <2>3, ConcatProperties
      <4> QED
        BY <2>2, <2>3, <3>1, <4>1
  <2>5. ASSUME NEW k \in 1..i PROVE a[k] = (c \o b)[k]
    <3>1. CASE k = 1
      <4>1. (i - k) + 1 = i
        BY <3>1
      <4> QED
        BY <2>2, <2>3, <2>4, <3>1, <4>1
    <3>2. CASE k # 1
      <4>1. k - 1 \in 1..(i - 1) /\ ((i - 1) - (k - 1)) + 1 = (i - k) + 1 /\ ~(k <= 1)
        BY <2>1, <3>2
      <4> QED
        BY <2>2, <2>4, <4>1
    <3> QED
      BY <3>1, <3>2
  <2>6. a = c \o b
    BY <2>2, <2>4, <2>5, SeqEqual
  <2> QED
    BY <2>6 DEF a, b, c
<1> QED
  BY <1>2, <1>4, <1>5 DEF L, x

-----------------------------------------------------------------------------
(* What a byte adds to the url and the headers *)

UrlContent(f, data) == Content(f, Null, <<>>, Null, data, "Url", FALSE)

HeaderContent(f, m, i, data, last) ==
    Content(f, <<m.url>>, Taken(m, i - 1),
            <<[name |-> IF last THEN <<m.headers[i].name>> ELSE Null, value |-> Null]>>,
            data, "HeaderName", last)

Gathers(g, m, rest) == ~g.parser.error /\ ~g.ctx.done /\ Gathered(CallBack(g), m, rest)
Whole(g, m) == g.request.url = <<m.url>> /\ g.request.headers = Taken(m, Len(m.headers))

LEMMA GatheredCases ==
    ASSUME NEW f \in Frames, NEW m \in Messages, NEW rest, Gathered(f, m, rest)
    PROVE  LET L == Len(m.headers)
               s == f.parser.state
           IN  /\ s \in {"start", "spaces", "url", "line"} =>
                     UrlGathered(f, m, rest) /\ UrlContent(f, f.ctx.data)
               /\ s = "name" => \E i \in 1..L :
                     /\ HeaderContent(f, m, i, f.ctx.data, FALSE)
                     /\ NameGathered(f, m.headers[i], LinesFrom(m, i + 1), rest)
               /\ s \in {"valueStart", "value", "lws"} => \E i \in 1..L :
                     /\ HeaderContent(f, m, i, f.ctx.data, f.ctx.lastWasValue)
                     /\ ValueGathered(f, m.headers[i], LinesFrom(m, i + 1), rest)
<1>1. f.ctx.lastWasValue \in BOOLEAN /\ DOMAIN m.headers = 1..Len(m.headers)
  BY HeaderText DEF Frames, Contexts
<1>2. CASE UrlGathered(f, m, rest)
  <2>1. f.parser.state \in {"start", "spaces", "url", "line"}
    BY <1>2 DEF UrlGathered
  <2>2. UrlContent(f, f.ctx.data)
    BY <1>1, <1>2 DEF UrlGathered, UrlContent, Content
  <2> QED
    BY <1>2, <2>1, <2>2
<1>3. ASSUME NEW i \in 1..Len(m.headers), HeaderGathered(f, m, i, rest)
      PROVE  \/ /\ f.parser.state = "name" /\ HeaderContent(f, m, i, f.ctx.data, FALSE)
                /\ NameGathered(f, m.headers[i], LinesFrom(m, i + 1), rest)
             \/ /\ f.parser.state \in {"valueStart", "value", "lws"}
                /\ HeaderContent(f, m, i, f.ctx.data, f.ctx.lastWasValue)
                /\ ValueGathered(f, m.headers[i], LinesFrom(m, i + 1), rest)
  <2>1. HeaderContent(f, m, i, f.ctx.data, f.ctx.lastWasValue)
    BY <1>3 DEF HeaderGathered, HeaderContent, Content
  <2>2. CASE NameGathered(f, m.headers[i], LinesFrom(m, i + 1), rest)
    <3>1. f.parser.state = "name" /\ f.ctx.lastWasValue = FALSE
      BY <1>1, <2>2 DEF NameGathered
    <3> QED
      BY <2>1, <2>2, <3>1
  <2>3. CASE ValueGathered(f, m.headers[i], LinesFrom(m, i + 1), rest)
    <3>1. f.parser.state \in {"valueStart", "value", "lws"}
      BY <2>3 DEF ValueGathered
    <3> QED
      BY <2>1, <2>3, <3>1
  <2> QED
    BY <1>3, <2>2, <2>3 DEF HeaderGathered
<1>4. UrlGathered(f, m, rest) \/ \E i \in 1..Len(m.headers) : HeaderGathered(f, m, i, rest)
  BY <1>1 DEF Gathered
<1>5. CASE \E i \in 1..Len(m.headers) : HeaderGathered(f, m, i, rest)
  <2>1. PICK i \in 1..Len(m.headers) : HeaderGathered(f, m, i, rest)
    BY <1>5
  <2> QED
    BY <1>3, <2>1
<1> QED
  BY <1>2, <1>4, <1>5

LEMMA HeaderGathers ==
    ASSUME NEW f, NEW m \in Messages, NEW i \in 1..Len(m.headers), NEW rest, NEW last,
           HeaderContent(f, m, i, f.ctx.data, last),
           \/ NameGathered(f, m.headers[i], LinesFrom(m, i + 1), rest)
           \/ ValueGathered(f, m.headers[i], LinesFrom(m, i + 1), rest)
    PROVE  Gathered(f, m, rest)
<1>1. DOMAIN m.headers = 1..Len(m.headers)
  BY HeaderText
<1>2. HeaderGathered(f, m, i, rest)
  BY DEF HeaderGathered, HeaderContent, Content
<1> QED
  BY <1>1, <1>2 DEF Gathered

LEMMA WellFormedFacts ==
    ASSUME NEW m \in Messages, WellFormed(m), NEW i \in 1..Len(m.headers)
    PROVE  LET h == m.headers[i]
           IN  /\ h \in HeaderLines /\ h.name \in Text /\ h.value \in Text /\ h.colon
               /\ 1 \in 1..Len(h.name)
               /\ \A k \in 1..Len(h.name) : h.name[k] \in NameChars
               /\ \A k \in 1..Len(h.value) : h.value[k] = Eol =>
                     k < Len(h.value) /\ h.value[k + 1] = Space
<1> DEFINE h == m.headers[i]
<1>1. /\ DOMAIN m.headers = 1..Len(m.headers) /\ h \in HeaderLines
      /\ h.name \in Text /\ h.value \in Text
  BY HeaderText
<1>2. /\ h.colon /\ h.name # <<>> /\ ToSet(h.name) \subseteq NameChars
      /\ \A k \in DOMAIN h.value : h.value[k] = Eol => k < Len(h.value) /\ h.value[k + 1] = Space
  BY <1>1 DEF WellFormed
<1> HIDE DEF h
<1>3. /\ DOMAIN h.name = 1..Len(h.name) /\ DOMAIN h.value = 1..Len(h.value)
      /\ Len(h.name) \in Nat /\ Len(h.name) # 0
  BY <1>1, <1>2 DEF Text
<1>4. \A k \in 1..Len(h.name) : h.name[k] \in NameChars
  BY <1>2, <1>3 DEF ToSet
<1> QED
  BY <1>1, <1>2, <1>3, <1>4 DEF h

LEMMA NameCharFacts == \A c \in NameChars : c # Eol /\ c # Space /\ c # ":"
  BY DEF NameChars, Eol, Space

(* the first token of a text *)
LEMMA UntilFirst ==
    ASSUME NEW s \in Text, 1 \in 1..Len(s)
    PROVE  Until(s, 1) = <<s[1]>> /\ s[1] \in Bytes
<1>1. Len(s) \in Nat /\ 0 < Len(s) /\ 0 + 1 = 1 /\ 0 \in Nat
  BY TextFacts
<1>2. Until(s, 0) = <<>>
  BY SubSeqEmpty DEF Until, Text
<1>3. s[1] \in Bytes /\ Until(s, 1) = Until(s, 0) \o <<s[1]>>
  BY <1>1, UntilAfter
<1>4. <<>> \o <<s[1]>> = <<s[1]>>
  OBVIOUS
<1> QED
  BY <1>2, <1>3, <1>4

LEMMA FlagKeeps ==
    ASSUME NEW f \in Frames, NEW b \in BOOLEAN, NEW m \in Optional(Bytes)
    PROVE  /\ LET g == [f EXCEPT !.parser.conn = b]
              IN  g \in Frames /\ SameState(f, g) /\ g.parser.error = f.parser.error
           /\ LET g == [f EXCEPT !.parser.close = b]
              IN  g \in Frames /\ SameState(f, g) /\ g.parser.error = f.parser.error
           /\ LET g == [f EXCEPT !.parser.method = m, !.parser.close = b]
              IN  g \in Frames /\ SameState(f, g) /\ g.parser.error = f.parser.error
<1>1. /\ [f EXCEPT !.parser.conn = b].parser.error = f.parser.error
      /\ [f EXCEPT !.parser.close = b].parser.error = f.parser.error
      /\ [f EXCEPT !.parser.method = m, !.parser.close = b].parser.error = f.parser.error
  BY DEF Frames, Parsers
<1> QED
  BY <1>1, FlagEffect

(* The first byte of a text, where the parser sets a mark. *)
LEMMA BeginContent ==
    ASSUME NEW f \in Frames, Fits(f), Collecting(f), NEW e \in Frames, SameBeside(f, e),
           e.parser.run = Null, e.parser.state \in {"url", "name", "value"},
           e.parser.state = "value" => f.ctx.header # Null, NEW c \in Bytes
    PROVE  LET g == Mark(e, c)
               k == CallBack(g)
               h == f.ctx.header[1]
               s == e.parser.state
           IN  /\ g.parser.error = e.parser.error /\ g.ctx.done = f.ctx.done
               /\ k.parser.state = s
               /\ s = "url" =>
                     Content(k, f.request.url, f.request.headers, f.ctx.header,
                             Longer(f.ctx.data, <<c>>), "Url", f.ctx.lastWasValue)
               /\ s = "name" /\ f.ctx.header = Null =>
                     Content(k, f.ctx.data, f.request.headers, <<NewHeader>>, << <<c>> >>,
                             "HeaderName", FALSE)
               /\ s = "name" /\ f.ctx.header # Null /\ f.ctx.lastWasValue =>
                     Content(k, f.request.url,
                             <<[h EXCEPT !.value = f.ctx.data]>> \o f.request.headers,
                             <<NewHeader>>, << <<c>> >>, "HeaderName", FALSE)
               /\ s = "value" /\ f.ctx.lastWasValue => WithData(f, k, Longer(f.ctx.data, <<c>>))
               /\ s = "value" /\ ~f.ctx.lastWasValue =>
                     Content(k, f.request.url, f.request.headers,
                             <<[h EXCEPT !.name = f.ctx.data]>>, << <<c>> >>, f.ctx.state, TRUE)
<1> DEFINE g == Mark(e, c)
<1> DEFINE k == CallBack(g)
<1> DEFINE h == f.ctx.header[1]
<1> DEFINE s == e.parser.state
<1>1. /\ g \in Frames /\ SameBeside(e, g) /\ g.parser.state = s
      /\ g.parser.error = e.parser.error
  BY MarkEffect
<1>2. g.parser.run = << <<c>> >>
  BY DEF Mark, Frames, Parsers
<1> HIDE DEF g
<1>3. /\ g.parser.run # Null /\ g.parser.run[1] = <<c>> /\ g.ctx = f.ctx /\ g.request = f.request
      /\ Fits(g) /\ Collecting(g)
  BY <1>1, <1>2 DEF Null, SameBeside, Fits, Collecting, Balanced
<1>4. k.parser.state = s
  BY <1>1, <1>3, CallBackCalm
<1> HIDE DEF k, h, s
<1>5. CASE s = "url"
  <2>1. Content(k, f.request.url, f.request.headers, f.ctx.header,
                Longer(f.ctx.data, <<c>>), "Url", f.ctx.lastWasValue)
    BY <1>1, <1>3, <1>5, CallBackContent DEF k
  <2> QED
    BY <1>1, <1>3, <1>4, <1>5, <2>1 DEF g, k, h, s
<1>6. CASE s = "name"
  <2>1. /\ f.ctx.header = Null =>
              Content(k, f.ctx.data, f.request.headers, <<NewHeader>>, << <<c>> >>,
                      "HeaderName", FALSE)
        /\ f.ctx.header # Null /\ f.ctx.lastWasValue =>
              Content(k, f.request.url,
                      <<[h EXCEPT !.value = f.ctx.data]>> \o f.request.headers,
                      <<NewHeader>>, << <<c>> >>, "HeaderName", FALSE)
    BY <1>1, <1>3, <1>6, CallBackContent DEF k, h
  <2> QED
    BY <1>1, <1>3, <1>4, <1>6, <2>1 DEF g, k, h, s
<1>7. CASE s = "value"
  <2>1. /\ f.ctx.lastWasValue => WithData(g, k, Longer(f.ctx.data, <<c>>))
        /\ ~f.ctx.lastWasValue =>
              Content(k, f.request.url, f.request.headers,
                      <<[h EXCEPT !.name = f.ctx.data]>>, << <<c>> >>, f.ctx.state, TRUE)
    BY <1>1, <1>3, <1>7, CallBackContent DEF k, h, s
  <2> QED
    BY <1>1, <1>3, <1>4, <1>7, <2>1 DEF g, k, h, s, WithData
<1> QED
  BY <1>5, <1>6, <1>7 DEF s

-----------------------------------------------------------------------------
(* A byte behind a line *)

(* The url is taken, or header i - 1, and a line ended. *)
LineContent(f, m, i) ==
    /\ i = 1 => UrlContent(f, <<m.url>>)
    /\ i # 1 => HeaderContent(f, m, i - 1, Sent(m.headers[i - 1]).value, TRUE)

LEMMA PushSent ==
    ASSUME NEW f, NEW m \in Messages, NEW i \in 1..Len(m.headers),
           HeaderContent(f, m, i, Sent(m.headers[i]).value, TRUE)
    PROVE  /\ f.request.url = <<m.url>> /\ f.ctx.header # Null /\ f.ctx.lastWasValue = TRUE
           /\ <<[f.ctx.header[1] EXCEPT !.value = f.ctx.data]>> \o f.request.headers = Taken(m, i)
<1> DEFINE p == [name |-> <<m.headers[i].name>>, value |-> Null]
<1> DEFINE s == Sent(m.headers[i])
<1>1. /\ f.request.url = <<m.url>> /\ f.ctx.header = <<p>> /\ f.ctx.lastWasValue = TRUE
      /\ f.ctx.data = s.value /\ f.request.headers = Taken(m, i - 1)
  BY DEF HeaderContent, Content
<1>2. [p EXCEPT !.value = s.value] = s
  BY DEF Sent
<1>3. Taken(m, i) = <<s>> \o Taken(m, i - 1)
  BY TakenFacts
<1> HIDE DEF p, s
<1>4. f.ctx.header # Null /\ f.ctx.header[1] = p
  BY <1>1 DEF Null
<1> QED
  BY <1>1, <1>2, <1>3, <1>4

LEMMA HeadersDoneWhole ==
    ASSUME NEW f \in Frames, NEW m \in Messages, LineContent(f, m, Len(m.headers) + 1)
    PROVE  LET g == HeadersDone(f)
           IN  g.parser.error = f.parser.error /\ g.ctx.done = TRUE /\ Whole(g, m)
<1> DEFINE h == OnHeadersComplete(f)
<1> DEFINE n == NewMessage(h)
<1> DEFINE b == f.parser.method = <<"CONNECT">>
<1> DEFINE g == [n EXCEPT !.parser.stopped = b]
<1> DEFINE L == Len(m.headers)
<1>1. /\ h \in Frames /\ h.parser = f.parser /\ h.ctx.done = TRUE
      /\ f.ctx.header = Null =>
            h.request.url = f.ctx.data /\ h.request.headers = f.request.headers
      /\ f.ctx.header # Null =>
            /\ h.request.url = f.request.url
            /\ h.request.headers = <<[f.ctx.header[1] EXCEPT !.value = f.ctx.data]>>
                                       \o f.request.headers
  BY OnHeadersCompleteEffect, OnHeadersCompleteContent
<1> HIDE DEF h
<1>2. n \in Frames /\ SameBeside(h, n) /\ n.parser.error = h.parser.error
  BY <1>1, GotoEffect DEF NewMessage, States
<1> HIDE DEF n
<1>3. SameBeside(n, g) /\ g.parser.error = n.parser.error
  <2>1. b \in BOOLEAN /\ <<>> \in Optional(Bytes)
    BY OptionalFacts DEF Null
  <2> HIDE DEF b
  <2>2. SameState(n, g)
    BY <1>2, <2>1, FlagEffect
  <2>3. g.parser.error = n.parser.error
    BY <1>2 DEF Frames, Parsers
  <2> QED
    BY <2>2, <2>3 DEF SameState
<1>4. HeadersDone(f) = g
  BY DEF HeadersDone, h, n
<1> HIDE DEF g, b
<1>5. g.ctx = h.ctx /\ g.request = h.request /\ g.parser.error = f.parser.error
  BY <1>1, <1>2, <1>3 DEF SameBeside
<1>6. L \in Nat
  BY HeaderText
<1>7. CASE L = 0
  <2>1. UrlContent(f, <<m.url>>)
    BY <1>7 DEF LineContent
  <2>2. h.request.url = <<m.url>> /\ h.request.headers = <<>>
    BY <1>1, <2>1 DEF UrlContent, Content
  <2> QED
    BY <1>1, <1>4, <1>5, <1>7, <2>2, TakenFacts DEF Whole
<1>8. CASE L # 0
  <2>1. L \in 1..L /\ L + 1 # 1 /\ (L + 1) - 1 = L
    BY <1>6, <1>8
  <2>2. HeaderContent(f, m, L, Sent(m.headers[L]).value, TRUE)
    BY <2>1 DEF LineContent
  <2>3. h.request.url = <<m.url>> /\ h.request.headers = Taken(m, L)
    BY <1>1, <2>1, <2>2, PushSent
  <2> QED
    BY <1>1, <1>4, <1>5, <2>3 DEF Whole
<1> QED
  BY <1>7, <1>8

LEMMA AtLineGathers ==
    ASSUME NEW f, Working(f), ~f.parser.error, f.parser.state \in {"line", "lws"},
           NEW m \in Messages, WellFormed(m), NEW i \in 1..(Len(m.headers) + 1),
           LineContent(f, m, i), NEW c, c = LinesFrom(m, i)[1]
    PROVE  LET g == AtLine(f, c)
           IN  /\ c \in Bytes /\ c # Space /\ ~g.parser.error
               /\ i = Len(m.headers) + 1 => g.ctx.done = TRUE /\ Whole(g, m)
               /\ i # Len(m.headers) + 1 => Gathers(g, m, After(LinesFrom(m, i), 1))
<1> DEFINE L == Len(m.headers)
<1>1. /\ f \in Frames /\ Fits(f) /\ Collecting(f) /\ ~f.ctx.done /\ f.parser.run = Null
      /\ L \in Nat
  BY HeaderText DEF Working, Ready, Running
<1>2. CASE i = L + 1
  <2>1. c = Eol
    BY <1>2, LinesFromFacts
  <2>2. AtLine(f, c) = HeadersDone(f)
    BY <2>1 DEF AtLine, Eol, NameChars
  <2>3. Eol \in Bytes /\ Eol # Space
    BY HttpAssumption DEF Eol, Space
  <2> QED
    BY <1>1, <1>2, <2>1, <2>2, <2>3, HeadersDoneWhole
<1>3. CASE i # L + 1
  <2> DEFINE h == m.headers[i]
  <2> DEFINE name == h.name
  <2> DEFINE next == LinesFrom(m, i + 1)
  <2> DEFINE more == <<":">> \o (h.value \o (<<Eol>> \o next))
  <2> DEFINE rest == After(LinesFrom(m, i), 1)
  <2>1. i \in 1..L /\ i + 1 \in 1..(L + 1)
    BY <1>1, <1>3
  <2>2. /\ h \in HeaderLines /\ name \in Text /\ h.colon /\ 1 \in 1..Len(name)
        /\ name[1] \in NameChars
    BY <2>1, WellFormedFacts
  <2>3. next \in Text /\ LinesFrom(m, i) = Line(h) \o next
    BY <2>1, LinesFromFacts
  <2>4. Line(h) \o next = name \o more /\ more \in Text
    BY <2>2, <2>3, LineCut
  <2>5. c = name[1] /\ c \in Bytes /\ rest = After(name, 1) \o more
    <3> HIDE DEF more, name, next, h
    <3>1. /\ Len(name) \in Nat /\ 0 \in 0..Len(name) /\ 0 # Len(name) /\ 0 + 1 = 1
          /\ After(name, 0) = name
      BY <2>2, UntilAfter, TextFacts
    <3>2. LET s == After(name, 0) \o more
          IN  s[1] = name[1] /\ name[1] \in Bytes /\ After(s, 1) = After(name, 1) \o more
      <4>1. LET s == After(name, 0) \o more
            IN  /\ s[1] = name[0 + 1] /\ name[0 + 1] \in Bytes
                /\ After(s, 1) = After(name, 0 + 1) \o more
        BY <2>2, <2>4, <3>1, ComesNext
      <4> QED
        BY <3>1, <4>1
    <3> QED
      BY <2>3, <2>4, <3>1, <3>2
  <2>6. c \in NameChars /\ c # Eol /\ c # Space
    BY <2>2, <2>5, NameCharFacts
  <2> HIDE DEF rest, next, more, name, h
  <2> DEFINE b == c = "Connection"
  <2> DEFINE e0 == [f EXCEPT !.parser.conn = b]
  <2> DEFINE e == Goto(e0, "name")
  <2> DEFINE g == Mark(e, c)
  <2> DEFINE k == CallBack(g)
  <2>7. AtLine(f, c) = g
    BY <2>6 DEF AtLine
  <2>8. e0 \in Frames /\ SameState(f, e0) /\ e0.parser.error = f.parser.error
    <3>1. b \in BOOLEAN /\ <<>> \in Optional(Bytes)
      BY OptionalFacts DEF Null
    <3> HIDE DEF b
    <3> QED
      BY <1>1, <3>1, FlagKeeps, Zenon
  <2> HIDE DEF e0
  <2>9. /\ e \in Frames /\ SameBeside(f, e) /\ e.parser.run = Null /\ e.parser.state = "name"
        /\ e.parser.error = f.parser.error
    BY <1>1, <2>8, GotoEffect DEF States, SameState, SameBeside
  <2> HIDE DEF e
  <2>10. /\ g.parser.error = e.parser.error /\ g.ctx.done = f.ctx.done
         /\ k.parser.state = "name"
         /\ f.ctx.header = Null =>
               Content(k, f.ctx.data, f.request.headers, <<NewHeader>>, << <<c>> >>,
                       "HeaderName", FALSE)
         /\ f.ctx.header # Null /\ f.ctx.lastWasValue =>
               Content(k, f.request.url,
                       <<[f.ctx.header[1] EXCEPT !.value = f.ctx.data]>> \o f.request.headers,
                       <<NewHeader>>, << <<c>> >>, "HeaderName", FALSE)
    BY <1>1, <2>5, <2>9, BeginContent
  <2>11. HeaderContent(k, m, i, <<Until(name, 1)>>, FALSE)
    <3>1. Until(name, 1) = <<c>>
      BY <2>2, <2>5, UntilFirst
    <3>2. Content(k, <<m.url>>, Taken(m, i - 1), <<NewHeader>>, << <<c>> >>, "HeaderName", FALSE)
      <4>1. CASE i = 1
        <5>1. UrlContent(f, <<m.url>>)
          BY <4>1 DEF LineContent
        <5>2. f.ctx.header = Null /\ f.ctx.data = <<m.url>> /\ f.request.headers = <<>>
          BY <5>1 DEF UrlContent, Content
        <5>3. Taken(m, i - 1) = <<>>
          <6>1. i - 1 = 0
            BY <4>1
          <6> QED
            BY <6>1, TakenFacts
        <5> HIDE DEF k
        <5> QED
          BY <2>10, <5>2, <5>3
      <4>2. CASE i # 1
        <5>1. i - 1 \in 1..L
          BY <2>1, <4>2
        <5>2. HeaderContent(f, m, i - 1, Sent(m.headers[i - 1]).value, TRUE)
          BY <4>2 DEF LineContent
        <5>3. /\ f.request.url = <<m.url>> /\ f.ctx.header # Null /\ f.ctx.lastWasValue = TRUE
              /\ <<[f.ctx.header[1] EXCEPT !.value = f.ctx.data]>> \o f.request.headers
                    = Taken(m, i - 1)
          BY <5>1, <5>2, PushSent
        <5> HIDE DEF k
        <5> QED
          BY <2>10, <5>3
      <4> QED
        BY <4>1, <4>2
    <3> QED
      BY <3>1, <3>2 DEF HeaderContent, NewHeader
  <2> HIDE DEF k, g
  <2>12. NameGathered(k, h, next, rest)
    <3>1. k.ctx.data = <<Until(name, 1)>> /\ ~k.ctx.lastWasValue
      BY <2>11 DEF HeaderContent, Content
    <3> QED
      BY <2>2, <2>5, <2>10, <3>1 DEF NameGathered, name, more
  <2>13. Gathered(k, m, rest)
    <3>1. k.ctx.data = <<Until(name, 1)>>
      BY <2>11 DEF HeaderContent, Content
    <3> QED
      BY <2>1, <2>11, <2>12, <3>1, HeaderGathers DEF h, next
  <2> QED
    BY <1>1, <1>3, <2>5, <2>6, <2>7, <2>9, <2>10, <2>13 DEF Gathers, k, rest
<1> QED
  BY <1>2, <1>3

-----------------------------------------------------------------------------
(* A byte of the url and of a name *)

(* what a byte makes of a frame that has what the bytes before it say *)
Advances(g, m, rest) ==
    /\ ~g.parser.error
    /\ (g.ctx.done /\ Whole(g, m)) \/ Gathers(g, m, After(rest, 1))

(* a frame in the midst of m, and the bytes to come *)
Midst(f, m, rest) ==
    /\ Working(f) /\ ~f.parser.error
    /\ m \in Messages /\ EndsOnce(m) /\ WellFormed(m)
    /\ Gathered(CallBack(f), m, rest)

LEMMA CallBackNone ==
    ASSUME NEW f, f.parser.run = Null
    PROVE  CallBack(f) = f
  BY DEF CallBack

LEMMA MidstFacts ==
    ASSUME NEW f, NEW m, NEW rest, Midst(f, m, rest)
    PROVE  LET s == f.parser.state
               k == CallBack(f)
           IN  /\ f \in Frames /\ Fits(f) /\ Collecting(f) /\ ~f.ctx.done /\ ~f.parser.error
               /\ k \in Frames /\ k.parser.state = s
               /\ s \in {"url", "name", "value"} => f.parser.run # Null
               /\ s \notin {"url", "name", "value"} => f.parser.run = Null /\ k = f
<1>1. /\ f \in Frames /\ Fits(f) /\ Collecting(f) /\ ~f.ctx.done /\ ~f.parser.error /\ Running(f)
  BY DEF Midst, Working, Ready
<1>2. CASE f.parser.run = Null
  BY <1>1, <1>2, CallBackNone DEF Running
<1>3. CASE f.parser.run # Null
  BY <1>1, <1>3, CallBackEffect DEF Running
<1> QED
  BY <1>2, <1>3

LEMMA UrlGathers ==
    ASSUME NEW f, NEW m, NEW rest, NEW data, UrlContent(f, data),
           \/ f.parser.state = "start" /\ data = Null /\ rest = Top(m)
           \/ f.parser.state = "spaces" /\ data = Null
                 /\ rest = m.url \o (<<Version>> \o LinesFrom(m, 1))
           \/ f.parser.state = "url" /\ \E n \in 1..Len(m.url) :
                 /\ data = <<Until(m.url, n)>>
                 /\ rest = After(m.url, n) \o (<<Version>> \o LinesFrom(m, 1))
           \/ f.parser.state = "line" /\ data = <<m.url>> /\ rest = LinesFrom(m, 1)
    PROVE  Gathered(f, m, rest)
<1>1. UrlGathered(f, m, rest)
  BY DEF UrlGathered, UrlContent, Content
<1> QED
  BY <1>1 DEF Gathered

LEMMA UrlText ==
    ASSUME NEW m \in Messages, EndsOnce(m), WellFormed(m)
    PROVE  /\ m.url \in Text /\ 1 \in 1..Len(m.url) /\ m.method # Eol
           /\ \A i \in 1..Len(m.url) : m.url[i] # Version
           /\ <<Version>> \o LinesFrom(m, 1) \in Text /\ LinesFrom(m, 1) \in Text
<1>1. m.url \in Text /\ Version \in Bytes /\ Len(m.headers) \in Nat
  BY HeaderText
<1>2. m.method # Eol /\ m.url # <<>> /\ \A i \in DOMAIN m.url : m.url[i] # Version
  BY DEF EndsOnce, WellFormed
<1>3. /\ DOMAIN m.url = 1..Len(m.url) /\ Len(m.url) \in Nat /\ Len(m.url) # 0
  BY <1>1, <1>2 DEF Text
<1>4. LinesFrom(m, 1) \in Text
  BY <1>1, LinesFromFacts
<1>5. <<Version>> \o LinesFrom(m, 1) \in Text
  BY <1>1, <1>4, TextFacts
<1> QED
  BY <1>1, <1>2, <1>3, <1>4, <1>5

LEMMA StartGathers ==
    ASSUME NEW f, NEW m, NEW rest, Midst(f, m, rest), f.parser.state = "start",
           NEW c, c = rest[1]
    PROVE  Advances(AtStart(f, c), m, rest)
<1> DEFINE more == m.url \o (<<Version>> \o LinesFrom(m, 1))
<1> DEFINE n == Goto(f, "spaces")
<1> DEFINE p == <<c>>
<1> DEFINE g == [n EXCEPT !.parser.method = p, !.parser.close = FALSE]
<1>1. m \in Messages /\ EndsOnce(m) /\ WellFormed(m) /\ m.method \in Methods /\ m.method \in Bytes
  BY HeaderText DEF Midst, WellFormed
<1>2. /\ f \in Frames /\ f.parser.run = Null /\ ~f.ctx.done /\ ~f.parser.error
      /\ Gathered(f, m, rest)
  BY MidstFacts DEF Midst
<1>3. UrlGathered(f, m, rest) /\ UrlContent(f, f.ctx.data)
  BY <1>1, <1>2, GatheredCases
<1>4. f.ctx.data = Null /\ rest = Top(m)
  BY <1>3 DEF UrlGathered
<1>5. more \in Text
  BY <1>1, UrlText, TextFacts
<1>6. c = m.method /\ After(rest, 1) = more
  <2>1. rest = <<m.method>> \o more
    BY <1>1, <1>4, TopCut
  <2> HIDE DEF more
  <2> QED
    BY <1>1, <1>5, <2>1, OneByte
<1>7. c # Eol /\ c \in Methods /\ c \in Bytes
  BY <1>1, <1>6, UrlText
<1>8. AtStart(f, c) = g
  BY <1>7 DEF AtStart
<1>9. n \in Frames /\ SameBeside(f, n) /\ n.parser.state = "spaces" /\ n.parser.run = Null
      /\ n.parser.error = f.parser.error
  BY <1>2, GotoEffect DEF States
<1> HIDE DEF n
<1>10. SameState(n, g) /\ g.parser.error = n.parser.error
  <2>1. p \in Optional(Bytes)
    BY <1>7, OptionalFacts
  <2> HIDE DEF p
  <2> QED
    BY <1>9, <2>1, FlagKeeps, Zenon
<1> HIDE DEF g, more
<1>11. /\ g.parser.state = "spaces" /\ g.parser.run = Null /\ ~g.parser.error /\ ~g.ctx.done
       /\ g.ctx = f.ctx /\ g.request = f.request
  BY <1>2, <1>9, <1>10 DEF SameState, SameBeside
<1>12. UrlContent(g, Null)
  BY <1>3, <1>4, <1>11 DEF UrlContent, Content
<1>13. Gathered(g, m, After(rest, 1))
  BY <1>6, <1>11, <1>12, UrlGathers DEF more
<1>14. CallBack(g) = g
  BY <1>11, CallBackNone
<1> QED
  BY <1>8, <1>11, <1>13, <1>14 DEF Advances, Gathers

LEMMA SpacesGathers ==
    ASSUME NEW f, NEW m, NEW rest, Midst(f, m, rest), f.parser.state = "spaces",
           NEW c, c = rest[1]
    PROVE  Advances(Mark(Goto(f, "url"), c), m, rest)
<1> DEFINE more == <<Version>> \o LinesFrom(m, 1)
<1> DEFINE url == m.url
<1> DEFINE e == Goto(f, "url")
<1> DEFINE g == Mark(e, c)
<1> DEFINE k == CallBack(g)
<1>1. m \in Messages /\ EndsOnce(m) /\ WellFormed(m)
  BY DEF Midst
<1>2. /\ f \in Frames /\ Fits(f) /\ Collecting(f) /\ f.parser.run = Null /\ ~f.ctx.done
      /\ ~f.parser.error /\ Gathered(f, m, rest)
  BY MidstFacts DEF Midst
<1>3. UrlGathered(f, m, rest) /\ UrlContent(f, f.ctx.data)
  BY <1>1, <1>2, GatheredCases
<1>4. f.ctx.data = Null /\ rest = url \o more
  BY <1>3 DEF UrlGathered
<1>5. url \in Text /\ 1 \in 1..Len(url) /\ more \in Text
  BY <1>1, UrlText
<1> HIDE DEF more, url
<1>6. c = url[1] /\ c \in Bytes /\ After(rest, 1) = After(url, 1) \o more
  <2>1. Len(url) \in Nat /\ 0 \in 0..Len(url) /\ 0 # Len(url) /\ 0 + 1 = 1 /\ After(url, 0) = url
    BY <1>5, UntilAfter, TextFacts
  <2>2. LET s == After(url, 0) \o more
        IN  /\ s[1] = url[0 + 1] /\ url[0 + 1] \in Bytes
            /\ After(s, 1) = After(url, 0 + 1) \o more
    BY <1>5, <2>1, ComesNext
  <2> QED
    BY <1>4, <2>1, <2>2
<1>7. /\ e \in Frames /\ SameBeside(f, e) /\ e.parser.run = Null /\ e.parser.state = "url"
      /\ e.parser.error = f.parser.error
  BY <1>2, GotoEffect DEF States
<1> HIDE DEF e
<1>8. /\ g.parser.error = e.parser.error /\ g.ctx.done = f.ctx.done /\ k.parser.state = "url"
      /\ Content(k, f.request.url, f.request.headers, f.ctx.header,
                 Longer(f.ctx.data, <<c>>), "Url", f.ctx.lastWasValue)
  BY <1>2, <1>6, <1>7, BeginContent
<1>9. <<Until(url, 1)>> = Longer(f.ctx.data, <<c>>)
  BY <1>4, <1>5, <1>6, UntilFirst DEF Longer
<1> HIDE DEF k, g
<1>10. UrlContent(k, <<Until(url, 1)>>)
  BY <1>3, <1>8, <1>9 DEF UrlContent, Content
<1>11. Gathered(k, m, After(rest, 1))
  BY <1>5, <1>6, <1>8, <1>10, UrlGathers DEF more, url
<1> QED
  BY <1>2, <1>7, <1>8, <1>11 DEF Advances, Gathers, g, k, e

(* the end of a text, as far as the parser goes *)
LEMMA EndCalm ==
    ASSUME NEW f \in Frames, Fits(f), NEW e \in Frames, SameBeside(f, e),
           e.parser.error = f.parser.error, NEW state \in States
    PROVE  LET g == Goto(CallBack(e), state)
           IN  /\ g.parser.error = f.parser.error /\ g.ctx.done = f.ctx.done
               /\ g.parser.state = state
<1> DEFINE k == CallBack(e)
<1>1. Fits(e) /\ e.ctx = f.ctx
  BY DEF SameBeside, Fits
<1>2. /\ k \in Frames /\ k.ctx.done = e.ctx.done /\ k.parser.error = e.parser.error
  <2>1. k.parser.error = e.parser.error
    BY <1>1, CallBackCalm
  <2>2. CASE e.parser.run = Null
    BY <2>1, <2>2, CallBackNone
  <2>3. CASE e.parser.run # Null
    BY <1>1, <2>1, <2>3, CallBackEffect
  <2> QED
    BY <2>2, <2>3
<1> HIDE DEF k
<1>3. LET g == Goto(k, state)
      IN  SameBeside(k, g) /\ g.parser.state = state /\ g.parser.error = k.parser.error
  BY <1>2, GotoEffect
<1> QED
  BY <1>1, <1>2, <1>3 DEF SameBeside, k

LEMMA InUrlGathers ==
    ASSUME NEW f, NEW m, NEW rest, Midst(f, m, rest), f.parser.state = "url",
           NEW c, c = rest[1]
    PROVE  Advances(InUrl(f, c), m, rest)
<1> DEFINE more == <<Version>> \o LinesFrom(m, 1)
<1> DEFINE url == m.url
<1> DEFINE k == CallBack(f)
<1>1. m \in Messages /\ EndsOnce(m) /\ WellFormed(m) /\ Working(f)
  BY DEF Midst
<1>2. /\ f \in Frames /\ Fits(f) /\ ~f.ctx.done /\ ~f.parser.error
      /\ k \in Frames /\ k.parser.state = "url" /\ Gathered(k, m, rest)
  BY MidstFacts DEF Midst
<1> HIDE DEF k
<1>3. UrlGathered(k, m, rest) /\ UrlContent(k, k.ctx.data)
  BY <1>1, <1>2, GatheredCases
<1>4. PICK n \in 1..Len(url) : k.ctx.data = <<Until(url, n)>> /\ rest = After(url, n) \o more
  BY <1>2, <1>3 DEF UrlGathered
<1>5. /\ url \in Text /\ more \in Text /\ Len(url) \in Nat
      /\ \A i \in 1..Len(url) : url[i] # Version
  BY <1>1, UrlText, TextFacts
<1>6. /\ n = Len(url) => rest = more
      /\ n # Len(url) => /\ n < Len(url) /\ c = url[n + 1] /\ c \in Bytes
                         /\ After(rest, 1) = After(url, n + 1) \o more
  <2> HIDE DEF url, more
  <2>1. n \in 0..Len(url)
    BY <1>5
  <2> QED
    BY <1>4, <1>5, <2>1, ComesNext
<1>7. CASE n = Len(url)
  <2> DEFINE e == Goto(f, "urlEnd")
  <2> DEFINE g == Goto(CallBack(e), "line")
  <2>1. c = Version /\ After(rest, 1) = LinesFrom(m, 1)
    <3>1. rest = <<Version>> \o LinesFrom(m, 1)
      BY <1>6, <1>7
    <3>2. Version \in Bytes /\ LinesFrom(m, 1) \in Text
      BY <1>1, UrlText, HeaderText
    <3> HIDE DEF url, more
    <3> QED
      BY <3>1, <3>2, OneByte
  <2>2. InUrl(f, c) = g
    BY <2>1 DEF InUrl
  <2>3. Same(k, g) /\ g.parser.run = Null
    BY <1>1, EndContent DEF States, k
  <2>4. e \in Frames /\ SameBeside(f, e) /\ e.parser.error = f.parser.error
    BY <1>2, GotoEffect
  <2> HIDE DEF e
  <2>5. g.parser.error = f.parser.error /\ g.ctx.done = f.ctx.done /\ g.parser.state = "line"
    BY <1>2, <2>4, EndCalm DEF States
  <2> HIDE DEF g
  <2>6. k.ctx.data = <<url>>
    BY <1>4, <1>5, <1>7, UntilAfter
  <2>7. UrlContent(g, <<url>>)
    BY <1>3, <2>3, <2>6 DEF UrlContent, Content, Same, WithData
  <2>8. Gathered(g, m, After(rest, 1))
    BY <2>1, <2>5, <2>7, UrlGathers
  <2>9. CallBack(g) = g
    BY <2>3, CallBackNone
  <2> QED
    BY <1>2, <2>2, <2>5, <2>8, <2>9 DEF Advances, Gathers
<1>8. CASE n # Len(url)
  <2> DEFINE g == Mark(f, c)
  <2> DEFINE l == CallBack(g)
  <2>1. n + 1 \in 1..Len(url) /\ n \in Nat /\ n < Len(url)
    BY <1>5, <1>6, <1>8
  <2>2. c = url[n + 1] /\ c \in Bytes /\ c # Version
    BY <1>5, <1>6, <1>8, <2>1
  <2>3. InUrl(f, c) = g
    BY <2>2 DEF InUrl
  <2>4. l.parser.state = "url" /\ WithData(k, l, <<k.ctx.data[1] \o <<c>> >>)
    BY <1>1, <2>2, MarkContent DEF k
  <2>5. g.parser.error = f.parser.error /\ g.ctx.done = f.ctx.done
    BY <1>2, <2>2, MarkEffect DEF SameBeside
  <2> HIDE DEF g, l
  <2>6. <<k.ctx.data[1] \o <<c>> >> = <<Until(url, n + 1)>>
    <3>1. Until(url, n + 1) = Until(url, n) \o <<c>>
      BY <1>5, <2>1, <2>2, UntilAfter, SMTT(60)
    <3> QED
      BY <1>4, <3>1
  <2>7. UrlContent(l, <<Until(url, n + 1)>>)
    BY <1>3, <2>4, <2>6 DEF UrlContent, Content, WithData
  <2>8. Gathered(l, m, After(rest, 1))
    BY <1>6, <1>8, <2>1, <2>4, <2>7, UrlGathers
  <2> QED
    BY <1>2, <2>3, <2>5, <2>8 DEF Advances, Gathers, g, l
<1> QED
  BY <1>7, <1>8

LEMMA LineGathers ==
    ASSUME NEW f, NEW m, NEW rest, Midst(f, m, rest), f.parser.state = "line",
           NEW c, c = rest[1]
    PROVE  Advances(AtLine(f, c), m, rest)
<1>1. m \in Messages /\ EndsOnce(m) /\ WellFormed(m) /\ Working(f) /\ ~f.parser.error
  BY DEF Midst
<1>2. f \in Frames /\ Gathered(f, m, rest)
  BY MidstFacts DEF Midst
<1>3. UrlGathered(f, m, rest) /\ UrlContent(f, f.ctx.data)
  BY <1>1, <1>2, GatheredCases
<1>4. f.ctx.data = <<m.url>> /\ rest = LinesFrom(m, 1)
  BY <1>3 DEF UrlGathered
<1>5. LineContent(f, m, 1)
  BY <1>3, <1>4 DEF LineContent
<1>6. 1 \in 1..(Len(m.headers) + 1)
  BY <1>1, HeaderText
<1> QED
  BY <1>1, <1>4, <1>5, <1>6, AtLineGathers DEF Advances

LEMMA InNameGathers ==
    ASSUME NEW f, NEW m, NEW rest, Midst(f, m, rest), f.parser.state = "name",
           NEW c, c = rest[1]
    PROVE  Advances(InName(f, c), m, rest)
<1> DEFINE k == CallBack(f)
<1>1. m \in Messages /\ EndsOnce(m) /\ WellFormed(m) /\ Working(f)
  BY DEF Midst
<1>2. /\ f \in Frames /\ Fits(f) /\ ~f.ctx.done /\ ~f.parser.error
      /\ k \in Frames /\ k.parser.state = "name" /\ Gathered(k, m, rest)
  BY MidstFacts DEF Midst
<1> HIDE DEF k
<1>3. PICK i \in 1..Len(m.headers) :
          /\ HeaderContent(k, m, i, k.ctx.data, FALSE)
          /\ NameGathered(k, m.headers[i], LinesFrom(m, i + 1), rest)
  BY <1>1, <1>2, GatheredCases, Zenon
<1> DEFINE h == m.headers[i]
<1> DEFINE name == h.name
<1> DEFINE next == LinesFrom(m, i + 1)
<1> DEFINE behind == h.value \o (<<Eol>> \o next)
<1> DEFINE more == <<":">> \o behind
<1> HIDE DEF h, name, next, behind, more
<1>4. PICK n \in 1..Len(name) : k.ctx.data = <<Until(name, n)>> /\ rest = After(name, n) \o more
  BY <1>3, Zenon DEF NameGathered, h, name, next, behind, more
<1>5. /\ h \in HeaderLines /\ name \in Text /\ h.value \in Text /\ h.colon
      /\ (\A j \in 1..Len(name) : name[j] \in NameChars) /\ Len(name) \in Nat
  BY <1>1, WellFormedFacts, TextFacts DEF h, name
<1>6. next \in Text
  <2>1. i + 1 \in 1..(Len(m.headers) + 1)
    BY <1>1, HeaderText
  <2> QED
    BY <1>1, <2>1, LinesFromFacts DEF next
<1>7. behind \in Text /\ more \in Text
  BY <1>5, <1>6, LineCut DEF behind, more
<1>8. /\ n = Len(name) => rest = more
      /\ n # Len(name) => /\ n < Len(name) /\ c = name[n + 1] /\ c \in Bytes
                          /\ After(rest, 1) = After(name, n + 1) \o more
  <2> DEFINE s == After(name, n) \o more
  <2>1. n \in 0..Len(name)
    BY <1>5
  <2>2. rest = s
    BY <1>4
  <2>3. /\ n = Len(name) => s = more
        /\ n # Len(name) => /\ n < Len(name) /\ s[1] = name[n + 1] /\ name[n + 1] \in Bytes
                            /\ After(s, 1) = After(name, n + 1) \o more
    BY <1>5, <1>7, <2>1, ComesNext
  <2> HIDE DEF s
  <2> QED
    BY <2>2, <2>3
<1>9. CASE n = Len(name)
  <2> DEFINE e == Goto(f, "nameEnd")
  <2> DEFINE g == Goto(CallBack(e), "valueStart")
  <2>1. c = ":" /\ After(rest, 1) = behind
    <3>1. ":" \in Bytes
      BY HttpAssumption
    <3> QED
      BY <1>7, <1>8, <1>9, <3>1, OneByte, ZenonT(60) DEF more
  <2>2. InName(f, c) = g
    BY <2>1 DEF InName, Eol
  <2>3. Same(k, g) /\ g.parser.run = Null
    BY <1>1, EndContent DEF States, k
  <2>4. e \in Frames /\ SameBeside(f, e) /\ e.parser.error = f.parser.error
    BY <1>2, GotoEffect
  <2> HIDE DEF e
  <2>5. /\ g.parser.error = f.parser.error /\ g.ctx.done = f.ctx.done
        /\ g.parser.state = "valueStart"
    BY <1>2, <2>4, EndCalm DEF States
  <2> HIDE DEF g
  <2>6. k.ctx.data = <<name>>
    BY <1>4, <1>5, <1>9, UntilAfter
  <2>7. HeaderContent(g, m, i, <<name>>, FALSE)
    BY <1>3, <2>3, <2>6 DEF HeaderContent, Content, Same, WithData
  <2>8. g.ctx.data = <<name>> /\ g.ctx.lastWasValue = FALSE
    BY <2>7 DEF HeaderContent, Content
  <2>9. ValueGathered(g, h, next, behind)
    <3> DEFINE v == h.value
    <3>1. v \in Text
      BY <1>5
    <3>2. behind = v \o (<<Eol>> \o next) /\ name = h.name
      BY DEF behind, name
    <3> HIDE DEF v
    <3>3. 0 \in 0..Len(v)
      BY <3>1, TextFacts
    <3>4. ~InText(v, 0) /\ TextIn(v, 0) = <<>> /\ After(v, 0) = v
      BY <3>1, InTextFacts, TextInFacts, UntilAfter
    <3>5. /\ g.parser.state = IF InText(v, 0) THEN "value"
                              ELSE IF 0 > 0 /\ v[0] = Eol THEN "lws" ELSE "valueStart"
          /\ behind = After(v, 0) \o (<<Eol>> \o next)
      BY <2>5, <3>2, <3>4
    <3> QED
      BY <2>5, <2>8, <3>2, <3>3, <3>4, <3>5 DEF ValueGathered, v
  <2>10. Gathered(g, m, After(rest, 1))
    BY <1>1, <2>1, <2>7, <2>8, <2>9, HeaderGathers DEF h, next
  <2>11. CallBack(g) = g
    BY <2>3, CallBackNone
  <2> QED
    BY <1>2, <2>2, <2>5, <2>10, <2>11 DEF Advances, Gathers
<1>10. CASE n # Len(name)
  <2> DEFINE g == Mark(f, c)
  <2> DEFINE l == CallBack(g)
  <2>1. n + 1 \in 1..Len(name) /\ n \in Nat /\ n < Len(name)
    BY <1>5, <1>8, <1>10
  <2>2. c = name[n + 1] /\ c \in Bytes /\ c # ":" /\ c # Eol
    BY <1>5, <1>8, <1>10, <2>1, NameCharFacts
  <2>3. InName(f, c) = g
    BY <2>2 DEF InName
  <2>4. l.parser.state = "name" /\ WithData(k, l, <<k.ctx.data[1] \o <<c>> >>)
    BY <1>1, <2>2, MarkContent DEF k
  <2>5. g.parser.error = f.parser.error /\ g.ctx.done = f.ctx.done
    BY <1>2, <2>2, MarkEffect DEF SameBeside
  <2> HIDE DEF g, l
  <2>6. <<k.ctx.data[1] \o <<c>> >> = <<Until(name, n + 1)>>
    <3>1. Until(name, n + 1) = Until(name, n) \o <<c>>
      BY <1>5, <2>1, <2>2, UntilAfter
    <3>2. k.ctx.data = <<Until(name, n)>>
      BY <1>4
    <3>3. k.ctx.data[1] = Until(name, n)
      BY <3>2
    <3>4. k.ctx.data[1] \o <<c>> = Until(name, n + 1)
      BY <3>1, <3>3
    <3> QED
      BY <3>4
  <2>7. HeaderContent(l, m, i, <<Until(name, n + 1)>>, FALSE)
    BY <1>3, <2>4, <2>6 DEF HeaderContent, Content, WithData
  <2>8. l.ctx.data = <<Until(name, n + 1)>> /\ l.ctx.lastWasValue = FALSE
    BY <2>7 DEF HeaderContent, Content
  <2>9. NameGathered(l, h, next, After(rest, 1))
    BY <1>8, <1>10, <2>1, <2>4, <2>8 DEF NameGathered, name, more, behind
  <2>10. Gathered(l, m, After(rest, 1))
    BY <1>1, <2>7, <2>8, <2>9, HeaderGathers DEF h, next
  <2> QED
    BY <1>2, <2>3, <2>5, <2>10 DEF Advances, Gathers, g, l
<1> QED
  BY <1>9, <1>10

-----------------------------------------------------------------------------
(* A byte of a value *)

(* behind the first n tokens of the value of header i *)
ValueState(v, n) ==
    IF InText(v, n) THEN "value" ELSE IF n > 0 /\ v[n] = Eol THEN "lws" ELSE "valueStart"

ValueContent(f, m, i, n, last) ==
    LET h == m.headers[i]
    IN  /\ HeaderContent(f, m, i, IF last THEN <<TextIn(h.value, n)>> ELSE <<h.name>>, last)
        /\ ~last => TextIn(h.value, n) = <<>>

Behind(m, i) == <<Eol>> \o LinesFrom(m, i + 1)

InTheValue(f, m, i, n, last, rest) ==
    LET v == m.headers[i].value
    IN  /\ f.parser.state = ValueState(v, n) /\ ValueContent(f, m, i, n, last)
        /\ ~last => f.parser.state = "valueStart"
        /\ rest = After(v, n) \o Behind(m, i)

LEMMA ValuePlace ==
    ASSUME NEW f \in Frames, NEW m \in Messages, NEW rest, Gathered(f, m, rest),
           f.parser.state \in {"valueStart", "value", "lws"}
    PROVE  \E i \in 1..Len(m.headers) :
              \/ \E n \in 0..Len(m.headers[i].value), last \in BOOLEAN :
                    InTheValue(f, m, i, n, last, rest)
              \/ /\ f.parser.state = "lws" /\ rest = LinesFrom(m, i + 1)
                 /\ HeaderContent(f, m, i, Sent(m.headers[i]).value, TRUE)
<1>1. PICK i \in 1..Len(m.headers) :
          /\ HeaderContent(f, m, i, f.ctx.data, f.ctx.lastWasValue)
          /\ ValueGathered(f, m.headers[i], LinesFrom(m, i + 1), rest)
  BY GatheredCases
<1> DEFINE h == m.headers[i]
<1> DEFINE last == f.ctx.lastWasValue
<1>2. last \in BOOLEAN
  BY DEF Frames, Contexts
<1>3. CASE f.parser.state = "lws" /\ rest = LinesFrom(m, i + 1) /\ last
           /\ f.ctx.data = Sent(h).value
  <2>1. last = TRUE
    BY <1>2, <1>3
  <2>2. HeaderContent(f, m, i, Sent(m.headers[i]).value, TRUE)
    BY <1>1, <1>3, <2>1
  <2> QED
    BY <1>3, <2>2
<1>4. ASSUME NEW n \in 0..Len(h.value),
             f.parser.state = ValueState(h.value, n),
             rest = After(h.value, n) \o Behind(m, i),
             last => f.ctx.data = <<TextIn(h.value, n)>>,
             ~last => f.parser.state = "valueStart" /\ TextIn(h.value, n) = <<>>
                      /\ f.ctx.data = <<h.name>>
      PROVE  InTheValue(f, m, i, n, last, rest)
  <2>1. ValueContent(f, m, i, n, last)
    BY <1>1, <1>2, <1>4 DEF ValueContent
  <2> QED
    BY <1>4, <2>1 DEF InTheValue
<1>5. CASE \E n \in 0..Len(h.value) :
              /\ f.parser.state = ValueState(h.value, n)
              /\ rest = After(h.value, n) \o Behind(m, i)
              /\ last => f.ctx.data = <<TextIn(h.value, n)>>
              /\ ~last => f.parser.state = "valueStart" /\ TextIn(h.value, n) = <<>>
                          /\ f.ctx.data = <<h.name>>
  <2>1. PICK n \in 0..Len(h.value) : InTheValue(f, m, i, n, last, rest)
    BY <1>4, <1>5
  <2> QED
    BY <1>2, <2>1
<1> QED
  BY <1>1, <1>3, <1>5 DEF ValueGathered, ValueState, Behind

LEMMA ValueGathers ==
    ASSUME NEW f, NEW m \in Messages, NEW i \in 1..Len(m.headers),
           NEW n \in 0..Len(m.headers[i].value), NEW last \in BOOLEAN, NEW rest,
           InTheValue(f, m, i, n, last, rest)
    PROVE  Gathered(f, m, rest)
<1> DEFINE h == m.headers[i]
<1> DEFINE data == IF last THEN <<TextIn(h.value, n)>> ELSE <<h.name>>
<1>1. /\ f.parser.state = ValueState(h.value, n) /\ HeaderContent(f, m, i, data, last)
      /\ ~last => f.parser.state = "valueStart" /\ TextIn(h.value, n) = <<>>
      /\ rest = After(h.value, n) \o Behind(m, i)
  BY DEF InTheValue, ValueContent
<1>2. f.ctx.data = data /\ f.ctx.lastWasValue = last
  BY <1>1 DEF HeaderContent, Content
<1>3. ValueGathered(f, h, LinesFrom(m, i + 1), rest)
  BY <1>1, <1>2 DEF ValueGathered, ValueState, Behind
<1> QED
  BY <1>1, <1>2, <1>3, HeaderGathers

(* The next byte in the value of header i, or behind it. *)
NextInValue(m, i, n, rest, c) ==
    LET v == m.headers[i].value
    IN  /\ c \in Bytes /\ TextIn(v, n) \in Text
        /\ n = Len(v) => c = Eol /\ After(rest, 1) = LinesFrom(m, i + 1)
        /\ n # Len(v) =>
              /\ n + 1 \in 0..Len(v) /\ c = v[n + 1]
              /\ After(rest, 1) = After(v, n + 1) \o Behind(m, i)
              /\ InText(v, n + 1) <=> c # Eol /\ (InText(v, n) \/ c # Space)
              /\ TextIn(v, n + 1) = IF InText(v, n + 1) THEN TextIn(v, n) \o <<c>>
                                    ELSE TextIn(v, n)
              /\ ValueState(v, n + 1) = IF InText(v, n + 1) THEN "value"
                                        ELSE IF c = Eol THEN "lws" ELSE "valueStart"
        /\ n > 0 /\ v[n] = Eol => n # Len(v) /\ c = Space

LEMMA ValueByte ==
    ASSUME NEW m \in Messages, WellFormed(m), NEW i \in 1..Len(m.headers),
           NEW n \in 0..Len(m.headers[i].value), NEW rest,
           rest = After(m.headers[i].value, n) \o Behind(m, i), NEW c, c = rest[1]
    PROVE  NextInValue(m, i, n, rest, c)
<1> DEFINE v == m.headers[i].value
<1> DEFINE next == LinesFrom(m, i + 1)
<1> DEFINE more == Behind(m, i)
<1>1. v \in Text /\ \A k \in 1..Len(v) : v[k] = Eol => k < Len(v) /\ v[k + 1] = Space
  BY WellFormedFacts
<1>2. next \in Text
  <2>1. i + 1 \in 1..(Len(m.headers) + 1)
    BY HeaderText
  <2> QED
    BY <2>1, LinesFromFacts
<1>3. Eol \in Bytes /\ more = <<Eol>> \o next
  BY HttpAssumption DEF Behind
<1>4. n \in 0..Len(v) /\ rest = After(v, n) \o more
  OBVIOUS
<1> HIDE DEF v, next, more
<1>5. more \in Text /\ more[1] = Eol /\ After(more, 1) = next
  BY <1>2, <1>3, OneByte
<1>6. Len(v) \in Nat /\ TextIn(v, n) \in Text
  BY <1>1, <1>4, TextFacts, TextInFacts
<1> DEFINE s == After(v, n) \o more
<1>7. /\ n = Len(v) => s = more
      /\ n # Len(v) => /\ n < Len(v) /\ v[n + 1] \in Bytes /\ s[1] = v[n + 1]
                       /\ After(s, 1) = After(v, n + 1) \o more
  BY <1>1, <1>4, <1>5, ComesNext
<1>8. s = rest
  BY <1>4
<1> HIDE DEF s
<1>9. CASE n = Len(v)
  <2>1. c = Eol /\ c \in Bytes /\ After(rest, 1) = next
    BY <1>3, <1>5, <1>7, <1>8, <1>9
  <2>2. ~(n > 0 /\ v[n] = Eol)
    BY <1>1, <1>6, <1>9
  <2> QED
    BY <1>6, <1>9, <2>1, <2>2 DEF v, next, NextInValue
<1>10. CASE n # Len(v)
  <2>1. /\ n < Len(v) /\ n \in Nat /\ n + 1 \in 0..Len(v) /\ c = v[n + 1] /\ c \in Bytes
        /\ After(rest, 1) = After(v, n + 1) \o more
    <3>1. n < Len(v) /\ n \in Nat /\ n + 1 \in 0..Len(v)
      BY <1>4, <1>6, <1>7, <1>10
    <3>2. c = v[n + 1] /\ c \in Bytes /\ After(rest, 1) = After(v, n + 1) \o more
      BY <1>7, <1>8, <1>10
    <3> QED
      BY <3>1, <3>2
  <2>2. InText(v, n + 1) <=> c # Eol /\ (InText(v, n) \/ c # Space)
    BY <1>1, <2>1, InTextFacts
  <2>3. TextIn(v, n + 1) = IF InText(v, n + 1) THEN TextIn(v, n) \o <<c>> ELSE TextIn(v, n)
    BY <1>1, <2>1, TextInFacts
  <2>4. ValueState(v, n + 1) = IF InText(v, n + 1) THEN "value"
                               ELSE IF c = Eol THEN "lws" ELSE "valueStart"
    <3>1. n + 1 > 0
      BY <2>1
    <3> QED
      BY <2>1, <3>1 DEF ValueState
  <2>5. n > 0 /\ v[n] = Eol => c = Space
    <3>1. n > 0 => n \in 1..Len(v)
      BY <2>1
    <3> QED
      BY <1>1, <2>1, <3>1
  <2> QED
    BY <1>6, <1>10, <2>1, <2>2, <2>3, <2>4, <2>5 DEF v, more, NextInValue
<1> QED
  BY <1>9, <1>10

(* A line of a value ended. *)
LEMMA ValueEnds ==
    ASSUME NEW m \in Messages, WellFormed(m), NEW i \in 1..Len(m.headers),
           NEW n \in 0..Len(m.headers[i].value), NEW rest,
           rest = After(m.headers[i].value, n) \o Behind(m, i), NEW c, c = rest[1], c = Eol,
           NEW g, g.parser.state = "lws",
           HeaderContent(g, m, i, <<TextIn(m.headers[i].value, n)>>, TRUE)
    PROVE  Gathered(g, m, After(rest, 1))
<1> DEFINE h == m.headers[i]
<1> DEFINE v == h.value
<1> DEFINE text == TextIn(v, n)
<1>1. g.ctx.data = <<text>> /\ g.ctx.lastWasValue = TRUE
  BY DEF HeaderContent, Content
<1>2. /\ n = Len(v) => After(rest, 1) = LinesFrom(m, i + 1)
      /\ n # Len(v) => /\ n + 1 \in 0..Len(v)
                       /\ After(rest, 1) = After(v, n + 1) \o Behind(m, i)
                       /\ ~InText(v, n + 1) /\ TextIn(v, n + 1) = text
                       /\ ValueState(v, n + 1) = "lws"
  <2>1. /\ n = Len(v) => After(rest, 1) = LinesFrom(m, i + 1)
        /\ n # Len(v) =>
              /\ n + 1 \in 0..Len(v)
              /\ After(rest, 1) = After(v, n + 1) \o Behind(m, i)
              /\ InText(v, n + 1) <=> c # Eol /\ (InText(v, n) \/ c # Space)
              /\ TextIn(v, n + 1) = IF InText(v, n + 1) THEN TextIn(v, n) \o <<c>>
                                    ELSE TextIn(v, n)
              /\ ValueState(v, n + 1) = IF InText(v, n + 1) THEN "value"
                                        ELSE IF c = Eol THEN "lws" ELSE "valueStart"
    <3>1. NextInValue(m, i, n, rest, c)
      BY ValueByte
    <3> QED
      BY <3>1 DEF NextInValue
  <2>2. text = TextIn(v, n)
    OBVIOUS
  <2> HIDE DEF v, text
  <2>3. CASE n # Len(v)
    <3>1. ~InText(v, n + 1)
      BY <2>1, <2>3
    <3>2. TextIn(v, n + 1) = text /\ ValueState(v, n + 1) = "lws"
      BY <2>1, <2>2, <2>3, <3>1
    <3> QED
      BY <2>1, <2>3, <3>1, <3>2
  <2> QED
    BY <2>1, <2>3
<1>3. CASE n = Len(v)
  <2>1. Sent(h).value = <<text>>
    BY <1>3 DEF Sent
  <2>2. ValueGathered(g, h, LinesFrom(m, i + 1), After(rest, 1))
    BY <1>1, <1>2, <1>3, <2>1 DEF ValueGathered
  <2> QED
    BY <1>1, <2>2, HeaderGathers
<1>4. CASE n # Len(v)
  <2>1. ValueContent(g, m, i, n + 1, TRUE)
    BY <1>2, <1>4 DEF ValueContent
  <2>2. InTheValue(g, m, i, n + 1, TRUE, After(rest, 1))
    BY <1>2, <1>4, <2>1 DEF InTheValue
  <2> QED
    BY <1>2, <1>4, <2>2, ValueGathers
<1> QED
  BY <1>3, <1>4

(* A value that is called back for the first time names its header. *)
LEMMA ValueNamed ==
    ASSUME NEW f, NEW m, NEW i, NEW n, NEW text \in Text,
           ValueContent(f, m, i, n, FALSE), NEW g,
           Content(g, f.request.url, f.request.headers,
                   <<[f.ctx.header[1] EXCEPT !.name = f.ctx.data]>>, <<text>>, f.ctx.state, TRUE)
    PROVE  HeaderContent(g, m, i, <<text>>, TRUE)
<1> DEFINE h == m.headers[i]
<1>1. HeaderContent(f, m, i, <<h.name>>, FALSE)
  BY DEF ValueContent
<1>2. /\ f.request.url = <<m.url>> /\ f.request.headers = Taken(m, i - 1)
      /\ f.ctx.header = <<[name |-> Null, value |-> Null]>> /\ f.ctx.data = <<h.name>>
      /\ f.ctx.state = "HeaderName"
  BY <1>1 DEF HeaderContent, Content
<1> DEFINE p == [name |-> Null, value |-> Null]
<1>3. [p EXCEPT !.name = <<h.name>>] = [name |-> <<h.name>>, value |-> Null]
  OBVIOUS
<1> HIDE DEF p, h
<1>4. f.ctx.header[1] = p
  BY <1>2 DEF p
<1>5. [f.ctx.header[1] EXCEPT !.name = f.ctx.data] = [name |-> <<h.name>>, value |-> Null]
  BY <1>2, <1>3, <1>4
<1> QED
  BY <1>2, <1>5 DEF HeaderContent, Content, h

LEMMA NothingMore ==
    ASSUME NEW text \in Text, NEW c \in Bytes
    PROVE  /\ Longer(<<text>>, <<>>) = <<text>> /\ Longer(<<text>>, <<c>>) = <<text \o <<c>> >>
           /\ <<>> \o <<c>> = <<c>>
<1>1. text \o <<>> = text
  BY ConcatEmptySeq DEF Text
<1>2. <<text>> # Null /\ << <<text>>[1] \o <<>> >> = <<text \o <<>> >>
      /\ << <<text>>[1] \o <<c>> >> = <<text \o <<c>> >>
  BY DEF Null
<1>3. <<>> \o <<c>> = <<c>>
  OBVIOUS
<1> QED
  BY <1>1, <1>2, <1>3 DEF Longer

LEMMA AtValueGathers ==
    ASSUME NEW f, NEW m, NEW rest, Midst(f, m, rest), f.parser.state = "valueStart",
           NEW c, c = rest[1]
    PROVE  Advances(AtValue(f, c), m, rest)
<1>1. m \in Messages /\ WellFormed(m)
  BY DEF Midst
<1>2. /\ f \in Frames /\ Fits(f) /\ Collecting(f) /\ ~f.ctx.done /\ ~f.parser.error
      /\ f.parser.run = Null /\ Gathered(f, m, rest) /\ CallBack(f) = f
  BY MidstFacts DEF Midst
<1>3. PICK i \in 1..Len(m.headers) :
          \E n \in 0..Len(m.headers[i].value), last \in BOOLEAN :
             InTheValue(f, m, i, n, last, rest)
  BY <1>1, <1>2, ValuePlace
<1> DEFINE h == m.headers[i]
<1> DEFINE v == h.value
<1>4. PICK n \in 0..Len(v), last \in BOOLEAN : InTheValue(f, m, i, n, last, rest)
  BY <1>3
<1> DEFINE text == TextIn(v, n)
<1>5. /\ f.parser.state = ValueState(v, n) /\ ValueContent(f, m, i, n, last)
      /\ rest = After(v, n) \o Behind(m, i)
  BY <1>4 DEF InTheValue
<1>6. NextInValue(m, i, n, rest, c)
  BY <1>1, <1>5, ValueByte
<1>7. /\ c \in Bytes /\ text \in Text
      /\ n = Len(v) => c = Eol
      /\ n # Len(v) =>
            /\ n + 1 \in 0..Len(v) /\ After(rest, 1) = After(v, n + 1) \o Behind(m, i)
            /\ InText(v, n + 1) <=> c # Eol /\ (InText(v, n) \/ c # Space)
            /\ TextIn(v, n + 1) = IF InText(v, n + 1) THEN text \o <<c>> ELSE text
            /\ ValueState(v, n + 1) = IF InText(v, n + 1) THEN "value"
                                      ELSE IF c = Eol THEN "lws" ELSE "valueStart"
  BY <1>6 DEF NextInValue
<1>8. ~InText(v, n)
  BY <1>5 DEF ValueState
<1>9. /\ last => HeaderContent(f, m, i, <<text>>, TRUE)
      /\ ~last => HeaderContent(f, m, i, <<h.name>>, FALSE) /\ text = <<>>
  BY <1>5 DEF ValueContent
<1>10. /\ f.ctx.header # Null /\ f.ctx.lastWasValue = last
       /\ last => f.ctx.data = <<text>>
  <2>1. CASE last
    <3>1. HeaderContent(f, m, i, <<text>>, TRUE)
      BY <1>9, <2>1
    <3>2. /\ f.ctx.header = <<[name |-> <<m.headers[i].name>>, value |-> Null]>>
          /\ f.ctx.lastWasValue = TRUE /\ f.ctx.data = <<text>>
      BY <3>1 DEF HeaderContent, Content
    <3>3. last = TRUE
      BY <2>1
    <3>4. f.ctx.header # Null
      BY <3>2 DEF Null
    <3> QED
      BY <3>2, <3>3, <3>4, Zenon
  <2>2. CASE ~last
    <3>1. HeaderContent(f, m, i, <<h.name>>, FALSE)
      BY <1>9, <2>2
    <3>2. /\ f.ctx.header = <<[name |-> Null, value |-> Null]>> /\ f.ctx.lastWasValue = FALSE
      BY <3>1 DEF HeaderContent, Content
    <3>3. last = FALSE
      BY <2>2
    <3>4. f.ctx.header # Null
      BY <3>2 DEF Null
    <3> QED
      BY <3>2, <3>3, <3>4, Zenon
  <2> QED
    BY <2>1, <2>2
<1> HIDE DEF text, v, h
<1>11. Eol # Space
  BY DEF Eol, Space
<1>12. CASE c = Eol
  <2> DEFINE none == << <<>> >>
  <2> DEFINE e == [f EXCEPT !.parser.run = none]
  <2> DEFINE k == CallBack(e)
  <2> DEFINE g == Goto(k, "lws")
  <2>1. none \in Pointer /\ none # Null /\ none[1] = <<>>
    BY TextFacts, OptionalFacts DEF Pointer, Null
  <2> HIDE DEF none
  <2>2. AtValue(f, c) = g
    BY <1>11, <1>12 DEF AtValue, none
  <2>3. /\ e \in Frames /\ SameBeside(f, e) /\ e.parser.state = "valueStart"
        /\ e.parser.run = none /\ e.parser.error = f.parser.error
    BY <1>2, <2>1, RunEffect
  <2> HIDE DEF e
  <2>4. g.parser.error = f.parser.error /\ g.ctx.done = f.ctx.done /\ g.parser.state = "lws"
    BY <1>2, <2>3, EndCalm DEF States
  <2>5. Fits(e) /\ Collecting(e) /\ e.ctx = f.ctx /\ e.request = f.request
    BY <1>2, <2>3 DEF Fits, SameBeside, Collecting, Balanced
  <2>6. k \in Frames /\ k.parser.run = Null
    BY <2>1, <2>3, <2>5, CallBackEffect
  <2>7. HeaderContent(k, m, i, <<text>>, TRUE)
    <3>1. /\ last => WithData(e, k, Longer(e.ctx.data, <<>>))
          /\ ~last => Content(k, e.request.url, e.request.headers,
                              <<[e.ctx.header[1] EXCEPT !.name = e.ctx.data]>>, <<none[1]>>,
                              e.ctx.state, TRUE)
      BY <1>10, <2>1, <2>3, <2>5, CallBackContent
    <3> HIDE DEF k
    <3>2. CASE last
      <4>1. WithData(e, k, <<text>>)
        BY <1>7, <1>10, <2>5, <3>1, <3>2, NothingMore
      <4> QED
        BY <1>9, <2>5, <3>2, <4>1 DEF HeaderContent, WithData, Content
    <3>3. CASE ~last
      <4>1. ValueContent(f, m, i, n, FALSE) /\ text = <<>> /\ <<none[1]>> = <<text>>
        BY <1>5, <1>9, <2>1, <3>3
      <4>2. Content(k, f.request.url, f.request.headers,
                    <<[f.ctx.header[1] EXCEPT !.name = f.ctx.data]>>, <<text>>,
                    f.ctx.state, TRUE)
        BY <2>5, <3>1, <3>3, <4>1
      <4> QED
        BY <1>7, <4>1, <4>2, ValueNamed
    <3> QED
      BY <3>2, <3>3
  <2> HIDE DEF k
  <2>8. SameBeside(k, g) /\ g.parser.run = Null
    BY <2>6, GotoEffect DEF States
  <2> HIDE DEF g
  <2>9. HeaderContent(g, m, i, <<text>>, TRUE)
    BY <2>7, <2>8 DEF HeaderContent, Content, SameBeside
  <2>10. Gathered(g, m, After(rest, 1))
    BY <1>1, <1>5, <1>12, <2>4, <2>9, ValueEnds DEF text, v, h
  <2>11. CallBack(g) = g
    BY <2>8, CallBackNone
  <2> QED
    BY <1>2, <2>2, <2>4, <2>10, <2>11 DEF Advances, Gathers
<1>13. CASE c = Space
  <2>1. AtValue(f, c) = f /\ n # Len(v)
    BY <1>7, <1>11, <1>13 DEF AtValue
  <2>2. /\ n + 1 \in 0..Len(v) /\ After(rest, 1) = After(v, n + 1) \o Behind(m, i)
        /\ ~InText(v, n + 1) /\ TextIn(v, n + 1) = text /\ ValueState(v, n + 1) = "valueStart"
    BY <1>7, <1>8, <1>11, <1>13, <2>1
  <2>3. ValueContent(f, m, i, n + 1, last)
    BY <1>9, <2>2 DEF ValueContent, v, h
  <2>4. InTheValue(f, m, i, n + 1, last, After(rest, 1))
    BY <2>2, <2>3 DEF InTheValue, v, h
  <2>5. Gathered(f, m, After(rest, 1))
    BY <1>1, <2>2, <2>4, ValueGathers DEF v, h
  <2> QED
    BY <1>2, <2>1, <2>5 DEF Advances, Gathers
<1>14. CASE c # Eol /\ c # Space
  <2> DEFINE b == f.parser.close \/ (f.parser.conn /\ c = "close")
  <2> DEFINE e0 == [f EXCEPT !.parser.close = b]
  <2> DEFINE e == Goto(e0, "value")
  <2> DEFINE g == Mark(e, c)
  <2> DEFINE k == CallBack(g)
  <2>1. AtValue(f, c) = g
    <3>1. [f EXCEPT !.parser.close = @ \/ (f.parser.conn /\ c = "close")] = e0
      OBVIOUS
    <3> HIDE DEF e0
    <3> QED
      BY <1>14, <3>1 DEF AtValue
  <2>2. e0 \in Frames /\ SameState(f, e0) /\ e0.parser.error = f.parser.error
    <3>1. b \in BOOLEAN /\ <<>> \in Optional(Bytes)
      BY <1>2, OptionalFacts DEF Null, Frames, Parsers
    <3> HIDE DEF b
    <3> QED
      BY <1>2, <3>1, FlagKeeps, Zenon
  <2> HIDE DEF e0
  <2>3. /\ e \in Frames /\ SameBeside(f, e) /\ e.parser.run = Null /\ e.parser.state = "value"
        /\ e.parser.error = f.parser.error
    BY <1>2, <2>2, GotoEffect DEF States, SameState, SameBeside
  <2> HIDE DEF e
  <2>4. /\ g.parser.error = e.parser.error /\ g.ctx.done = f.ctx.done
        /\ k.parser.state = "value"
        /\ last => WithData(f, k, Longer(f.ctx.data, <<c>>))
        /\ ~last => Content(k, f.request.url, f.request.headers,
                            <<[f.ctx.header[1] EXCEPT !.name = f.ctx.data]>>, << <<c>> >>,
                            f.ctx.state, TRUE)
    BY <1>2, <1>7, <1>10, <2>3, BeginContent
  <2> HIDE DEF k, g
  <2>5. /\ n + 1 \in 0..Len(v) /\ After(rest, 1) = After(v, n + 1) \o Behind(m, i)
        /\ TextIn(v, n + 1) = text \o <<c>> /\ ValueState(v, n + 1) = "value"
    BY <1>7, <1>14
  <2>6. HeaderContent(k, m, i, <<text \o <<c>> >>, TRUE)
    <3>1. CASE last
      <4>1. WithData(f, k, <<text \o <<c>> >>)
        BY <1>7, <1>10, <2>4, <3>1, NothingMore
      <4> QED
        BY <1>9, <3>1, <4>1 DEF HeaderContent, WithData, Content
    <3>2. CASE ~last
      <4>1. <<c>> \in Text /\ text \o <<c>> = <<c>>
        BY <1>7, <1>9, <3>2, NothingMore, TextFacts
      <4>2. ValueContent(f, m, i, n, FALSE)
        BY <1>5, <3>2
      <4>3. HeaderContent(k, m, i, << <<c>> >>, TRUE)
        BY <2>4, <3>2, <4>1, <4>2, ValueNamed
      <4> QED
        BY <4>1, <4>3
    <3> QED
      BY <3>1, <3>2
  <2>7. ValueContent(k, m, i, n + 1, TRUE)
    BY <2>5, <2>6 DEF ValueContent, v, h
  <2>8. InTheValue(k, m, i, n + 1, TRUE, After(rest, 1))
    BY <2>4, <2>5, <2>7 DEF InTheValue, v, h
  <2>9. Gathered(k, m, After(rest, 1))
    BY <1>1, <2>5, <2>8, ValueGathers DEF v, h
  <2> QED
    BY <1>2, <2>1, <2>3, <2>4, <2>9 DEF Advances, Gathers, k
<1> QED
  BY <1>12, <1>13, <1>14

LEMMA InValueGathers ==
    ASSUME NEW f, NEW m, NEW rest, Midst(f, m, rest), f.parser.state = "value",
           NEW c, c = rest[1]
    PROVE  Advances(InValue(f, c), m, rest)
<1> DEFINE k == CallBack(f)
<1>1. m \in Messages /\ WellFormed(m) /\ Working(f)
  BY DEF Midst
<1>2. /\ f \in Frames /\ Fits(f) /\ ~f.ctx.done /\ ~f.parser.error /\ f.parser.run # Null
      /\ k \in Frames /\ k.parser.state = "value" /\ Gathered(k, m, rest)
  BY MidstFacts DEF Midst
<1>3. k.parser.run = Null
  BY <1>2, CallBackEffect
<1> HIDE DEF k
<1>4. PICK i \in 1..Len(m.headers) :
          \E n \in 0..Len(m.headers[i].value), last \in BOOLEAN :
             InTheValue(k, m, i, n, last, rest)
  BY <1>1, <1>2, ValuePlace
<1> DEFINE v == m.headers[i].value
<1>5. PICK n \in 0..Len(v), last \in BOOLEAN : InTheValue(k, m, i, n, last, rest)
  BY <1>4
<1> DEFINE text == TextIn(v, n)
<1>6. /\ k.parser.state = ValueState(v, n) /\ ValueContent(k, m, i, n, last)
      /\ last /\ rest = After(v, n) \o Behind(m, i)
  BY <1>2, <1>5 DEF InTheValue
<1>7. NextInValue(m, i, n, rest, c)
  BY <1>1, <1>6, ValueByte
<1>8. /\ c \in Bytes /\ text \in Text
      /\ n = Len(v) => c = Eol
      /\ n # Len(v) =>
            /\ n + 1 \in 0..Len(v) /\ After(rest, 1) = After(v, n + 1) \o Behind(m, i)
            /\ InText(v, n + 1) <=> c # Eol /\ (InText(v, n) \/ c # Space)
            /\ TextIn(v, n + 1) = IF InText(v, n + 1) THEN text \o <<c>> ELSE text
            /\ ValueState(v, n + 1) = IF InText(v, n + 1) THEN "value"
                                      ELSE IF c = Eol THEN "lws" ELSE "valueStart"
  BY <1>7 DEF NextInValue
<1>9. InText(v, n)
  BY <1>2, <1>6 DEF ValueState
<1>10. HeaderContent(k, m, i, <<text>>, TRUE)
  BY <1>6 DEF ValueContent
<1> HIDE DEF text, v
<1>11. CASE c = Eol
  <2> DEFINE g == Goto(k, "lws")
  <2>1. InValue(f, c) = g
    BY <1>11 DEF InValue, k
  <2>2. SameBeside(k, g) /\ g.parser.run = Null
    BY <1>2, <1>3, GotoEffect DEF States
  <2>3. g.parser.error = f.parser.error /\ g.ctx.done = f.ctx.done /\ g.parser.state = "lws"
    <3>1. SameBeside(f, f)
      BY DEF SameBeside
    <3> QED
      BY <1>2, <3>1, EndCalm DEF States, k
  <2> HIDE DEF g
  <2>4. HeaderContent(g, m, i, <<text>>, TRUE)
    BY <1>10, <2>2 DEF HeaderContent, Content, SameBeside
  <2>5. Gathered(g, m, After(rest, 1))
    BY <1>1, <1>6, <1>11, <2>3, <2>4, ValueEnds DEF text, v
  <2>6. CallBack(g) = g
    BY <2>2, CallBackNone
  <2> QED
    BY <1>2, <2>1, <2>3, <2>5, <2>6 DEF Advances, Gathers
<1>12. CASE c # Eol
  <2> DEFINE g == Mark(f, c)
  <2> DEFINE l == CallBack(g)
  <2>1. InValue(f, c) = g
    BY <1>12 DEF InValue
  <2>2. l.parser.state = "value" /\ WithData(k, l, <<k.ctx.data[1] \o <<c>> >>)
    BY <1>1, <1>8, MarkContent DEF k
  <2>3. g.parser.error = f.parser.error /\ g.ctx.done = f.ctx.done
    BY <1>2, <1>8, MarkEffect DEF SameBeside
  <2> HIDE DEF g, l
  <2>4. /\ n + 1 \in 0..Len(v) /\ After(rest, 1) = After(v, n + 1) \o Behind(m, i)
        /\ TextIn(v, n + 1) = text \o <<c>> /\ ValueState(v, n + 1) = "value"
    BY <1>8, <1>9, <1>12
  <2>5. <<k.ctx.data[1] \o <<c>> >> = <<text \o <<c>> >>
    <3>1. k.ctx.data = <<text>>
      BY <1>10 DEF HeaderContent, Content
    <3>2. k.ctx.data[1] = text
      BY <3>1
    <3> QED
      BY <3>2
  <2>6. HeaderContent(l, m, i, <<text \o <<c>> >>, TRUE)
    BY <1>10, <2>2, <2>5 DEF HeaderContent, WithData, Content
  <2>7. ValueContent(l, m, i, n + 1, TRUE)
    BY <2>4, <2>6 DEF ValueContent, v
  <2>8. InTheValue(l, m, i, n + 1, TRUE, After(rest, 1))
    BY <2>2, <2>4, <2>7 DEF InTheValue, v
  <2>9. Gathered(l, m, After(rest, 1))
    BY <1>1, <2>4, <2>8, ValueGathers DEF v
  <2> QED
    BY <1>2, <2>1, <2>3, <2>9 DEF Advances, Gathers, g, l
<1> QED
  BY <1>11, <1>12

LEMMA AfterLineGathers ==
    ASSUME NEW f, NEW m, NEW rest, Midst(f, m, rest), f.parser.state = "lws",
           NEW c, c = rest[1]
    PROVE  Advances(AfterLine(f, c), m, rest)
<1>1. m \in Messages /\ WellFormed(m) /\ Working(f)
  BY DEF Midst
<1>2. /\ f \in Frames /\ ~f.ctx.done /\ ~f.parser.error /\ f.parser.run = Null
      /\ Gathered(f, m, rest)
  BY MidstFacts DEF Midst
<1>3. PICK i \in 1..Len(m.headers) :
          \/ \E n \in 0..Len(m.headers[i].value), last \in BOOLEAN :
                InTheValue(f, m, i, n, last, rest)
          \/ /\ f.parser.state = "lws" /\ rest = LinesFrom(m, i + 1)
             /\ HeaderContent(f, m, i, Sent(m.headers[i]).value, TRUE)
  BY <1>1, <1>2, ValuePlace
<1> DEFINE v == m.headers[i].value
<1>4. ASSUME NEW n \in 0..Len(v), NEW last \in BOOLEAN, InTheValue(f, m, i, n, last, rest)
      PROVE  Advances(AfterLine(f, c), m, rest)
  <2> DEFINE text == TextIn(v, n)
  <2> DEFINE g == Goto(f, "valueStart")
  <2>1. /\ f.parser.state = ValueState(v, n) /\ ValueContent(f, m, i, n, last)
        /\ last /\ rest = After(v, n) \o Behind(m, i)
    BY <1>4 DEF InTheValue
  <2>2. NextInValue(m, i, n, rest, c)
    BY <1>1, <2>1, ValueByte
  <2>3. ~InText(v, n) /\ n > 0 /\ v[n] = Eol
    BY <2>1 DEF ValueState
  <2>4. Eol # Space
    BY DEF Eol, Space
  <2>5. /\ n # Len(v) /\ c = Space
        /\ n + 1 \in 0..Len(v) /\ After(rest, 1) = After(v, n + 1) \o Behind(m, i)
        /\ InText(v, n + 1) <=> c # Eol /\ (InText(v, n) \/ c # Space)
        /\ TextIn(v, n + 1) = IF InText(v, n + 1) THEN text \o <<c>> ELSE text
        /\ ValueState(v, n + 1) = IF InText(v, n + 1) THEN "value"
                                  ELSE IF c = Eol THEN "lws" ELSE "valueStart"
    BY <2>2, <2>3 DEF NextInValue
  <2>6. HeaderContent(f, m, i, <<text>>, TRUE)
    BY <2>1 DEF ValueContent
  <2> HIDE DEF text, v
  <2>7. TextIn(v, n + 1) = text /\ ValueState(v, n + 1) = "valueStart"
    BY <2>3, <2>4, <2>5
  <2>8. AfterLine(f, c) = g
    BY <2>5 DEF AfterLine
  <2>9. /\ g.parser.state = "valueStart" /\ SameBeside(f, g) /\ g.parser.run = Null
        /\ g.parser.error = f.parser.error
    BY <1>2, GotoEffect DEF States
  <2> HIDE DEF g
  <2>10. HeaderContent(g, m, i, <<text>>, TRUE)
    BY <2>6, <2>9 DEF HeaderContent, Content, SameBeside
  <2>11. ValueContent(g, m, i, n + 1, TRUE)
    BY <2>7, <2>10 DEF ValueContent, v
  <2>12. InTheValue(g, m, i, n + 1, TRUE, After(rest, 1))
    BY <2>5, <2>7, <2>9, <2>11 DEF InTheValue, v
  <2>13. Gathered(g, m, After(rest, 1))
    BY <1>1, <2>5, <2>12, ValueGathers DEF v
  <2>14. CallBack(g) = g
    BY <2>9, CallBackNone
  <2> QED
    BY <1>2, <2>8, <2>9, <2>13, <2>14 DEF Advances, Gathers, SameBeside
<1>5. CASE /\ f.parser.state = "lws" /\ rest = LinesFrom(m, i + 1)
           /\ HeaderContent(f, m, i, Sent(m.headers[i]).value, TRUE)
  <2> DEFINE j == i + 1
  <2>1. j \in 1..(Len(m.headers) + 1) /\ j # 1 /\ j - 1 = i
    BY <1>1, HeaderText
  <2> HIDE DEF j
  <2>2. LineContent(f, m, j)
    BY <1>5, <2>1 DEF LineContent
  <2>3. rest = LinesFrom(m, j)
    BY <1>5 DEF j
  <2>4. LET g == AtLine(f, c)
        IN  /\ c # Space /\ ~g.parser.error
            /\ j = Len(m.headers) + 1 => g.ctx.done = TRUE /\ Whole(g, m)
            /\ j # Len(m.headers) + 1 => Gathers(g, m, After(LinesFrom(m, j), 1))
    BY <1>1, <1>2, <1>5, <2>1, <2>2, <2>3, AtLineGathers
  <2>5. AfterLine(f, c) = AtLine(f, c)
    BY <2>4 DEF AfterLine
  <2> QED
    BY <2>3, <2>4, <2>5 DEF Advances
<1> QED
  BY <1>3, <1>4, <1>5

LEMMA GatheredState ==
    ASSUME NEW f, NEW m, NEW rest, Gathered(f, m, rest)
    PROVE  f.parser.state \in
              {"start", "spaces", "url", "line", "name", "valueStart", "value", "lws"}
<1>1. CASE UrlGathered(f, m, rest)
  BY <1>1, Zenon DEF UrlGathered
<1>2. ASSUME NEW i, HeaderGathered(f, m, i, rest)
      PROVE  f.parser.state \in {"name", "valueStart", "value", "lws"}
  BY <1>2, Zenon DEF HeaderGathered, NameGathered, ValueGathered
<1> QED
  BY <1>1, <1>2 DEF Gathered

(* one byte of a well-formed message *)
LEMMA ByteGathers ==
    ASSUME NEW f, NEW m, NEW rest, Midst(f, m, rest), NEW c, c = rest[1]
    PROVE  Advances(Byte(f, c), m, rest)
<1>1. f.parser.state \in
         {"start", "spaces", "url", "line", "name", "valueStart", "value", "lws"}
  <2>1. CallBack(f).parser.state = f.parser.state /\ Gathered(CallBack(f), m, rest)
    BY MidstFacts DEF Midst
  <2> QED
    BY <2>1, GatheredState
<1>2. CASE f.parser.state = "start"
  BY <1>2, StartGathers DEF Byte
<1>3. CASE f.parser.state = "spaces"
  BY <1>3, SpacesGathers DEF Byte
<1>4. CASE f.parser.state = "url"
  BY <1>4, InUrlGathers DEF Byte
<1>5. CASE f.parser.state = "line"
  BY <1>5, LineGathers DEF Byte
<1>6. CASE f.parser.state = "name"
  BY <1>6, InNameGathers DEF Byte
<1>7. CASE f.parser.state = "valueStart"
  BY <1>7, AtValueGathers DEF Byte
<1>8. CASE f.parser.state = "value"
  BY <1>8, InValueGathers DEF Byte
<1>9. CASE f.parser.state = "lws"
  BY <1>9, AfterLineGathers DEF Byte
<1> QED
  BY <1>1, <1>2, <1>3, <1>4, <1>5, <1>6, <1>7, <1>8, <1>9

-----------------------------------------------------------------------------
(* A piece of a well-formed message *)

(* what a byte or its end may make of two frames, but for the count of bytes *)
Alike(f, g) == Same(f, g) /\ g.parser.state = f.parser.state

LEMMA GatheredAlike ==
    ASSUME NEW f, NEW g, Alike(f, g), NEW m, NEW rest, Gathered(f, m, rest)
    PROVE  Gathered(g, m, rest)
<1>1. /\ g.request.url = f.request.url /\ g.request.headers = f.request.headers
      /\ g.ctx.header = f.ctx.header /\ g.ctx.data = f.ctx.data
      /\ g.ctx.state = f.ctx.state /\ g.ctx.lastWasValue = f.ctx.lastWasValue
      /\ g.parser.state = f.parser.state
  BY DEF Alike, Same, WithData, Content
<1>2. CASE UrlGathered(f, m, rest)
  <2>1. UrlGathered(g, m, rest)
    BY <1>1, <1>2, Zenon DEF UrlGathered
  <2> QED
    BY <2>1 DEF Gathered
<1>3. CASE \E i \in DOMAIN m.headers : HeaderGathered(f, m, i, rest)
  <2>1. PICK i \in DOMAIN m.headers : HeaderGathered(f, m, i, rest)
    BY <1>3
  <2>2. NameGathered(f, m.headers[i], LinesFrom(m, i + 1), rest)
            => NameGathered(g, m.headers[i], LinesFrom(m, i + 1), rest)
    BY <1>1, Zenon DEF NameGathered
  <2>3. ValueGathered(f, m.headers[i], LinesFrom(m, i + 1), rest)
            => ValueGathered(g, m.headers[i], LinesFrom(m, i + 1), rest)
    BY <1>1 DEF ValueGathered
  <2>4. HeaderGathered(g, m, i, rest)
    BY <1>1, <2>1, <2>2, <2>3 DEF HeaderGathered
  <2> QED
    BY <2>4 DEF Gathered
<1> QED
  BY <1>2, <1>3 DEF Gathered

(* What the callback for a mark leaves, by what it finds. *)
Called(ctx, request, state, text, k) ==
    LET h == ctx.header[1]
        longer == <<IF ctx.data = Null THEN text ELSE ctx.data[1] \o text>>
    IN  /\ state = "url" =>
              Content(k, request.url, request.headers, ctx.header, longer, "Url",
                      ctx.lastWasValue)
        /\ state = "name" /\ ctx.header = Null =>
              Content(k, ctx.data, request.headers, <<NewHeader>>, <<text>>, "HeaderName", FALSE)
        /\ state = "name" /\ ctx.header # Null /\ ctx.lastWasValue =>
              Content(k, request.url, <<[h EXCEPT !.value = ctx.data]>> \o request.headers,
                      <<NewHeader>>, <<text>>, "HeaderName", FALSE)
        /\ state = "name" /\ ctx.header # Null /\ ~ctx.lastWasValue =>
              Content(k, request.url, request.headers, ctx.header, longer, ctx.state,
                      ctx.lastWasValue)
        /\ state = "value" /\ ctx.lastWasValue =>
              Content(k, request.url, request.headers, ctx.header, longer, ctx.state,
                      ctx.lastWasValue)
        /\ state = "value" /\ ~ctx.lastWasValue =>
              Content(k, request.url, request.headers, <<[h EXCEPT !.name = ctx.data]>>,
                      <<text>>, ctx.state, TRUE)

LEMMA CalledOnce ==
    ASSUME NEW ctx, ctx.lastWasValue \in BOOLEAN, NEW request, NEW text,
           NEW state \in {"url", "name", "value"},
           NEW k, NEW l, Called(ctx, request, state, text, k), Called(ctx, request, state, text, l)
    PROVE  Same(k, l)
<1> DEFINE h == ctx.header[1]
<1> DEFINE longer == <<IF ctx.data = Null THEN text ELSE ctx.data[1] \o text>>
<1> DEFINE named == <<[h EXCEPT !.name = ctx.data]>>
<1> DEFINE headers == <<[h EXCEPT !.value = ctx.data]>> \o request.headers
<1>1. ASSUME NEW a, NEW b, NEW c, NEW d, NEW e, NEW last,
             Content(k, a, b, c, d, e, last), Content(l, a, b, c, d, e, last)
      PROVE  Same(k, l)
  BY <1>1 DEF Same, WithData, Content
<1>2. ASSUME NEW n \in {k, l}, Called(ctx, request, state, text, n)
      PROVE  /\ state = "url" =>
                   Content(n, request.url, request.headers, ctx.header, longer, "Url",
                           ctx.lastWasValue)
             /\ state = "name" /\ ctx.header = Null =>
                   Content(n, ctx.data, request.headers, <<NewHeader>>, <<text>>, "HeaderName",
                           FALSE)
             /\ state = "name" /\ ctx.header # Null /\ ctx.lastWasValue =>
                   Content(n, request.url, headers, <<NewHeader>>, <<text>>, "HeaderName", FALSE)
             /\ state = "name" /\ ctx.header # Null /\ ~ctx.lastWasValue =>
                   Content(n, request.url, request.headers, ctx.header, longer, ctx.state,
                           ctx.lastWasValue)
             /\ state = "value" /\ ctx.lastWasValue =>
                   Content(n, request.url, request.headers, ctx.header, longer, ctx.state,
                           ctx.lastWasValue)
             /\ state = "value" /\ ~ctx.lastWasValue =>
                   Content(n, request.url, request.headers, named, <<text>>, ctx.state, TRUE)
  BY <1>2, Zenon DEF Called
<1> HIDE DEF longer, named, headers
<1>3. CASE state = "url"
  BY <1>1, <1>2, <1>3
<1>4. CASE state = "name" /\ ctx.header = Null
  BY <1>1, <1>2, <1>4
<1>5. CASE state = "name" /\ ctx.header # Null /\ ctx.lastWasValue
  BY <1>1, <1>2, <1>5
<1>6. CASE state = "name" /\ ctx.header # Null /\ ~ctx.lastWasValue
  BY <1>1, <1>2, <1>6
<1>7. CASE state = "value" /\ ctx.lastWasValue
  BY <1>1, <1>2, <1>7
<1>8. CASE state = "value" /\ ~ctx.lastWasValue
  BY <1>1, <1>2, <1>8
<1> QED
  BY <1>3, <1>4, <1>5, <1>6, <1>7, <1>8

LEMMA CallBackCalled ==
    ASSUME NEW f, Working(f), f.parser.state \in {"url", "name", "value"}
    PROVE  /\ Called(f.ctx, f.request, f.parser.state, f.parser.run[1], CallBack(f))
           /\ CallBack(f).parser.state = f.parser.state
<1> DEFINE k == CallBack(f)
<1> DEFINE text == f.parser.run[1]
<1> DEFINE h == f.ctx.header[1]
<1> DEFINE state == f.parser.state
<1>1. /\ f \in Frames /\ Fits(f) /\ Collecting(f)
      /\ f.parser.run # Null /\ (f.parser.state = "value" => f.ctx.header # Null)
  BY CallBackData DEF Working, Ready
<1>2. /\ state \in {"url", "urlEnd"} =>
            Content(k, f.request.url, f.request.headers, f.ctx.header,
                    Longer(f.ctx.data, text), "Url", f.ctx.lastWasValue)
      /\ state \in {"name", "nameEnd"} =>
            /\ f.ctx.header = Null =>
                  Content(k, f.ctx.data, f.request.headers, <<NewHeader>>, <<text>>,
                          "HeaderName", FALSE)
            /\ f.ctx.header # Null /\ f.ctx.lastWasValue =>
                  Content(k, f.request.url,
                          <<[h EXCEPT !.value = f.ctx.data]>> \o f.request.headers,
                          <<NewHeader>>, <<text>>, "HeaderName", FALSE)
            /\ f.ctx.header # Null /\ ~f.ctx.lastWasValue =>
                  WithData(f, k, Longer(f.ctx.data, text))
      /\ state \notin {"url", "urlEnd", "name", "nameEnd"} =>
            /\ f.ctx.lastWasValue => WithData(f, k, Longer(f.ctx.data, text))
            /\ ~f.ctx.lastWasValue =>
                  Content(k, f.request.url, f.request.headers,
                          <<[h EXCEPT !.name = f.ctx.data]>>, <<text>>,
                          f.ctx.state, TRUE)
  <2>1. f.parser.state \notin {"url", "urlEnd", "name", "nameEnd"} => f.ctx.header # Null
    BY <1>1
  <2> QED
    BY <1>1, <2>1, CallBackContent
<1>3. k.parser.state = state
  BY <1>1, CallBackEffect
<1> HIDE DEF k
<1>4. CASE state = "url"
  <2> HIDE DEF state, text
  <2>1. state # "name" /\ state # "value"
    BY <1>4
  <2>2. Called(f.ctx, f.request, state, text, k)
    BY <1>2, <1>4, <2>1, Zenon DEF Called, Longer
  <2> QED
    BY <1>3, <2>2 DEF k, text, state
<1>5. CASE state = "name"
  <2> HIDE DEF state, text
  <2>1. state # "url" /\ state # "value"
    BY <1>5
  <2>2. Called(f.ctx, f.request, state, text, k)
    BY <1>2, <1>5, <2>1, Zenon DEF Called, Longer, WithData
  <2> QED
    BY <1>3, <2>2 DEF k, text, state
<1>6. CASE state = "value"
  <2> HIDE DEF state, text
  <2>1. state # "url" /\ state # "name" /\ state \notin {"url", "urlEnd", "name", "nameEnd"}
    BY <1>6
  <2>2. Called(f.ctx, f.request, state, text, k)
    BY <1>2, <1>6, <2>1, Zenon DEF Called, Longer, WithData
  <2> QED
    BY <1>3, <2>2 DEF k, text, state
<1> QED
  BY <1>3, <1>4, <1>5, <1>6 DEF k

(* What is called back does not depend on the count of bytes. *)
LEMMA CallBackAlike ==
    ASSUME NEW f, Working(f), NEW g, Working(g), g.ctx = f.ctx, g.request = f.request,
           g.parser.state = f.parser.state, g.parser.run = f.parser.run
    PROVE  Alike(CallBack(f), CallBack(g))
<1>1. f \in Frames /\ Running(f)
  BY DEF Working, Ready
<1>2. CASE f.parser.run = Null
  <2>1. CallBack(f) = f /\ CallBack(g) = g
    BY <1>2, CallBackNone
  <2> QED
    BY <2>1 DEF Alike, Same, WithData, Content
<1>3. CASE f.parser.run # Null
  <2>1. f.parser.state \in {"url", "name", "value"} /\ f.ctx.lastWasValue \in BOOLEAN
    BY <1>1, <1>3 DEF Running, Frames, Contexts
  <2>2. /\ Called(f.ctx, f.request, f.parser.state, f.parser.run[1], CallBack(f))
        /\ Called(f.ctx, f.request, f.parser.state, f.parser.run[1], CallBack(g))
        /\ CallBack(f).parser.state = f.parser.state
        /\ CallBack(g).parser.state = f.parser.state
    <3>1. /\ Called(g.ctx, g.request, g.parser.state, g.parser.run[1], CallBack(g))
          /\ CallBack(g).parser.state = g.parser.state
      BY <2>1, CallBackCalled
    <3> QED
      BY <2>1, <3>1, CallBackCalled
  <2> QED
    BY <2>1, <2>2, CalledOnce DEF Alike
<1> QED
  BY <1>2, <1>3

(* what is in the frame while a piece is parsed *)
Has(f, m, rest) ==
    ~f.past => /\ ~f.crashed /\ ~f.parser.error
               /\ IF f.ctx.done THEN Whole(f, m) ELSE Gathered(CallBack(f), m, rest)

LEMMA ComesAfter ==
    ASSUME NEW s \in Text, NEW n \in Nat, n < Len(s)
    PROVE  After(s, n)[1] = s[n + 1] /\ After(After(s, n), 1) = After(s, n + 1)
<1>1. s[n + 1] \in Bytes /\ After(s, n) = <<s[n + 1]>> \o After(s, n + 1)
  BY UntilAfter
<1>2. n + 1 \in 0..Len(s)
  BY TextFacts
<1>3. After(s, n + 1) \in Text
  BY <1>2, UntilAfter
<1> QED
  BY <1>1, <1>3, OneByte

(* At the beginning of a piece the mark is set, before any of its bytes.   *)
LEMMA BegunGathers ==
    ASSUME NEW f, Working(f), NEW m \in Messages, WellFormed(m), NEW rest, Gathered(f, m, rest),
           f.parser.run = IF f.parser.state \in {"url", "name", "value"} THEN << <<>> >> ELSE Null
    PROVE  Gathered(CallBack(f), m, rest)
<1> DEFINE k == CallBack(f)
<1> DEFINE s == f.parser.state
<1>1. f \in Frames /\ f.ctx.lastWasValue \in BOOLEAN
  BY DEF Working, Ready, Frames, Contexts
<1>2. CASE s \notin {"url", "name", "value"}
  <2>1. k = f
    BY <1>2, CallBackNone
  <2> QED
    BY <2>1
<1>3. ASSUME s \in {"url", "name", "value"},
             Content(k, f.request.url, f.request.headers, f.ctx.header, f.ctx.data,
                     f.ctx.state, f.ctx.lastWasValue)
      PROVE  Gathered(k, m, rest)
  <2>1. k.parser.state = s
    BY <1>3, CallBackCalled
  <2> HIDE DEF k
  <2>2. Alike(f, k)
    BY <1>3, <2>1 DEF Alike, Same, WithData
  <2> QED
    BY <2>2, GatheredAlike
<1>4. ASSUME s \in {"url", "name", "value"}, NEW text \in Text, f.ctx.data = <<text>>
      PROVE  Longer(f.ctx.data, f.parser.run[1]) = f.ctx.data
  <2>1. <<>> \in Text /\ f.parser.run[1] = <<>> /\ Eol \in Bytes
    BY <1>4, TextFacts, HeaderText
  <2> QED
    BY <1>4, <2>1, NothingMore
<1>5. /\ f \in Frames /\ Fits(f) /\ Collecting(f)
  BY DEF Working, Ready
<1>6. CASE s = "url"
  <2>1. UrlGathered(f, m, rest) /\ UrlContent(f, f.ctx.data) /\ m.url \in Text
    BY <1>1, <1>6, GatheredCases, HeaderText
  <2>2. PICK n \in 1..Len(m.url) : f.ctx.data = <<Until(m.url, n)>>
    BY <1>6, <2>1 DEF UrlGathered
  <2>3. n \in 0..Len(m.url)
    OBVIOUS
  <2>4. Until(m.url, n) \in Text
    BY <2>1, <2>3, UntilAfter
  <2>5. Longer(f.ctx.data, f.parser.run[1]) = f.ctx.data
    BY <1>4, <1>6, <2>2, <2>4
  <2>6. Content(k, f.request.url, f.request.headers, f.ctx.header,
                Longer(f.ctx.data, f.parser.run[1]), "Url", f.ctx.lastWasValue)
    <3>1. f.parser.run # Null
      BY <1>6 DEF Null
    <3> QED
      BY <1>5, <1>6, <3>1, CallBackContent
  <2>7. f.ctx.state = "Url"
    BY <2>1 DEF UrlGathered
  <2> QED
    BY <1>3, <1>6, <2>5, <2>6, <2>7
<1>7. CASE s = "name"
  <2>1. PICK i \in 1..Len(m.headers) :
            /\ HeaderContent(f, m, i, f.ctx.data, FALSE)
            /\ NameGathered(f, m.headers[i], LinesFrom(m, i + 1), rest)
    BY <1>1, <1>7, GatheredCases
  <2> DEFINE name == m.headers[i].name
  <2>2. name \in Text
    BY HeaderText
  <2>3. PICK n \in 1..Len(name) : f.ctx.data = <<Until(name, n)>>
    BY <2>1 DEF NameGathered
  <2> HIDE DEF name
  <2>4. n \in 0..Len(name)
    OBVIOUS
  <2>5. Until(name, n) \in Text
    BY <2>2, <2>4, UntilAfter
  <2>6. Longer(f.ctx.data, f.parser.run[1]) = f.ctx.data
    BY <1>4, <1>7, <2>3, <2>5
  <2>7. f.ctx.header # Null /\ f.ctx.lastWasValue = FALSE
    BY <2>1 DEF HeaderContent, Content, Null
  <2>8. WithData(f, k, Longer(f.ctx.data, f.parser.run[1]))
    <3>1. f.parser.run # Null
      BY <1>7 DEF Null
    <3> QED
      BY <1>5, <1>7, <2>7, <3>1, CallBackContent
  <2>9. WithData(f, k, f.ctx.data)
    BY <2>6, <2>8
  <2> QED
    BY <1>3, <1>7, <2>9 DEF WithData
<1>8. CASE s = "value"
  <2>1. PICK i \in 1..Len(m.headers) :
            /\ HeaderContent(f, m, i, f.ctx.data, f.ctx.lastWasValue)
            /\ ValueGathered(f, m.headers[i], LinesFrom(m, i + 1), rest)
    BY <1>1, <1>8, GatheredCases
  <2> DEFINE v == m.headers[i].value
  <2>2. v \in Text
    BY HeaderText
  <2>3. PICK n \in 0..Len(v) :
            /\ f.ctx.lastWasValue => f.ctx.data = <<TextIn(v, n)>>
            /\ ~f.ctx.lastWasValue => f.parser.state = "valueStart"
    BY <1>8, <2>1 DEF ValueGathered
  <2> HIDE DEF v
  <2>4. TextIn(v, n) \in Text
    BY <2>2, TextInFacts
  <2>5. f.ctx.lastWasValue = TRUE
    BY <1>1, <1>8, <2>3
  <2>6. Longer(f.ctx.data, f.parser.run[1]) = f.ctx.data
    BY <1>4, <1>8, <2>3, <2>4, <2>5
  <2>7. f.ctx.header # Null
    BY <2>1 DEF HeaderContent, Content, Null
  <2>8. WithData(f, k, Longer(f.ctx.data, f.parser.run[1]))
    <3>1. f.parser.run # Null
      BY <1>8 DEF Null
    <3> QED
      BY <1>5, <1>8, <2>5, <2>7, <3>1, CallBackContent
  <2>9. WithData(f, k, f.ctx.data)
    BY <2>6, <2>8
  <2> QED
    BY <1>3, <1>8, <2>9 DEF WithData
<1> QED
  BY <1>2, <1>6, <1>7, <1>8

LEMMA ExecuteByteGathers ==
    ASSUME NEW f, InPiece(f), NEW m \in Messages, EndsOnce(m), WellFormed(m), NEW rest,
           Has(f, m, rest), NEW c \in Bytes,
           ~f.past /\ ~f.ctx.done => ~f.parser.stopped /\ c = rest[1]
    PROVE  Has(ExecuteByte(f, c), m, After(rest, 1))
<1> DEFINE g == Byte(f, c)
<1> DEFINE h == ExecuteByte(f, c)
<1>1. CASE f.parser.error \/ f.parser.stopped \/ f.crashed
  <2>1. h = f
    BY <1>1 DEF ExecuteByte
  <2> HIDE DEF h
  <2> QED
    BY <1>1, <2>1 DEF Has, h
<1>2. CASE ~(f.parser.error \/ f.parser.stopped \/ f.crashed)
  <2> DEFINE size == g.parser.size + 1
  <2> DEFINE past == g.past \/ f.ctx.done
  <2>1. Ready(f)
    BY <1>2 DEF InPiece, Steady, Ready
  <2>2. Kept(f, g) /\ InPiece(h)
    BY <2>1, ByteKept, ExecuteByteKept
  <2>3. h = [g EXCEPT !.parser.size = size, !.past = past]
    BY <1>2, <2>2 DEF ExecuteByte, Kept, Frames
  <2> HIDE DEF g, h
  <2>4. g \in Frames /\ g.past = f.past
    BY <2>2 DEF Kept
  <2> HIDE DEF size, past
  <2>5. /\ h.past = past /\ h.ctx = g.ctx /\ h.crashed = g.crashed /\ h.request = g.request
        /\ h.parser.error = g.parser.error /\ h.parser.run = g.parser.run
        /\ h.parser.state = g.parser.state
    BY <2>3, <2>4 DEF Frames, Parsers
  <2>6. past <=> f.past \/ f.ctx.done
    BY <2>4 DEF past
  <2>7. CASE f.past \/ f.ctx.done
    BY <2>5, <2>6, <2>7 DEF Has, h
  <2>8. CASE ~f.past /\ ~f.ctx.done
    <3>1. Collecting(f)
      BY <2>8 DEF InPiece, Steady, Clear
    <3>2. Midst(f, m, rest)
      BY <2>1, <2>8, <3>1 DEF Midst, Working, Has
    <3>3. Advances(g, m, rest)
      BY <2>8, <3>2, ByteGathers DEF g
    <3>4. Clear(g) /\ ~g.crashed
      BY <2>2, <2>8, <3>1 DEF Kept, Clear
    <3>5. CASE g.ctx.done
      <4>1. Whole(g, m)
        BY <3>3, <3>5 DEF Advances, Gathers
      <4>2. Whole(h, m)
        BY <2>5, <4>1 DEF Whole
      <4> QED
        BY <2>5, <3>3, <3>4, <3>5, <4>2 DEF Has, Advances, h
    <3>6. CASE ~g.ctx.done
      <4>1. Gathered(CallBack(g), m, After(rest, 1))
        BY <3>3, <3>6 DEF Advances, Gathers
      <4>2. Working(g)
        BY <2>2, <3>4, <3>6 DEF Kept, Working, Ready, Clear
      <4>3. Working(h)
        <5>1. ~h.past /\ ~h.crashed /\ ~h.ctx.done
          BY <2>5, <2>6, <2>8, <3>4, <3>6
        <5> QED
          BY <2>2, <5>1 DEF InPiece, Steady, Clear, Working, Ready
      <4>4. Alike(CallBack(g), CallBack(h))
        BY <2>5, <4>2, <4>3, CallBackAlike
      <4>5. Gathered(CallBack(h), m, After(rest, 1))
        BY <4>1, <4>4, GatheredAlike
      <4> QED
        BY <2>5, <3>3, <3>4, <3>6, <4>5 DEF Has, Advances, h
    <3> QED
      BY <3>5, <3>6
  <2> QED
    BY <2>7, <2>8
<1> QED
  BY <1>1, <1>2

LEMMA ExecuteGathers ==
    ASSUME NEW f, Steady(f), NEW m \in Messages, EndsOnce(m), WellFormed(m), NEW n \in Nat,
           NEW piece \in Text,
           ~f.past => /\ ~f.ctx.done /\ ~f.parser.stopped /\ ~f.parser.error
                      /\ n < Len(Top(m)) /\ InStep(f.parser.state, m, n)
                      /\ Gathered(f, m, After(Top(m), n))
                      /\ \A k \in 1..Len(piece) :
                            n + k <= Len(Top(m)) => piece[k] = Top(m)[n + k]
    PROVE  LET e == Execute(f, piece)
           IN  ~e.past =>
                  /\ ~e.crashed /\ ~e.parser.error
                  /\ IF e.ctx.done THEN Whole(e, m)
                     ELSE Gathered(e, m, After(Top(m), n + Len(piece)))
<1> DEFINE r == IF f.parser.state \in {"url", "name", "value"} THEN << <<>> >> ELSE Null
<1> DEFINE begun == [f EXCEPT !.parser.size = 0, !.parser.run = r]
<1> DEFINE after == CHOOSE h : IsAfter(h, begun, piece)
<1> DEFINE read == after[Len(piece)]
<1> DEFINE top == Top(m)
<1>1. Execute(f, piece) = IF read.parser.error \/ read.parser.stopped \/ read.crashed
                          THEN read ELSE CallBack(read)
  BY Zenon DEF Execute, IsAfter
<1>2. InPiece(begun)
  <2>1. <<>> \in Text
    BY DEF Text
  <2>2. r \in Pointer /\ (r # Null <=> f.parser.state \in {"url", "name", "value"})
    BY <2>1, OptionalFacts DEF Pointer
  <2> HIDE DEF r
  <2> QED
    BY <2>2, BegunKept
<1>3. /\ begun.parser.size = 0 /\ begun.past = f.past /\ begun.ctx = f.ctx
      /\ begun.parser.stopped = f.parser.stopped /\ begun.parser.state = f.parser.state
      /\ begun.parser.error = f.parser.error /\ begun.crashed = f.crashed
      /\ begun.request = f.request /\ begun.parser.run = r
  <2> HIDE DEF r
  <2> QED
    BY DEF Steady, Frames, Parsers
<1> HIDE DEF begun
<1>4. after = [i \in 0..Len(piece) |->
                   IF i = 0 THEN begun ELSE ExecuteByte(after[i - 1], piece[i])]
  <2>1. \E h : IsAfter(h, begun, piece)
    BY AfterDefined
  <2>2. IsAfter(after, begun, piece)
    BY <2>1
  <2> QED
    BY <2>2 DEF IsAfter
<1> HIDE DEF after
<1>5. Len(piece) \in Nat /\ \A i \in 1..Len(piece) : piece[i] \in Bytes
  BY DEF Text
<1>6. top \in Text /\ Len(top) \in Nat
  BY RenderText, TextFacts
<1>7. Has(begun, m, After(top, n))
  <2> SUFFICES ASSUME ~begun.past
               PROVE  /\ ~begun.crashed /\ ~begun.parser.error /\ ~begun.ctx.done
                      /\ Gathered(CallBack(begun), m, After(top, n))
    BY DEF Has
  <2>1. ~begun.crashed /\ ~begun.parser.error /\ ~begun.ctx.done
    BY <1>3 DEF Steady, Clear
  <2>2. Working(begun)
    BY <1>2, <2>1 DEF InPiece, Steady, Clear, Working, Ready
  <2>3. Gathered(begun, m, After(top, n))
    <3>1. Alike(f, begun)
      BY <1>3 DEF Alike, Same, WithData, Content
    <3> QED
      BY <1>3, <3>1, GatheredAlike
  <2>4. Gathered(CallBack(begun), m, After(top, n))
    BY <1>3, <2>2, <2>3, BegunGathers
  <2> QED
    BY <2>1, <2>4
<1> HIDE DEF r, top
<1> DEFINE P(i) == /\ InPiece(after[i]) /\ Reached(after[i], m, n, i)
                   /\ Has(after[i], m, After(top, n + i)) /\ (f.past => after[i].past)
<1> DEFINE S == {i \in Nat : i <= Len(piece) => P(i)}
<1>8. 0 \in S
  <2>1. after[0] = begun /\ n + 0 = n /\ 0 \in 0..0
    BY <1>4, <1>5
  <2>2. Reached(begun, m, n, 0)
    BY <1>3, <2>1 DEF Reached
  <2> QED
    BY <1>2, <1>3, <1>7, <2>1, <2>2
<1>9. ASSUME NEW i \in Nat, i \in S PROVE i + 1 \in S
  <2> SUFFICES ASSUME i + 1 <= Len(piece) PROVE P(i + 1)
    OBVIOUS
  <2> DEFINE c == piece[i + 1]
  <2> DEFINE a == after[i]
  <2> DEFINE p == n + i
  <2>1. i + 1 \in 0..Len(piece) /\ i + 1 # 0 /\ (i + 1) - 1 = i /\ i + 1 \in 1..Len(piece)
        /\ p \in Nat /\ n + (i + 1) = p + 1
    BY <1>5
  <2>2. c \in Bytes
    BY <1>5, <2>1
  <2>3. after[i + 1] = ExecuteByte(a, c)
    BY <1>4, <2>1
  <2>4. InPiece(a) /\ Reached(a, m, n, i) /\ Has(a, m, After(top, p)) /\ (f.past => a.past)
    BY <1>5, <1>9
  <2>5. ~a.past /\ p < Len(top) => c = top[p + 1]
    <3>1. p < Len(top) => n + (i + 1) <= Len(top)
      BY <1>6, <2>1
    <3> QED
      BY <2>1, <2>4, <3>1 DEF top
  <2> HIDE DEF c, a
  <2>6. Reached(after[i + 1], m, n, i + 1) /\ (a.past => after[i + 1].past)
    <3>1. ~a.past /\ n + i < Len(Top(m)) => c = Top(m)[n + i + 1]
      BY <2>5 DEF top
    <3> QED
      BY <2>2, <2>3, <2>4, <3>1, ExecuteByteReaches
  <2>7. InPiece(after[i + 1])
    BY <2>2, <2>3, <2>4, ExecuteByteKept
  <2>8. ~a.past /\ ~a.ctx.done => ~a.parser.stopped /\ p < Len(top)
    BY <2>4 DEF Reached, Has, top
  <2> HIDE DEF p, P
  <2>9. p < Len(top) => After(top, p)[1] = top[p + 1] /\ After(After(top, p), 1) = After(top, p + 1)
    BY <1>6, <2>1, ComesAfter
  <2>10. Has(after[i + 1], m, After(After(top, p), 1))
    BY <2>2, <2>3, <2>4, <2>5, <2>8, <2>9, ExecuteByteGathers
  <2>11. Has(after[i + 1], m, After(top, p + 1))
    <3>1. CASE p < Len(top)
      BY <2>9, <2>10, <3>1
    <3>2. CASE ~(p < Len(top))
      <4>1. a.past \/ a.ctx.done
        BY <2>8, <3>2
      <4>2. after[i + 1].past \/ after[i + 1].ctx.done
        <5>1. CASE a.past
          BY <2>6, <5>1
        <5>2. CASE ~a.past
          <6>1. a.ctx.done /\ ~a.parser.error /\ ~a.crashed
            BY <2>4, <4>1, <5>2 DEF Has
          <6>2. CASE a.parser.stopped
            BY <2>3, <6>1, <6>2 DEF ExecuteByte
          <6>3. CASE ~a.parser.stopped
            <7>1. Ready(a)
              BY <2>4, <6>1 DEF InPiece, Steady, Ready
            <7>2. Byte(a, c) \in Frames
              BY <2>2, <7>1, ByteKept DEF Kept
            <7>3. after[i + 1].past = (Byte(a, c).past \/ a.ctx.done)
              BY <2>3, <6>1, <6>3, <7>2 DEF ExecuteByte, Frames
            <7> QED
              BY <6>1, <7>3
          <6> QED
            BY <6>2, <6>3
        <5> QED
          BY <5>1, <5>2
      <4> QED
        BY <2>10, <4>2 DEF Has
    <3> QED
      BY <3>1, <3>2
  <2> QED
    BY <2>1, <2>4, <2>6, <2>7, <2>11 DEF P
<1>10. P(Len(piece))
  <2>1. Len(piece) \in S
    <3> HIDE DEF S
    <3> QED
      BY <1>5, <1>8, <1>9, Induction
  <2> QED
    BY <1>5, <2>1
<1>11. /\ InPiece(read) /\ Reached(read, m, n, Len(piece))
       /\ Has(read, m, After(top, n + Len(piece)))
  BY <1>10
<1> HIDE DEF read, S
<1> DEFINE e == Execute(f, piece)
<1>12. CASE read.parser.error \/ read.parser.stopped \/ read.crashed
  <2>1. e = read
    BY <1>1, <1>12
  <2>2. ~read.past => read.ctx.done
    BY <1>11, <1>12 DEF Has, Reached
  <2> HIDE DEF e
  <2> QED
    BY <1>11, <2>1, <2>2 DEF Has, e, top
<1>13. CASE ~(read.parser.error \/ read.parser.stopped \/ read.crashed)
  <2>1. e = CallBack(read)
    BY <1>1, <1>13
  <2>2. /\ Calm(read, e) /\ e.past = read.past /\ e.parser.error = read.parser.error
    BY <1>11, <2>1, CallBackCalm DEF InPiece, Steady
  <2>3. Steady(e)
    BY <1>11, <1>13, <2>1, EndKept
  <2> HIDE DEF e
  <2> SUFFICES ASSUME ~e.past
               PROVE  /\ ~e.crashed /\ ~e.parser.error
                      /\ IF e.ctx.done THEN Whole(e, m)
                         ELSE Gathered(e, m, After(top, n + Len(piece)))
    BY DEF e, top
  <2>4. ~e.crashed /\ ~e.parser.error
    BY <1>13, <2>2, <2>3 DEF Steady, Clear
  <2>5. CASE e.ctx.done
    <3>1. read.ctx.done /\ Whole(read, m)
      BY <1>11, <2>2, <2>5 DEF Has, Calm
    <3>2. read.parser.run = Null
      <4>1. read.parser.state \in {"start", "dead"}
        BY <1>11, <2>2, <3>1 DEF InPiece, Steady, Clear
      <4> QED
        BY <1>11, <1>13, <4>1 DEF InPiece, Running
    <3>3. e = read
      BY <2>1, <3>2, CallBackNone
    <3> QED
      BY <2>4, <2>5, <3>1, <3>3
  <2>6. CASE ~e.ctx.done
    BY <1>11, <2>1, <2>2, <2>4, <2>6 DEF Has, Calm
  <2> QED
    BY <2>5, <2>6
<1> QED
  BY <1>12, <1>13

-----------------------------------------------------------------------------
(* The request that is returned *)

(* The headers are in the list the last one first, so a name is found with *)
(* the last of its values.                                                 *)
LEMMA LastFound ==
    ASSUME NEW m \in Messages, NEW r,
           r.headers = Reverse([i \in DOMAIN m.headers |-> Sent(m.headers[i])]),
           NEW i \in DOMAIN m.headers
    PROVE  LET same == {j \in DOMAIN m.headers :
                          Lower(m.headers[j].name) = Lower(m.headers[i].name)}
               last == CHOOSE j \in same : \A k \in same : k <= j
           IN  GetHeader(r, m.headers[i].name) = Sent(m.headers[last]).value
<1> DEFINE L == Len(m.headers)
<1> DEFINE sent == [j \in DOMAIN m.headers |-> Sent(m.headers[j])]
<1> DEFINE lower == Lower(m.headers[i].name)
<1> DEFINE same == {j \in DOMAIN m.headers : Lower(m.headers[j].name) = lower}
<1> DEFINE found == {k \in DOMAIN r.headers : Lower(r.headers[k].name[1]) = lower}
<1>1. DOMAIN m.headers = 1..L /\ L \in Nat
  BY HeaderText
<1>2. /\ DOMAIN r.headers = 1..L
      /\ \A k \in 1..L : L - k + 1 \in 1..L /\ r.headers[k] = Sent(m.headers[L - k + 1])
  <2>1. Len(sent) = L
    BY <1>1
  <2>2. r.headers = [k \in 1..Len(sent) |-> sent[(Len(sent) - k) + 1]]
    BY DEF Reverse
  <2>3. r.headers = [k \in 1..L |-> sent[(L - k) + 1]]
    BY <2>1, <2>2
  <2>4. \A k \in 1..L : L - k + 1 \in 1..L
    BY <1>1
  <2> HIDE DEF L
  <2> QED
    BY <1>1, <2>3, <2>4
<1>3. \A h : Sent(h).name[1] = h.name
  BY DEF Sent
<1> HIDE DEF L, sent, lower
<1>4. found = {k \in 1..L : Lower(m.headers[L - k + 1].name) = lower}
  BY <1>2, <1>3
<1>5. same = {j \in 1..L : Lower(m.headers[j].name) = lower}
  BY <1>1
<1>6. i \in same /\ i \in 1..L
  BY <1>1 DEF lower
<1> HIDE DEF found, same
<1>7. L - i + 1 \in found
  <2>1. L - i + 1 \in 1..L /\ L - (L - i + 1) + 1 = i
    BY <1>1, <1>6
  <2> QED
    BY <1>4, <1>5, <1>6, <2>1
<1> DEFINE first == Min(found)
<1>8. first \in found /\ \A k \in found : first <= k
  <2>1. found \in SUBSET Nat
    BY <1>4
  <2> QED
    BY <1>7, <2>1, MinFacts
<1> HIDE DEF first
<1> DEFINE end == L - first + 1
<1>9. /\ end \in same
      /\ \A j \in same : j <= end
  <2>1. first \in 1..L /\ end \in 1..L /\ Lower(m.headers[end].name) = lower
    BY <1>1, <1>4, <1>8
  <2>2. ASSUME NEW j \in same PROVE j <= end
    <3>1. j \in 1..L /\ L - j + 1 \in 1..L /\ L - (L - j + 1) + 1 = j
      BY <1>1, <1>5
    <3>2. L - j + 1 \in found
      BY <1>4, <1>5, <3>1
    <3>3. first <= L - j + 1
      BY <1>8, <3>2
    <3> QED
      BY <1>1, <2>1, <3>1, <3>3
  <2> QED
    BY <1>5, <2>1, <2>2
<1>10. (CHOOSE j \in same : \A k \in same : k <= j) = end
  <2> DEFINE last == CHOOSE j \in same : \A k \in same : k <= j
  <2>1. last \in same /\ \A k \in same : k <= last
    BY <1>9
  <2> HIDE DEF last
  <2>2. last \in Nat /\ end \in Nat
    BY <1>5, <1>9, <2>1
  <2> HIDE DEF end
  <2> QED
    BY <1>9, <2>1, <2>2 DEF last
<1>11. GetHeader(r, m.headers[i].name) = r.headers[first].value
  <2>1. found # {}
    BY <1>7
  <2> QED
    BY <2>1 DEF GetHeader, found, lower, first
<1>12. r.headers[first] = Sent(m.headers[end])
  BY <1>2, <1>4, <1>8
<1> HIDE DEF end
<1> QED
  BY <1>10, <1>11, <1>12 DEF same, lower

(* http_request_parse returns the url and the headers it gathered, if the  *)
(* url is valid.                                                           *)
LEMMA ReturnRequest ==
    ASSUME NEW f \in Frames, f.request.url # Null, Return(f, TRUE)
    PROVE  IF UrlValid(f.request.url[1])
           THEN /\ phase' = "parsed" /\ frame'.request.url = f.request.url
                /\ frame'.request.headers = f.request.headers
           ELSE phase' = "failed"
<1>1. CASE UrlValid(f.request.url[1])
  <2> DEFINE parsed == ParseUrl(f.request)
  <2> DEFINE g == [f EXCEPT !.request = parsed, !.allocs = f.allocs + HeldUri(parsed)]
  <2>1. frame' = FreeContext(g) /\ phase' = "parsed"
    BY <1>1 DEF Return
  <2>2. parsed.url = f.request.url /\ parsed.headers = f.request.headers
    BY ParseUrlEffect DEF Frames
  <2>3. g \in Frames
    BY WholeEffect
  <2>4. g.request = parsed
    BY DEF Frames
  <2> HIDE DEF g, parsed
  <2>5. frame'.request = g.request
    BY <2>1, <2>3, FreeContextEffect
  <2> QED
    BY <1>1, <2>1, <2>2, <2>4, <2>5
<1>2. CASE ~UrlValid(f.request.url[1])
  BY <1>2 DEF Return
<1> QED
  BY <1>1, <1>2

(* the beginning of a turn *)
LEMMA TurnGathers ==
    ASSUME TypeOK, Position = 0, frame.request = NoRequest, frame.ctx = NewFrame(0, FALSE).ctx,
           frame.parser.state = "start"
    PROVE  Gathered(frame, Message, After(Top(Message), Position))
<1>1. Top(Message) \in Text
  BY TurnText
<1>2. After(Top(Message), Position) = Top(Message)
  BY <1>1, UntilAfter
<1>3. UrlGathered(frame, Message, Top(Message))
  BY DEF UrlGathered, NoRequest, NewFrame
<1> QED
  BY <1>2, <1>3 DEF Gathered

LEMMA StartPosition ==
    ASSUME TypeOK, stream = Rest(turn - 1)
    PROVE  Position = 0
<1>1. Len(Rest(turn - 1)) \in Nat
  BY TurnText, TextFacts
<1> QED
  BY <1>1 DEF Position

TurnIsNew ==
    /\ stream = Rest(turn - 1) /\ frame.request = NoRequest
    /\ frame.ctx = NewFrame(0, FALSE).ctx /\ frame.parser.state = "start"
    /\ ~frame.parser.error /\ phase = "parse"

LEMMA TurnParsed == TypeOK /\ TurnIsNew => RequestParsed
<1> SUFFICES ASSUME TypeOK, TurnIsNew PROVE RequestParsed
  OBVIOUS
<1>1. Position = 0
  BY StartPosition DEF TurnIsNew
<1>2. Gathered(frame, Message, After(Top(Message), Position))
  BY <1>1, TurnGathers DEF TurnIsNew
<1> QED
  BY <1>2 DEF RequestParsed, TurnIsNew

LEMMA NewFrameIsNew ==
    ASSUME NEW allocs, NEW past
    PROVE  LET f == NewFrame(allocs, past)
           IN  /\ f.request = NoRequest /\ f.ctx = NewFrame(0, FALSE).ctx
               /\ f.parser.state = "start" /\ ~f.parser.error
BY DEF NewFrame

LEMMA InitParsed == Init => RequestParsed
<1> SUFFICES ASSUME Init PROVE RequestParsed
  OBVIOUS
<1>1. TypeOK
  BY InitMemory DEF MemoryKept
<1>2. turn = 1 /\ phase = "parse" /\ frame = NewFrame(0, FALSE)
  BY DEF Init
<1>3. stream = Rest(0)
  BY StreamAtFirst
<1>4. turn - 1 = 0
  BY <1>2
<1>5. TurnIsNew
  BY <1>2, <1>3, <1>4, NewFrameIsNew DEF TurnIsNew
<1> QED
  BY <1>1, <1>5, TurnParsed

LEMMA NextRequestParsed ==
    ASSUME MemoryKept, BodyLeft, NextRequest
    PROVE  RequestParsed'
<1>1. TypeOK /\ TypeOK'
  BY NextRequestMemory DEF MemoryKept
<1>2. /\ phase = "served" /\ phase' = "parse" /\ messages' = messages /\ turn' = turn + 1
      /\ stream' = stream /\ frame' = NewFrame(frame.allocs, frame.past)
  BY DEF NextRequest
<1>3. /\ frame'.request = NoRequest /\ frame'.ctx = NewFrame(0, FALSE).ctx
      /\ frame'.parser.state = "start" /\ ~frame'.parser.error
  BY <1>2, NewFrameIsNew
<1>4. frame'.past = frame.past
  BY <1>2 DEF NewFrame
<1>5. Rest(turn - 1)' = Rest(turn)
  <2>1. turn' - 1 = turn
    BY <1>1, <1>2, MessageText
  <2> QED
    BY <1>2, <2>1 DEF Rest
<1>6. CASE frame.past
  BY <1>4, <1>6 DEF RequestParsed
<1>7. CASE ~frame.past
  <2>1. stream = Rest(turn)
    BY <1>2, <1>7 DEF BodyLeft
  <2>2. TurnIsNew'
    <3>1. NewFrame(0, FALSE)' = NewFrame(0, FALSE)
      BY DEF NewFrame, NoRequest
    <3> QED
      BY <1>2, <1>3, <1>5, <2>1, <3>1 DEF TurnIsNew
  <2>3. TypeOK' /\ TurnIsNew' => RequestParsed'
    BY TurnParsed, PTL
  <2> QED
    BY <1>1, <2>2, <2>3
<1> QED
  BY <1>6, <1>7

(* The next n bytes of a connection are the next ones of the message. *)
LEMMA PieceComes ==
    ASSUME MemoryKept, BodyLeft, phase = "parse", NEW n \in Nat \ {0},
           n <= Len(stream)
    PROVE  LET piece == SubSeq(stream, 1, n)
               top == Top(Message)
           IN  /\ piece \in Text /\ Len(piece) = n /\ Steady(frame) /\ ~frame.ctx.done
               /\ ~frame.past =>
                     /\ Position \in Nat /\ Position < Len(top) /\ ~frame.parser.stopped
                     /\ InStep(frame.parser.state, Message, Position)
                     /\ \A k \in 1..n : Position + k <= Len(top) => piece[k] = top[Position + k]
<1> DEFINE text == Rest(turn - 1)
<1> DEFINE top == Top(Message)
<1> DEFINE left == Message.body \o Rest(turn)
<1> DEFINE piece == SubSeq(stream, 1, n)
<1> DEFINE p == Position
<1>1. stream \in Text /\ Len(stream) \in Nat /\ TypeOK
  BY TextFacts DEF MemoryKept, TypeOK
<1>2. /\ top \in Text /\ left \in Text /\ text = top \o left /\ text \in Text
  BY <1>1, TurnText
<1>3. piece \in Text /\ Len(piece) = n /\ \A k \in 1..n : piece[k] = stream[k]
  <2>1. \A i \in 1..n : stream[i] \in Bytes
    BY <1>1, TextFacts
  <2>2. 1 \in Int /\ n \in Int
    OBVIOUS
  <2>3. /\ piece \in Seq(Bytes) /\ Len(piece) = IF 1 <= n THEN n - 1 + 1 ELSE 0
        /\ \A i \in 1..(n - 1 + 1) : piece[i] = stream[1 + i - 1]
    BY <2>1, <2>2, SubSeqProperties
  <2> HIDE DEF piece
  <2>4. n - 1 + 1 = n /\ 1 <= n /\ \A i \in 1..n : 1 + i - 1 = i
    OBVIOUS
  <2> QED
    BY <2>3, <2>4 DEF Text
<1>4. Steady(frame) /\ ~frame.ctx.done
  BY FrameSteady DEF MemoryKept, ContextTidy
<1> HIDE DEF piece
<1>5. ASSUME ~frame.past
      PROVE  /\ p \in Nat /\ p < Len(top) /\ ~frame.parser.stopped
             /\ InStep(frame.parser.state, Message, p)
             /\ \A k \in 1..n : p + k <= Len(top) => piece[k] = top[p + k]
  <2>1. /\ p \in Nat /\ p < Len(top) /\ stream = SubSeq(text, p + 1, Len(text))
        /\ InStep(frame.parser.state, Message, p) /\ ~frame.parser.stopped
    <3>1. Len(top) \in Nat
      BY <1>2, TextFacts
    <3> QED
      BY <1>5, <3>1 DEF BodyLeft, ParserInStep
  <2> HIDE DEF p, text, top, left
  <2>2. /\ Len(top) \in Nat /\ Len(left) \in Nat /\ Len(text) = Len(top) + Len(left)
        /\ \A k \in 1..Len(top) : text[k] = top[k]
    <3>1. /\ Len(text) = Len(top) + Len(left) /\ Len(top) \in Nat /\ Len(left) \in Nat
          /\ \A i \in 1..(Len(top) + Len(left)) :
                text[i] = IF i <= Len(top) THEN top[i] ELSE left[i - Len(top)]
      BY <1>2, ConcatProperties, TextFacts DEF Text
    <3> QED
      BY <3>1
  <2>3. \A k \in 1..Len(stream) : stream[k] = text[p + k]
    <3>1. p \in 0..Len(text)
      BY <2>1, <2>2
    <3> DEFINE t == SubSeq(text, p + 1, Len(text))
    <3>2. \A k \in 1..Len(t) : t[k] = text[p + k]
      BY <1>2, <3>1, Suffix
    <3>3. stream = t
      BY <2>1
    <3> HIDE DEF t
    <3> QED
      BY <3>2, <3>3
  <2>4. ASSUME NEW k \in 1..n, p + k <= Len(top) PROVE piece[k] = top[p + k]
    <3>1. k \in 1..Len(stream) /\ p + k \in 1..Len(top)
      BY <1>1, <2>1, <2>2, <2>4
    <3> QED
      BY <1>3, <2>2, <2>3, <3>1
  <2> QED
    BY <2>1, <2>4 DEF top
<1> QED
  BY <1>3, <1>4, <1>5 DEF piece

(* the request r that is returned for message m *)
AsSent(r, m) ==
    /\ r.url = <<m.url>>
    /\ r.headers = Reverse([i \in DOMAIN m.headers |-> Sent(m.headers[i])])
    /\ \A i \in DOMAIN m.headers :
          LET same == {j \in DOMAIN m.headers :
                         Lower(m.headers[j].name) = Lower(m.headers[i].name)}
              last == CHOOSE j \in same : \A k \in same : k <= j
          IN  GetHeader(r, m.headers[i].name) = Sent(m.headers[last]).value

LEMMA ReadParsed ==
    ASSUME MemoryKept, BodyLeft, RequestParsed, NEW n \in 1..BufferSize, Read(n)
    PROVE  RequestParsed'
<1> DEFINE piece == SubSeq(stream, 1, n)
<1> DEFINE f == Execute(frame, piece)
<1> DEFINE put == IF f.ctx.done THEN n - f.parser.size ELSE 0
<1> DEFINE p == Position
<1> DEFINE m == Message
<1>1. /\ n \in Nat \ {0} /\ n <= Len(stream) /\ stream \in Text /\ Len(stream) \in Nat /\ TypeOK
  BY HttpAssumption, TextFacts DEF MemoryKept, TypeOK, Read
<1>2. /\ phase = "parse" /\ messages' = messages /\ turn' = turn
      /\ stream' = SubSeq(stream, n - put + 1, Len(stream))
      /\ IF f.crashed THEN frame' = f /\ phase' = "crashed"
         ELSE IF f.parser.error THEN Return(f, FALSE)
         ELSE IF f.ctx.done THEN Return(f, TRUE)
         ELSE frame' = f /\ phase' = phase
  BY DEF Read
<1>3. /\ piece \in Text /\ Len(piece) = n /\ Steady(frame) /\ ~frame.ctx.done
      /\ ~frame.past =>
            /\ p \in Nat /\ p < Len(Top(m)) /\ ~frame.parser.stopped
            /\ InStep(frame.parser.state, m, p)
            /\ \A k \in 1..n : p + k <= Len(Top(m)) => piece[k] = Top(m)[p + k]
  BY <1>1, <1>2, PieceComes
<1>4. m \in Messages /\ EndsOnce(m) /\ m' = m /\ Rest(turn - 1)' = Rest(turn - 1)
  BY <1>1, <1>2, TurnText, SameTurn
<1>5. Steady(f) /\ f \in Frames /\ (frame.past => f.past)
  <2>1. Steady(f)
    BY <1>3, ExecuteSteady
  <2>2. ASSUME frame.past PROVE f.past
    BY <1>3, <1>4, <2>2, ExecuteReaches, 0 \in Nat
  <2> QED
    BY <2>1, <2>2 DEF Steady
<1>6. frame'.past = f.past
  BY <1>2, <1>5, ReturnOutside
<1> SUFFICES ASSUME ~f.past, WellFormed(m) PROVE RequestParsed'
  BY <1>4, <1>6 DEF RequestParsed
<1>7. ~frame.past /\ ~frame.parser.error /\ Gathered(frame, m, After(Top(m), p))
  BY <1>2, <1>5 DEF RequestParsed
<1>8. /\ ~f.crashed /\ ~f.parser.error
      /\ IF f.ctx.done THEN Whole(f, m) ELSE Gathered(f, m, After(Top(m), p + n))
  BY <1>3, <1>4, <1>7, ExecuteGathers
<1> HIDE DEF piece, f, p
<1>9. CASE f.ctx.done
  <2>1. Return(f, TRUE)
    BY <1>2, <1>8, <1>9
  <2>2. f.request.url = <<m.url>> /\ f.request.headers = Taken(m, Len(m.headers))
    BY <1>8, <1>9 DEF Whole
  <2>3. f.request.url # Null /\ f.request.url[1] = m.url
    BY <2>2 DEF Null
  <2>4. IF UrlValid(m.url)
        THEN /\ phase' = "parsed" /\ frame'.request.url = <<m.url>>
             /\ frame'.request.headers = Taken(m, Len(m.headers))
        ELSE phase' = "failed"
    BY <1>5, <2>1, <2>2, <2>3, ReturnRequest
  <2>5. Taken(m, Len(m.headers)) = Reverse([i \in DOMAIN m.headers |-> Sent(m.headers[i])])
    BY <1>4, TakenFacts
  <2> HIDE DEF m
  <2>6. CASE UrlValid(m.url)
    <3>1. frame'.request.headers = Reverse([i \in DOMAIN m.headers |-> Sent(m.headers[i])])
      BY <2>4, <2>5, <2>6
    <3> DEFINE r == frame'.request
    <3>2. r.url = <<m.url>> /\ r.headers = Reverse([i \in DOMAIN m.headers |-> Sent(m.headers[i])])
      BY <2>4, <2>6, <3>1
    <3> HIDE DEF r
    <3>3. AsSent(r, m)
      BY <1>4, <3>2, LastFound, Zenon DEF AsSent
    <3>4. phase' = "parsed" /\ Message' = m
      BY <1>4, <2>4, <2>6 DEF m
    <3>5. AsSent(frame'.request, Message')
      BY <3>3, <3>4, Zenon DEF r
    <3>6. /\ frame'.request.url = <<Message'.url>>
          /\ frame'.request.headers
                = Reverse([i \in DOMAIN Message'.headers |-> Sent(Message'.headers[i])])
          /\ \A i \in DOMAIN Message'.headers :
                LET same == {j \in DOMAIN Message'.headers :
                               Lower(Message'.headers[j].name) = Lower(Message'.headers[i].name)}
                    last == CHOOSE j \in same : \A k \in same : k <= j
                IN  GetHeader(frame'.request, Message'.headers[i].name)
                        = Sent(Message'.headers[last]).value
      BY <3>5, Zenon DEF AsSent
    <3>7. phase' # "parse" /\ phase' # "crashed" /\ phase' # "failed"
      BY <3>4
    <3> QED
      BY <3>6, <3>7, Zenon DEF RequestParsed
  <2>7. CASE ~UrlValid(m.url)
    BY <1>4, <2>4, <2>7 DEF RequestParsed, m
  <2> QED
    BY <2>6, <2>7
<1>10. CASE ~f.ctx.done
  <2>1. frame' = f /\ phase' = "parse" /\ n - put + 1 = n + 1
    BY <1>1, <1>2, <1>8, <1>10
  <2>2. stream' = SubSeq(stream, n + 1, Len(stream))
    BY <1>2, <2>1
  <2>3. Len(stream') = Len(stream) - n
    BY <1>1, <2>2, Suffix
  <2>4. Position' = p + n
    <3>1. Len(Rest(turn - 1)) \in Nat
      BY <1>1, TurnText, TextFacts
    <3>2. Position' = Len(Rest(turn - 1)) - Len(stream')
      BY <1>4 DEF Position
    <3> QED
      BY <1>1, <2>3, <3>1, <3>2 DEF Position, p
  <2>5. Gathered(f, m, After(Top(m), p + n))
    BY <1>8, <1>10
  <2>6. /\ Gathered(frame, Message, After(Top(Message), Position))'
        /\ ~frame'.parser.error
    BY <1>4, <1>8, <2>1, <2>4, <2>5
  <2> QED
    BY <2>1, <2>6 DEF RequestParsed
<1> QED
  BY <1>9, <1>10

LEMMA NextParsed ==
    ASSUME MemoryKept, BodyLeft, RequestParsed, [Next]_vars
    PROVE  RequestParsed'
<1>1. CASE \E n \in 1..BufferSize : Read(n)
  BY <1>1, ReadParsed
<1>2. CASE ReadFails
  BY <1>2 DEF ReadFails, RequestParsed
<1>3. CASE Served
  BY <1>3 DEF Served, RequestParsed
<1>4. CASE NextRequest
  BY <1>4, NextRequestParsed
<1>5. CASE UNCHANGED vars
  <2>1. /\ messages' = messages /\ turn' = turn /\ stream' = stream /\ frame' = frame
        /\ phase' = phase
    BY <1>5 DEF vars
  <2>2. Message' = Message /\ Position' = Position
    BY <2>1 DEF Message, Position, Rest
  <2> QED
    BY <2>1, <2>2 DEF RequestParsed
<1> QED
  BY <1>1, <1>2, <1>3, <1>4, <1>5 DEF Next

(* However the bytes of a request are cut into reads, http_request_parse   *)
(* returns the url and the headers the client sent: no piece of a name or  *)
(* a value is lost, doubled or put elsewhere, a name is found with the     *)
(* last of its values, and no well-formed request is refused.  It is so    *)
(* for every conversation and every size of the buffer, as long as no read *)
(* goes on behind the headers of a request.                                *)
THEOREM RequestAsSent == Spec => []RequestParsed
<1>1. Init => MemoryKept /\ BodyLeft /\ RequestParsed
  BY InitBody, InitParsed
<1>2. MemoryKept /\ BodyLeft /\ RequestParsed /\ [Next]_vars
          => MemoryKept' /\ BodyLeft' /\ RequestParsed'
  BY NextMemory, NextBody, NextParsed
<1> QED
  BY <1>1, <1>2, PTL DEF Spec
=============================================================================
