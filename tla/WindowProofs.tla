---------------------------- MODULE WindowProofs -----------------------------
(***************************************************************************)
(* Proofs about Window: the program of examples/openGl on X11 or on the    *)
(* bare display, for every list of modes, size of the keyboard map, size   *)
(* of the buffer, and number of inputs.                                    *)
(*                                                                         *)
(* The four theorems rest on three inductive invariants.  Balance is about *)
(* the requests that are on their way to the X server, WindowInv about the *)
(* resources and the display's buffers at every place of the program,      *)
(* Streaming about the units on their way from the server.  Recursive      *)
(* functions are reasoned about through the equation that defines them,    *)
(* which is shown to have a solution by induction on a set of numbers.     *)
(***************************************************************************)
EXTENDS Window, NaturalsInduction, WellFoundedInduction, SequenceTheorems, TLAPS

-----------------------------------------------------------------------------
(***************************************************************************)
(* The pointer.                                                            *)
(***************************************************************************)

\* A set of numbers has a least one.
LEMMA LeastNatural ==
  ASSUME NEW T, T \subseteq Nat, T # {}
  PROVE  \E x \in T : \A y \in T : x <= y
<1>1. PICK x \in T : \A y \in T : ~(<<y, x>> \in OpToRel(<, Nat))
  BY WFMin, NatLessThanWellFounded
<1>2. ASSUME NEW y \in T PROVE x <= y
  <2>1. x \in Nat /\ y \in Nat
    OBVIOUS
  <2>2. ~(y < x)
    BY <1>1, <2>1 DEF OpToRel
  <2>3. QED
    BY <2>1, <2>2
<1>3. QED
  BY <1>2

\* Induction, for a set of numbers.
LEMMA Counting ==
  ASSUME NEW T, 0 \in T, \A n \in Nat : n \in T => n + 1 \in T
  PROVE  \A n \in Nat : n \in T
<1> DEFINE U == Nat \ T
<1> SUFFICES ASSUME U # {} PROVE FALSE
  OBVIOUS
<1>1. PICK x \in U : \A y \in U : x <= y
  BY LeastNatural
<1>2. x # 0 /\ x \in Nat
  BY <1>1
<1>3. x - 1 \in Nat /\ x - 1 \notin U /\ (x - 1) + 1 = x
  BY <1>1, <1>2
<1>4. x - 1 \in T
  BY <1>3
<1>5. x \in T
  BY <1>3, <1>4
<1>6. QED
  BY <1>5

\* What the X server knows of the window.
ServerStates == [grabbed : BOOLEAN, hidden : Int, selected : BOOLEAN, mapped : BOOLEAN]

\* What the program ever asks of the server.
Requests == {"grabPointer", "hideCursor", "selectMotion", "ungrabPointer", "showCursor",
             "selectNothing", "sendEvent", "changeProperty", "queryVersion", "mapWindow"}

\* The inductive invariant of the pointer: after every prefix of the requests on their way the
\* cursor is hidden at most once, and after all of them it is as the program believes.
Balance ==
  LET after == After(server, requests) IN
  /\ server \in ServerStates /\ requests \in Seq(Requests) /\ pointerGrabbed \in BOOLEAN
  /\ \A k \in 0 .. Len(requests) : after[k].hidden \in {0, 1}
  /\ after[Len(requests)].hidden = IF pointerGrabbed THEN 1 ELSE 0
  /\ after[Len(requests)].selected = pointerGrabbed

\* After, as the equation that its recursive function satisfies.
IsAfter(f, s, r, n) == f = [k \in 0 .. n |-> IF k = 0 THEN s ELSE Effect(f[k - 1], r[k])]

\* What After is: the server's state, and each request carried out on the state before it.
LEMMA AfterExists ==
  ASSUME NEW s, NEW r
  PROVE  \A n \in Nat : \E f : IsAfter(f, s, r, n)
<1> DEFINE T == {n \in Nat : \E f : IsAfter(f, s, r, n)}
<1>1. 0 \in T
  <2> DEFINE f == [k \in 0 .. 0 |-> s]
  <2>1. f = [k \in 0 .. 0 |-> IF k = 0 THEN s ELSE Effect(f[k - 1], r[k])]
    OBVIOUS
  <2> HIDE DEF f
  <2>2. IsAfter(f, s, r, 0)
    BY <2>1 DEF IsAfter
  <2>3. QED
    BY <2>2
<1>2. ASSUME NEW n \in Nat, n \in T PROVE n + 1 \in T
  <2>0. PICK f : IsAfter(f, s, r, n)
    BY <1>2
  <2>1. f = [k \in 0 .. n |-> IF k = 0 THEN s ELSE Effect(f[k - 1], r[k])]
    BY <2>0 DEF IsAfter
  <2> DEFINE g == [k \in 0 .. n + 1 |-> IF k <= n THEN f[k] ELSE Effect(f[n], r[n + 1])]
             h == [k \in 0 .. n + 1 |-> IF k = 0 THEN s ELSE Effect(g[k - 1], r[k])]
  <2>2. ASSUME NEW k \in 0 .. n + 1 PROVE g[k] = h[k]
    <3>1. CASE k = 0
      <4>1. g[k] = f[k] /\ f[k] = s
        BY <2>1, <3>1
      <4>2. QED
        BY <3>1, <4>1
    <3>2. CASE k \in 1 .. n
      <4>1. k \in 0 .. n /\ k - 1 \in 0 .. n /\ k # 0 /\ k - 1 \in 0 .. n + 1 /\ k - 1 <= n /\ k <= n
        BY <3>2
      <4>2. f[k] = Effect(f[k - 1], r[k])
        BY <2>1, <4>1
      <4>3. g[k - 1] = f[k - 1] /\ g[k] = f[k]
        BY <4>1
      <4>4. QED
        BY <4>1, <4>2, <4>3
    <3>3. CASE k = n + 1
      <4>1. k - 1 = n /\ n \in 0 .. n + 1 /\ ~(k <= n) /\ k # 0
        BY <3>3
      <4>2. g[k - 1] = f[n]
        BY <4>1
      <4>3. QED
        BY <3>3, <4>1, <4>2
    <3>4. QED
      BY <3>1, <3>2, <3>3
  <2>3. g = h
    BY <2>2
  <2>4. g = [k \in 0 .. n + 1 |-> IF k = 0 THEN s ELSE Effect(g[k - 1], r[k])]
    BY <2>3
  <2> HIDE DEF g
  <2>5. IsAfter(g, s, r, n + 1)
    BY <2>4 DEF IsAfter
  <2>6. QED
    BY <2>5
<1>3. QED
  <2>1. \A n \in Nat : n \in T
    BY <1>1, <1>2, Counting
  <2>2. QED
    BY <2>1

\* After satisfies its equation.
LEMMA AfterFacts ==
  ASSUME NEW s, NEW r, Len(r) \in Nat
  PROVE  /\ DOMAIN After(s, r) = 0 .. Len(r)
         /\ After(s, r)[0] = s
         /\ \A k \in 1 .. Len(r) : After(s, r)[k] = Effect(After(s, r)[k - 1], r[k])
<1> DEFINE a == After(s, r)
<1>1. PICK f : f = [k \in 0 .. Len(r) |-> IF k = 0 THEN s ELSE Effect(f[k - 1], r[k])]
  <2>1. PICK f : IsAfter(f, s, r, Len(r))
    BY AfterExists
  <2>2. QED
    BY <2>1, Zenon DEF IsAfter
<1>2. a = [k \in 0 .. Len(r) |-> IF k = 0 THEN s ELSE Effect(a[k - 1], r[k])]
  BY <1>1, Zenon DEF After
<1> HIDE DEF a
<1>3. DOMAIN a = 0 .. Len(r) /\ a[0] = s
  BY <1>2
<1>4. \A k \in 1 .. Len(r) : a[k] = Effect(a[k - 1], r[k])
  BY <1>2
<1>5. QED
  BY <1>3, <1>4 DEF a

\* What a request does to the pointer's part of the state.
Hides(hidden, request) ==
  IF request = "hideCursor" THEN hidden + 1
  ELSE IF request = "showCursor" THEN hidden - 1 ELSE hidden
\* What a request does to the selection of motion events.
Selects(selected, request) ==
  IF request = "selectMotion" THEN TRUE
  ELSE IF request = "selectNothing" THEN FALSE ELSE selected

\* The state stays one, whatever was requested.
LEMMA EffectType ==
  ASSUME NEW s \in ServerStates, NEW request
  PROVE  /\ Effect(s, request) \in ServerStates
         /\ Effect(s, request).hidden = Hides(s.hidden, request)
         /\ Effect(s, request).selected = Selects(s.selected, request)
<1> DEFINE e == Effect(s, request)
<1>2. CASE request = "hideCursor"
  <2>1. e = [s EXCEPT !.hidden = @ + 1]
    BY <1>2 DEF Effect
  <2>2. QED
    BY <1>2, <2>1 DEF ServerStates, Hides, Selects
<1>3. CASE request = "showCursor"
  <2>1. e = [s EXCEPT !.hidden = @ - 1]
    BY <1>3 DEF Effect
  <2>2. QED
    BY <1>3, <2>1 DEF ServerStates, Hides, Selects
<1>4. CASE request = "selectMotion"
  <2>1. e = [s EXCEPT !.selected = TRUE]
    BY <1>4 DEF Effect
  <2>2. QED
    BY <1>4, <2>1 DEF ServerStates, Hides, Selects
<1>5. CASE request = "selectNothing"
  <2>1. e = [s EXCEPT !.selected = FALSE]
    BY <1>5 DEF Effect
  <2>2. QED
    BY <1>5, <2>1 DEF ServerStates, Hides, Selects
<1>6. CASE request = "ungrabPointer"
  <2>1. e = [s EXCEPT !.grabbed = FALSE]
    BY <1>6 DEF Effect
  <2>2. QED
    BY <1>6, <2>1 DEF ServerStates, Hides, Selects
<1>7. CASE request = "mapWindow"
  <2>1. e = [s EXCEPT !.mapped = TRUE]
    BY <1>7 DEF Effect
  <2>2. QED
    BY <1>7, <2>1 DEF ServerStates, Hides, Selects
<1>8. CASE request \notin {"hideCursor", "showCursor", "selectMotion", "selectNothing",
                           "ungrabPointer", "mapWindow"}
  <2>1. e = s
    BY <1>8 DEF Effect
  <2>2. QED
    BY <1>8, <2>1 DEF ServerStates, Hides, Selects
<1>9. QED
  BY <1>2, <1>3, <1>4, <1>5, <1>6, <1>7, <1>8

\* Every prefix of the requests leaves a state of the server.
LEMMA AfterTypes ==
  ASSUME NEW s \in ServerStates, NEW r, Len(r) \in Nat
  PROVE  \A k \in 0 .. Len(r) : After(s, r)[k] \in ServerStates
<1> DEFINE T == {n \in Nat : n <= Len(r) => After(s, r)[n] \in ServerStates}
<1>1. 0 \in T
  BY AfterFacts
<1>2. ASSUME NEW n \in Nat, n \in T PROVE n + 1 \in T
  <2> SUFFICES ASSUME n + 1 <= Len(r) PROVE After(s, r)[n + 1] \in ServerStates
    OBVIOUS
  <2>1. n + 1 \in 1 .. Len(r) /\ (n + 1) - 1 = n /\ n <= Len(r)
    OBVIOUS
  <2>2. After(s, r)[n + 1] = Effect(After(s, r)[n], r[n + 1])
    BY <2>1, AfterFacts
  <2>3. After(s, r)[n] \in ServerStates
    BY <1>2, <2>1
  <2>4. Effect(After(s, r)[n], r[n + 1]) \in ServerStates
    BY <2>3, EffectType, Zenon
  <2>5. QED
    BY <2>2, <2>4
<1>3. \A n \in Nat : n \in T
  BY <1>1, <1>2, Counting
<1>4. QED
  BY <1>3

\* More requests do not change what the earlier ones did.
LEMMA AfterPrefix ==
  ASSUME NEW s, NEW r \in Seq(Requests), NEW t \in Seq(Requests)
  PROVE  \A k \in 0 .. Len(r) : After(s, r \o t)[k] = After(s, r)[k]
<1> DEFINE q == r \o t
           T == {n \in Nat : n <= Len(r) => After(s, q)[n] = After(s, r)[n]}
<1>1. /\ Len(q) = Len(r) + Len(t) /\ Len(r) \in Nat /\ Len(t) \in Nat
      /\ \A i \in 1 .. Len(r) : q[i] = r[i]
  OBVIOUS
<1> HIDE DEF q
<1>2. /\ Len(q) \in Nat /\ After(s, q)[0] = s /\ After(s, r)[0] = s
      /\ \A k \in 1 .. Len(q) : After(s, q)[k] = Effect(After(s, q)[k - 1], q[k])
      /\ \A k \in 1 .. Len(r) : After(s, r)[k] = Effect(After(s, r)[k - 1], r[k])
  BY <1>1, AfterFacts
<1>3. 0 \in T
  BY <1>2
<1>4. ASSUME NEW n \in Nat, n \in T PROVE n + 1 \in T
  <2> SUFFICES ASSUME n + 1 <= Len(r) PROVE After(s, q)[n + 1] = After(s, r)[n + 1]
    OBVIOUS
  <2>1. n + 1 \in 1 .. Len(r) /\ n + 1 \in 1 .. Len(q) /\ (n + 1) - 1 = n /\ n <= Len(r)
    BY <1>1
  <2>2. After(s, q)[n + 1] = Effect(After(s, q)[n], q[n + 1])
    BY <1>2, <2>1
  <2>3. After(s, r)[n + 1] = Effect(After(s, r)[n], r[n + 1])
    BY <1>2, <2>1
  <2>4. QED
    BY <1>1, <1>4, <2>1, <2>2, <2>3
<1>5. \A n \in Nat : n \in T
  BY <1>3, <1>4, Counting
<1>6. QED
  BY <1>5 DEF q

\* Of the state, the pointer's part.
SamePointer(s, t) == s.hidden = t.hidden /\ s.selected = t.selected

\* The request that is carried out moves from the queue to the state.
LEMMA AfterTail ==
  ASSUME NEW s \in ServerStates, NEW u \in ServerStates, NEW r \in Seq(Requests), r # <<>>,
         SamePointer(u, Effect(s, Head(r)))
  PROVE  \A k \in 0 .. Len(r) - 1 : SamePointer(After(u, Tail(r))[k], After(s, r)[k + 1])
<1> DEFINE q == Tail(r)
           T == {n \in Nat : n <= Len(r) - 1 => SamePointer(After(u, q)[n], After(s, r)[n + 1])}
<1>1. /\ Len(r) \in Nat \ {0} /\ Len(q) = Len(r) - 1 /\ Len(q) \in Nat /\ Head(r) = r[1]
      /\ \A i \in 1 .. Len(q) : q[i] = r[i + 1]
  OBVIOUS
<1> HIDE DEF q
<1>2. /\ After(u, q)[0] = u /\ After(s, r)[0] = s
      /\ \A k \in 1 .. Len(q) : After(u, q)[k] = Effect(After(u, q)[k - 1], q[k])
      /\ \A k \in 1 .. Len(r) : After(s, r)[k] = Effect(After(s, r)[k - 1], r[k])
      /\ \A k \in 0 .. Len(q) : After(u, q)[k] \in ServerStates
      /\ \A k \in 0 .. Len(r) : After(s, r)[k] \in ServerStates
  BY <1>1, AfterFacts, AfterTypes, SMTT(40)
<1>3. 0 \in T
  <2>1. After(s, r)[1] = Effect(After(s, r)[1 - 1], r[1]) /\ 1 - 1 = 0 /\ 0 + 1 = 1
    BY <1>1, <1>2
  <2>2. After(s, r)[0 + 1] = Effect(s, Head(r))
    BY <1>1, <1>2, <2>1
  <2>3. QED
    BY <1>2, <2>2
<1>4. ASSUME NEW n \in Nat, n \in T PROVE n + 1 \in T
  <2> SUFFICES ASSUME n + 1 <= Len(r) - 1
               PROVE  SamePointer(After(u, q)[n + 1], After(s, r)[(n + 1) + 1])
    OBVIOUS
  <2>1. /\ n + 1 \in 1 .. Len(q) /\ (n + 1) - 1 = n /\ (n + 1) + 1 \in 1 .. Len(r)
        /\ ((n + 1) + 1) - 1 = n + 1 /\ n \in 0 .. Len(q) /\ n + 1 \in 0 .. Len(r) /\ n <= Len(r) - 1
    BY <1>1
  <2>2. After(u, q)[n + 1] = Effect(After(u, q)[n], q[n + 1])
    BY <1>2, <2>1
  <2>3. After(s, r)[(n + 1) + 1] = Effect(After(s, r)[n + 1], r[(n + 1) + 1])
    BY <1>2, <2>1
  <2>4. q[n + 1] = r[(n + 1) + 1]
    BY <1>1, <2>1
  <2>5. SamePointer(After(u, q)[n], After(s, r)[n + 1])
    BY <1>4, <2>1
  <2>6. After(u, q)[n] \in ServerStates /\ After(s, r)[n + 1] \in ServerStates
    BY <1>2, <2>1
  <2>7. ASSUME NEW x \in ServerStates, NEW y \in ServerStates, SamePointer(x, y), NEW request
        PROVE  SamePointer(Effect(x, request), Effect(y, request))
    <3>1. /\ Effect(x, request).hidden = Hides(x.hidden, request)
          /\ Effect(x, request).selected = Selects(x.selected, request)
      BY EffectType, Zenon
    <3>2. /\ Effect(y, request).hidden = Hides(y.hidden, request)
          /\ Effect(y, request).selected = Selects(y.selected, request)
      BY EffectType, Zenon
    <3>3. QED
      BY <2>7, <3>1, <3>2 DEF SamePointer
  <2>8. QED
    BY <2>2, <2>3, <2>4, <2>5, <2>6, <2>7
<1>5. \A n \in Nat : n \in T
  BY <1>3, <1>4, Counting
<1>6. QED
  BY <1>1, <1>5 DEF q

\* Where the queue stands, as Balance sees it: n requests behind the old ones.
LEMMA BehindQueue ==
  ASSUME Balance, NEW t \in Seq(Requests), NEW n \in 1 .. Len(t)
  PROVE  LET a == After(server, requests \o t) IN
         /\ Len(requests) + n - 1 \in 0 .. Len(requests \o t)
         /\ a[Len(requests) + n - 1] \in ServerStates
         /\ a[Len(requests) + n] \in ServerStates
         /\ a[Len(requests) + n].hidden = Hides(a[Len(requests) + n - 1].hidden, t[n])
         /\ a[Len(requests) + n].selected = Selects(a[Len(requests) + n - 1].selected, t[n])
<1> DEFINE q == requests \o t
           a == After(server, q)
           m == Len(requests) + n
<1>1. /\ requests \in Seq(Requests) /\ server \in ServerStates
      /\ Len(requests) \in Nat /\ Len(t) \in Nat
  BY DEF Balance
<1>2. Len(q) = Len(requests) + Len(t) /\ q[m] = t[n] /\ m \in Nat
  BY <1>1
<1> HIDE DEF q
<1>3. m \in 1 .. Len(q) /\ m - 1 \in 0 .. Len(q) /\ m \in 0 .. Len(q) /\ Len(q) \in Nat
  BY <1>1, <1>2
<1>4. a[m - 1] \in ServerStates /\ a[m] \in ServerStates
  BY <1>1, <1>3, AfterTypes
<1>5. a[m] = Effect(a[m - 1], q[m])
  BY <1>3, AfterFacts
<1> HIDE DEF a, m
<1>6. /\ a[m].hidden = Hides(a[m - 1].hidden, t[n])
      /\ a[m].selected = Selects(a[m - 1].selected, t[n])
  <2>1. /\ Effect(a[m - 1], t[n]).hidden = Hides(a[m - 1].hidden, t[n])
        /\ Effect(a[m - 1], t[n]).selected = Selects(a[m - 1].selected, t[n])
    BY <1>4, EffectType, Zenon
  <2>2. QED
    BY <1>2, <1>5, <2>1
<1>7. QED
  BY <1>3, <1>4, <1>6 DEF a, m, q

\* Requests that have nothing to do with the pointer.
LEMMA QuietBalance ==
  ASSUME Balance, NEW t \in Seq(Requests),
         \A i \in 1 .. Len(t) : t[i] \notin {"hideCursor", "showCursor", "selectMotion", "selectNothing"},
         requests' = requests \o t, UNCHANGED <<server, pointerGrabbed>>
  PROVE  Balance'
<1> DEFINE q == requests \o t
           a == After(server, q)
           L == Len(requests)
           T == {n \in Nat : n <= Len(t) => a[L + n].hidden = a[L].hidden /\ a[L + n].selected = a[L].selected}
<1>1. requests \in Seq(Requests) /\ L \in Nat /\ Len(t) \in Nat
  BY DEF Balance
<1>2. Len(q) = L + Len(t) /\ q \in Seq(Requests)
  BY <1>1
<1>3. \A k \in 0 .. L : a[k] = After(server, requests)[k]
  BY <1>1, AfterPrefix
<1>4. ASSUME NEW n \in Nat, n \in T PROVE n + 1 \in T
  <2> SUFFICES ASSUME n + 1 <= Len(t)
               PROVE  a[L + (n + 1)].hidden = a[L].hidden /\ a[L + (n + 1)].selected = a[L].selected
    OBVIOUS
  <2>1. n + 1 \in 1 .. Len(t) /\ L + (n + 1) - 1 = L + n
    BY <1>1
  <2>2. /\ a[L + (n + 1)].hidden = Hides(a[L + n].hidden, t[n + 1])
        /\ a[L + (n + 1)].selected = Selects(a[L + n].selected, t[n + 1])
    BY <2>1, BehindQueue
  <2>3. a[L + n].hidden = a[L].hidden /\ a[L + n].selected = a[L].selected
    BY <1>4, <2>1
  <2>4. t[n + 1] \notin {"hideCursor", "showCursor", "selectMotion", "selectNothing"}
    BY <2>1
  <2> HIDE DEF a, L
  <2>5. QED
    BY <2>2, <2>3, <2>4 DEF Hides, Selects
<1>5. 0 \in T
  BY <1>1
<1>6. \A n \in Nat : n \in T
  BY <1>4, <1>5, Counting
<1> HIDE DEF a
<1>7. ASSUME NEW k \in 0 .. Len(q) PROVE a[k].hidden \in {0, 1}
  <2>1. CASE k \in 0 .. L
    BY <1>3, <2>1 DEF Balance
  <2>2. CASE k \in L + 1 .. Len(q)
    <3>1. k - L \in Nat /\ L + (k - L) = k /\ k - L <= Len(t) /\ L \in 0 .. L
      BY <1>1, <1>2, <2>2
    <3>2. a[k].hidden = a[L].hidden
      BY <1>6, <3>1
    <3>3. QED
      BY <1>3, <3>1, <3>2 DEF Balance
  <2>3. QED
    BY <1>1, <1>2, <2>1, <2>2
<1>8. /\ a[Len(q)].hidden = After(server, requests)[L].hidden
      /\ a[Len(q)].selected = After(server, requests)[L].selected
  BY <1>1, <1>2, <1>3, <1>6
<1>9. requests' = q /\ After(server', requests') = a /\ server' = server /\ pointerGrabbed' = pointerGrabbed
  BY DEF a
<1> HIDE DEF q
<1>10. QED
  BY <1>2, <1>7, <1>8, <1>9 DEF Balance

\* The three requests that take the pointer, or give it back.
LEMMA PointerBalance ==
  ASSUME Balance, NEW t \in Seq(Requests), Len(t) = 3,
         UNCHANGED server, requests' = requests \o t, pointerGrabbed' = ~pointerGrabbed,
         t[1] \in {"grabPointer", "ungrabPointer"},
         t[2] = IF pointerGrabbed THEN "showCursor" ELSE "hideCursor",
         t[3] = IF pointerGrabbed THEN "selectNothing" ELSE "selectMotion"
  PROVE  Balance'
<1> DEFINE q == requests \o t
           a == After(server, q)
           L == Len(requests)
<1>1. requests \in Seq(Requests) /\ L \in Nat /\ pointerGrabbed \in BOOLEAN
  BY DEF Balance
<1>2. Len(q) = L + 3 /\ q \in Seq(Requests)
  <2>1. Len(q) = L + Len(t) /\ q \in Seq(Requests)
    BY <1>1, ConcatProperties, Zenon
  <2>2. QED
    BY <2>1
<1>3. \A k \in 0 .. L : a[k] = After(server, requests)[k]
  BY <1>1, AfterPrefix
<1>4. ASSUME NEW n \in 1 .. 3
      PROVE  /\ a[L + n].hidden = Hides(a[L + n - 1].hidden, t[n])
             /\ a[L + n].selected = Selects(a[L + n - 1].selected, t[n])
  BY BehindQueue
<1> HIDE DEF a
<1>5. /\ a[L].hidden = IF pointerGrabbed THEN 1 ELSE 0
      /\ a[L].selected = pointerGrabbed
  BY <1>1, <1>3 DEF Balance
<1>6. /\ a[L + 1].hidden = Hides(a[L + 1 - 1].hidden, t[1])
      /\ a[L + 2].hidden = Hides(a[L + 2 - 1].hidden, t[2])
      /\ a[L + 3].hidden = Hides(a[L + 3 - 1].hidden, t[3])
      /\ a[L + 3].selected = Selects(a[L + 3 - 1].selected, t[3])
      /\ L + 1 - 1 = L /\ L + 2 - 1 = L + 1 /\ L + 3 - 1 = L + 2
  BY <1>1, <1>4
<1>7. /\ a[L + 1].hidden = IF pointerGrabbed THEN 1 ELSE 0
      /\ a[L + 2].hidden = IF pointerGrabbed THEN 0 ELSE 1
      /\ a[L + 3].hidden = IF pointerGrabbed THEN 0 ELSE 1
      /\ a[L + 3].selected = ~pointerGrabbed
  <2>1. a[L + 1].hidden = a[L].hidden
    BY <1>6 DEF Hides
  <2>2. a[L + 2].hidden = IF pointerGrabbed THEN a[L + 1].hidden - 1 ELSE a[L + 1].hidden + 1
    BY <1>6 DEF Hides
  <2>3. a[L + 3].hidden = a[L + 2].hidden
    BY <1>6 DEF Hides
  <2>4. a[L + 3].selected = IF pointerGrabbed THEN FALSE ELSE TRUE
    BY <1>6 DEF Selects
  <2>5. /\ a[L + 1].hidden = IF pointerGrabbed THEN 1 ELSE 0
        /\ a[L + 2].hidden = IF pointerGrabbed THEN 0 ELSE 1
        /\ a[L + 3].hidden = IF pointerGrabbed THEN 0 ELSE 1
    BY <1>5, <2>1, <2>2, <2>3
  <2>6. a[L + 3].selected = ~pointerGrabbed
    BY <1>1, <2>4, Zenon
  <2>7. QED
    BY <2>5, <2>6, Zenon
<1>8. ASSUME NEW k \in 0 .. Len(q) PROVE a[k].hidden \in {0, 1}
  <2>1. CASE k \in 0 .. L
    BY <1>3, <2>1 DEF Balance
  <2>2. CASE k = L + 1 \/ k = L + 2 \/ k = L + 3
    BY <1>7, <2>2
  <2>3. QED
    BY <1>1, <1>2, <2>1, <2>2
<1>9. requests' = q /\ After(server', requests') = a /\ server' = server
  BY DEF a
<1> HIDE DEF q
<1>10. QED
  BY <1>1, <1>2, <1>7, <1>8, <1>9 DEF Balance

\* A step elsewhere.
LEMMA SameBalance ==
  ASSUME Balance, UNCHANGED <<requests, server, pointerGrabbed>>
  PROVE  Balance'
<1>1. requests' = requests /\ server' = server /\ pointerGrabbed' = pointerGrabbed
  OBVIOUS
<1>2. QED
  BY <1>1, Zenon DEF Balance

\* Before the window exists nothing was requested.
LEMMA InitBalance == Init => Balance
<1> SUFFICES ASSUME Init PROVE Balance
  OBVIOUS
<1>1. /\ requests = <<>> /\ ~pointerGrabbed /\ pointerGrabbed = FALSE
      /\ server = [grabbed |-> FALSE, hidden |-> 0, selected |-> FALSE, mapped |-> FALSE]
  BY DEF Init, X11Init
<1>2. Len(requests) = 0 /\ requests \in Seq(Requests) /\ server \in ServerStates
  BY <1>1 DEF ServerStates
<1>3. After(server, requests)[0] = server
  BY <1>2, AfterFacts
<1>4. server.hidden = 0 /\ server.selected = FALSE
  BY <1>1
<1>5. \A k \in 0 .. Len(requests) : After(server, requests)[k].hidden \in {0, 1}
  BY <1>2, <1>3, <1>4
<1>6. After(server, requests)[Len(requests)].hidden = IF pointerGrabbed THEN 1 ELSE 0
  BY <1>1, <1>2, <1>3, <1>4
<1>7. After(server, requests)[Len(requests)].selected = pointerGrabbed
  BY <1>1, <1>2, <1>3, <1>4
<1>8. QED
  BY <1>1, <1>2, <1>5, <1>6, <1>7 DEF Balance

\* The server carries out the oldest request.
LEMMA ServerStepBalance ==
  ASSUME Balance, ServerStep
  PROVE  Balance'
<1> DEFINE request == Head(requests)
           e == Effect(server, request)
           q == Tail(requests)
           L == Len(requests)
<1>1. /\ requests \in Seq(Requests) /\ requests # <<>> /\ server \in ServerStates
      /\ requests' = q /\ pointerGrabbed' = pointerGrabbed
  BY DEF Balance, ServerStep
<1>2. \/ server' = e
      \/ request = "grabPointer" /\ server' = [server EXCEPT !.grabbed = TRUE]
      \/ request = "changeProperty" /\ server' = server
  BY DEF ServerStep
<1>3. e \in ServerStates /\ e.hidden = Hides(server.hidden, request) /\ e.selected = Selects(server.selected, request)
  BY <1>1, EffectType, Zenon
<1>4. server' \in ServerStates /\ SamePointer(server', e)
  <2>1. CASE server' = e
    BY <1>3, <2>1 DEF SamePointer
  <2>2. CASE request = "grabPointer" /\ server' = [server EXCEPT !.grabbed = TRUE]
    <3>1. server' \in ServerStates /\ server'.hidden = server.hidden /\ server'.selected = server.selected
      BY <1>1, <2>2 DEF ServerStates
    <3>2. QED
      BY <1>3, <2>2, <3>1 DEF SamePointer, Hides, Selects
  <2>3. CASE request = "changeProperty" /\ server' = server
    BY <1>1, <1>3, <2>3 DEF SamePointer, Hides, Selects
  <2>4. QED
    BY <1>2, <2>1, <2>2, <2>3
<1>5. \A k \in 0 .. L - 1 : SamePointer(After(server', q)[k], After(server, requests)[k + 1])
  <2>1. PICK u : u = server'
    OBVIOUS
  <2>2. u \in ServerStates /\ SamePointer(u, Effect(server, Head(requests)))
    BY <1>4, <2>1
  <2>3. \A k \in 0 .. Len(requests) - 1 : SamePointer(After(u, Tail(requests))[k], After(server, requests)[k + 1])
    BY <1>1, <2>2, AfterTail
  <2>4. QED
    BY <2>1, <2>3
<1>6. L \in Nat \ {0} /\ Len(q) = L - 1 /\ q \in Seq(Requests)
  BY <1>1
<1> HIDE DEF q
<1>7. ASSUME NEW k \in 0 .. Len(q) PROVE After(server', q)[k].hidden \in {0, 1}
  <2>1. k + 1 \in 0 .. L /\ k \in 0 .. L - 1
    BY <1>6
  <2>2. After(server, requests)[k + 1].hidden \in {0, 1}
    BY <2>1 DEF Balance
  <2>3. QED
    BY <1>5, <2>1, <2>2 DEF SamePointer
<1>8. /\ After(server', q)[Len(q)].hidden = After(server, requests)[L].hidden
      /\ After(server', q)[Len(q)].selected = After(server, requests)[L].selected
  <2>1. L - 1 \in 0 .. L - 1 /\ (L - 1) + 1 = L
    BY <1>6
  <2>2. QED
    BY <1>5, <1>6, <2>1 DEF SamePointer
<1>9. QED
  BY <1>1, <1>4, <1>6, <1>7, <1>8 DEF Balance

\* window_x11_run and what it does with a message.
LEMMA RunBalance ==
  ASSUME Balance, RunStart \/ RunMessage
  PROVE  Balance'
<1>1. requests \in Seq(Requests) /\ pointerGrabbed \in BOOLEAN
  BY DEF Balance
<1>2. CASE RunStart
  <2>1. /\ setupRequests \in Seq(Requests)
        /\ \A i \in 1 .. Len(setupRequests) :
             setupRequests[i] \notin {"hideCursor", "showCursor", "selectMotion", "selectNothing"}
    BY DEF setupRequests, Requests
  <2>2. requests' = requests \o setupRequests /\ UNCHANGED <<server, pointerGrabbed>>
    BY <1>2 DEF RunStart, Sends
  <2>3. QED
    BY <2>1, <2>2, QuietBalance
<1>3. CASE RunMessage
  <2>1. PointerChange(generic.type) /\ server' = server
    BY <1>3 DEF RunMessage
  <2>2. CASE requests' = requests \o grabPointer /\ ~pointerGrabbed /\ pointerGrabbed' = TRUE
    <3>1. /\ grabPointer \in Seq(Requests) /\ Len(grabPointer) = 3 /\ grabPointer[1] = "grabPointer"
          /\ grabPointer[2] = "hideCursor" /\ grabPointer[3] = "selectMotion"
      BY DEF grabPointer, Requests
    <3>2. pointerGrabbed' = ~pointerGrabbed
      BY <2>2
    <3>3. QED
      BY <2>1, <2>2, <3>1, <3>2, PointerBalance
  <2>3. CASE requests' = requests \o ungrabPointer /\ pointerGrabbed /\ pointerGrabbed' = FALSE
    <3>1. /\ ungrabPointer \in Seq(Requests) /\ Len(ungrabPointer) = 3 /\ ungrabPointer[1] = "ungrabPointer"
          /\ ungrabPointer[2] = "showCursor" /\ ungrabPointer[3] = "selectNothing"
      BY DEF ungrabPointer, Requests
    <3>2. pointerGrabbed' = ~pointerGrabbed
      BY <2>3
    <3>3. QED
      BY <2>1, <2>3, <3>1, <3>2, PointerBalance
  <2>4. CASE requests' = requests \o toggleFullscreen /\ UNCHANGED pointerGrabbed
    <3>1. /\ toggleFullscreen \in Seq(Requests)
          /\ \A i \in 1 .. Len(toggleFullscreen) :
               toggleFullscreen[i] \notin {"hideCursor", "showCursor", "selectMotion", "selectNothing"}
      BY DEF toggleFullscreen, Requests
    <3>2. QED
      BY <2>1, <2>4, <3>1, QuietBalance
  <2>5. CASE UNCHANGED <<requests, pointerGrabbed>>
    BY <2>1, <2>5, SameBalance
  <2>6. QED
    BY <2>1, <2>2, <2>3, <2>4, <2>5 DEF PointerChange, Sends
<1>4. QED
  BY <1>2, <1>3

\* No other step touches the requests, the server or what the program thinks of the pointer.
LEMMA NextBalance ==
  ASSUME Balance, [Next]_vars
  PROVE  Balance'
<1> DEFINE Kept == UNCHANGED <<requests, server, pointerGrabbed>>
<1>1. UNCHANGED x11Vars => Kept
  BY DEF x11Vars
<1>2. CASE window_x11_init
  <2>1. ASSUME NEW here, SetupFails(here) PROVE Kept
    BY <2>1 DEF SetupFails
  <2>2. CASE SendSetup \/ SetupFails("x11_setup") \/ SetupReceiveFails \/ SetupRefuses \/ MapKeyboardFails \/ ReadKeyboardFails
    BY <2>1, <2>2, SameBalance DEF SendSetup, SetupReceiveFails, SetupRefuses, MapKeyboardFails, ReadKeyboardFails
  <2>3. CASE SetupReceive \/ SetupMessage \/ MapKeyboard \/ ReadKeyboard \/ CopyKeyboard
    BY <2>3, SameBalance DEF SetupReceive, x11Client_receive, SetupMessage, MapKeyboard, ReadKeyboard, CopyKeyboard
  <2>4. QED
    BY <1>1, <1>2, <2>2, <2>3, SameBalance DEF window_x11_init
<1>3. CASE window_x11_run
  <2>1. CASE PollReads
    BY <2>1, SameBalance DEF PollReads, x11Client_receive
  <2>2. CASE PollDraws \/ RunDraw \/ PollEnds \/ RunSendFails \/ RunEnds \/ MessagesDone
    BY <1>1, <2>2, SameBalance DEF PollDraws, RunDraw, PollEnds, RunSendFails, RunEnds, MessagesDone
  <2>3. QED
    BY <1>3, <2>1, <2>2, RunBalance DEF window_x11_run
<1>4. CASE Server
  <2>1. CASE Input
    BY <2>1, SameBalance DEF Input
  <2>2. QED
    BY <1>4, <2>1, ServerStepBalance DEF Server
<1>5. CASE UNCHANGED x11Vars
  BY <1>1, <1>5, SameBalance
<1>6. [Next]_vars => \/ window_x11_init \/ window_x11_run \/ Server \/ UNCHANGED x11Vars
  BY DEF Next, window_start, Plain, SurfaceStep, Started, Ended, vars
<1>7. QED
  BY <1>2, <1>3, <1>4, <1>5, <1>6

\* The cursor is hidden and motion reported exactly while the program has the pointer, once
\* the server has carried out what was sent, and the cursor is never shown once too often.
THEOREM PointerStaysBalanced == Spec => []PointerBalanced
<1>1. Init => Balance
  BY InitBalance
<1>2. Balance /\ [Next]_vars => Balance'
  BY NextBalance
<1>3. Balance => PointerBalanced
  <2> SUFFICES ASSUME Balance PROVE PointerBalanced
    OBVIOUS
  <2>1. Len(requests) \in Nat /\ 0 \in 0 .. Len(requests)
    BY DEF Balance
  <2>2. After(server, requests)[0] = server
    BY <2>1, AfterFacts
  <2>3. After(server, requests)[0].hidden \in {0, 1}
    BY <2>1 DEF Balance
  <2>4. QED
    BY <2>2, <2>3, Zenon DEF Balance, PointerBalanced
<1>4. QED
  BY <1>1, <1>2, <1>3, PTL DEF Spec

-----------------------------------------------------------------------------
(***************************************************************************)
(* What the program holds.                                                 *)
(***************************************************************************)

\* The resources of each part of the program.
EglParts == {"eglLibrary", "display", "context"}
ClientParts == {"memFd", "buffer", "socket", "setupResponse"}
CardParts == {"card", "gbmLibrary", "gbmDevice", "gbmSurface"}
GameParts == {"shaders", "arrays", "buffers"}
\* The authority file, while window_x11_init has it mapped, and the keyboard map, where there is one.
Authority == held \cap {"xauthFd", "xauthMap"}
Map == held \cap {"keyboardMap"}

\* What the platform that was chosen holds.
OnPlatform ==
  IF platform = "X11" THEN EglParts \cup ClientParts \cup {"keyboardMap"}
  ELSE EglParts \cup CardParts \cup Map \cup (held \cap FrameBuffers)

\* The places of the two loops.
GbmRunning == {"gbm_run", "gbm_lockFirst", "gbm_fbFirst", "gbm_crtc", "gbm_draw", "gbm_lock",
               "gbm_fb", "gbm_flip", "gbm_await", "gbm_release"}
X11Running == {"x11_run", "x11_poll", "x11_draw", "x11_message"}

\* The resources held at each place of the program.
Holdings ==
  /\ ~badRelease
  /\ "xauthFd" \in held <=> "xauthMap" \in held
  /\ "keyboardMap" \in held => nextSequenceNumber >= KEYBOARD
  /\ pc = "start" => held = {}
  /\ pc = "x11_display" => held = {"eglLibrary"}
  /\ pc = "x11_context" => held = {"eglLibrary", "display"}
  /\ pc = "x11_auth" => held = EglParts
  /\ pc = "x11_memfd" => held = EglParts \cup Authority
  /\ pc = "x11_map" => held = EglParts \cup Authority \cup {"memFd"}
  /\ pc = "x11_socket" => held = EglParts \cup Authority \cup {"memFd", "buffer"}
  /\ pc \in {"x11_connect", "x11_response"} =>
       held = EglParts \cup Authority \cup {"memFd", "buffer", "socket"}
  /\ pc \in {"x11_accepted", "x11_authDone"} => held = EglParts \cup Authority \cup ClientParts
  /\ pc = "x11_setup" => held = EglParts \cup ClientParts
  /\ pc = "x11_wait" => held = EglParts \cup ClientParts \cup Map
  /\ pc = "x11_keyboard" => held = EglParts \cup ClientParts \cup {"keyboardMap"}
  /\ pc = "gbm_card" => held = {"eglLibrary"} \cup Map
  /\ pc \in {"gbm_connector", "gbm_library"} => held = {"eglLibrary", "card"} \cup Map
  /\ pc = "gbm_device" => held = {"eglLibrary", "card", "gbmLibrary"} \cup Map
  /\ pc = "gbm_display" => held = {"eglLibrary", "card", "gbmLibrary", "gbmDevice"} \cup Map
  /\ pc = "gbm_context" =>
       held = {"eglLibrary", "card", "gbmLibrary", "gbmDevice", "display"} \cup Map
  /\ pc = "gbm_surface" =>
       held = {"eglLibrary", "card", "gbmLibrary", "gbmDevice", "display", "context"} \cup Map
  /\ pc = "surface" => \/ held = EglParts \cup ClientParts \cup {"keyboardMap"}
                       \/ held = EglParts \cup CardParts \cup Map
  /\ pc \in {"gl", "game_shaders", "cleanup_eglSurface"} => held = OnPlatform \cup {"surface"}
  /\ pc = "game_arrays" => held = OnPlatform \cup {"surface", "shaders"}
  /\ pc = "game_buffers" => held = OnPlatform \cup {"surface", "shaders", "arrays"}
  /\ pc \in {"game_vertices", "game_check", "run", "cleanup_game"} \cup X11Running \cup GbmRunning =>
       held = OnPlatform \cup {"surface"} \cup GameParts
  /\ pc = "cleanup_platform" => held = OnPlatform
  /\ pc = "cleanup_egl" => held = {"eglLibrary"} \cup Map
  /\ pc = "failed" => held \subseteq {"keyboardMap"}
  /\ pc \in {"cleanup_egl", "failed"} /\ "keyboardMap" \in held => platform # "X11"

\* Which platform it is, and how far the replies have come.
Places ==
  /\ pc \in {"start", "x11_display", "x11_context", "x11_auth", "x11_memfd", "x11_map",
             "x11_socket", "x11_connect", "x11_response", "x11_accepted", "x11_authDone",
             "x11_setup", "x11_wait", "x11_keyboard", "gbm_card", "gbm_connector",
             "gbm_library", "gbm_device", "gbm_display", "gbm_context", "gbm_surface",
             "surface"} => platform = "none"
  /\ pc \in {"gl", "game_shaders", "game_arrays", "game_buffers", "game_vertices", "game_check",
             "run"} => platform \in {"X11", "GBM"}
  /\ pc \in X11Running => platform = "X11"
  /\ pc \in GbmRunning => platform = "GBM"
  /\ nextSequenceNumber \in 2 .. LAST
  /\ pc = "x11_wait" /\ nextSequenceNumber = LAST => "keyboardMap" \in held
  /\ pc = "x11_keyboard" => nextSequenceNumber = KEYBOARD


-----------------------------------------------------------------------------
(***************************************************************************)
(* Giving back.                                                            *)
(***************************************************************************)

\* Everything that is ever given back.
Resources == EglParts \cup ClientParts \cup CardParts \cup GameParts
               \cup {"surface", "keyboardMap", "xauthFd", "xauthMap", "fb1", "fb2", "fb3"}

\* The frame buffers, one for each buffer of the surface.
LEMMA FrameBufferNames == FrameBuffers = {"fb1", "fb2", "fb3"}
<1>1. FrameBuffer("bo1") = "fb1" /\ FrameBuffer("bo2") = "fb2" /\ FrameBuffer("bo3") = "fb3"
  BY DEF FrameBuffer
<1>2. QED
  BY <1>1 DEF FrameBuffers, Bos

\* What may be in the way of giving back a resource.
LEMMA Users ==
  ASSUME NEW h
  PROVE  /\ InUse("eglLibrary", h) => "display" \in h
         /\ InUse("display", h) => "context" \in h \/ "surface" \in h
         /\ InUse("context", h) => h \cap ({"surface"} \cup GameParts) # {}
         /\ InUse("surface", h) => h \cap GameParts # {}
         /\ InUse("gbmLibrary", h) => "gbmDevice" \in h
         /\ InUse("card", h) => h \cap {"gbmDevice", "fb1", "fb2", "fb3"} # {}
         /\ InUse("gbmDevice", h) => h \cap {"gbmSurface", "display"} # {}
         /\ InUse("gbmSurface", h) => h \cap {"fb1", "fb2", "fb3", "surface"} # {}
         /\ InUse("socket", h) => "surface" \in h
         /\ \A r \in GameParts \cup {"fb1", "fb2", "fb3", "memFd", "buffer", "setupResponse",
                                     "keyboardMap", "xauthFd", "xauthMap"} : ~InUse(r, h)
<1> DEFINE N(s) == Needs(s) \cup NativeNeeds(s, h)
<1>1. N("display") \subseteq {"eglLibrary", "gbmDevice"}
  BY DEF Needs, NativeNeeds
<1>2. N("context") \subseteq {"display"}
  BY DEF Needs, NativeNeeds
<1>3. N("surface") \subseteq {"context", "display", "gbmSurface", "socket"}
  BY DEF Needs, NativeNeeds
<1>4. \A s \in GameParts : N(s) \subseteq {"context", "surface"}
  BY DEF Needs, NativeNeeds, GameParts
<1>5. N("gbmDevice") \subseteq {"gbmLibrary", "card"} /\ N("gbmSurface") \subseteq {"gbmDevice"}
  BY DEF Needs, NativeNeeds
<1>6. \A s \in {"fb1", "fb2", "fb3"} : N(s) \subseteq {"card", "gbmSurface"}
  BY DEF Needs, NativeNeeds
<1>7. \A s : s \notin {"display", "context", "surface", "gbmDevice", "gbmSurface", "fb1", "fb2", "fb3"} \cup GameParts
               => N(s) = {}
  BY DEF Needs, NativeNeeds, GameParts
<1>8. \A r : InUse(r, h) => \E s \in h : r \in N(s)
  BY DEF InUse
<1> HIDE DEF N
<1>9. QED
  BY <1>1, <1>2, <1>3, <1>4, <1>5, <1>6, <1>7, <1>8 DEF GameParts

\* Giving back s in its order, holding h, is right and leaves g.
Gives(s, h, g) == s \in Seq(Resources) /\ ~Misplaced(s, h) /\ g = h \ Listed(s)

\* How the parts of a clean up compose.
LEMMA GivesNothing ==
  ASSUME NEW h
  PROVE  Gives(<<>>, h, h)
BY DEF Gives, Misplaced, Listed

\* A resource that nobody uses.
LEMMA GivesOne ==
  ASSUME NEW h, NEW r \in Resources, r \in h, ~InUse(r, h)
  PROVE  Gives(<<r>>, h, h \ {r})
<1> DEFINE s == <<r>>
<1>1. s \in Seq(Resources) /\ DOMAIN s = {1} /\ s[1] = r
  OBVIOUS
<1> HIDE DEF s
<1>2. Listed(s) = {r}
  BY <1>1 DEF Listed
<1>3. h \ {s[j] : j \in 1 .. 1 - 1} = h
  OBVIOUS
<1>4. ~Misplaced(s, h)
  BY <1>1, <1>3 DEF Misplaced
<1>5. QED
  BY <1>1, <1>2, <1>4 DEF Gives, s

\* One list behind the other.
LEMMA GivesBoth ==
  ASSUME NEW s, NEW t, NEW h, NEW g, NEW f, Gives(s, h, g), Gives(t, g, f)
  PROVE  Gives(s \o t, h, f)
<1> DEFINE q == s \o t
<1>1. s \in Seq(Resources) /\ t \in Seq(Resources) /\ g = h \ Listed(s) /\ f = g \ Listed(t)
  BY DEF Gives
<1>2. /\ q \in Seq(Resources) /\ Len(q) = Len(s) + Len(t)
      /\ \A i \in 1 .. Len(s) + Len(t) : q[i] = IF i <= Len(s) THEN s[i] ELSE t[i - Len(s)]
  BY <1>1, ConcatProperties, Zenon
<1> HIDE DEF q
<1>3. /\ Len(s) \in Nat /\ Len(t) \in Nat
      /\ DOMAIN s = 1 .. Len(s) /\ DOMAIN t = 1 .. Len(t) /\ DOMAIN q = 1 .. Len(q)
  BY <1>1, <1>2
<1>4. /\ \A i \in 1 .. Len(s) : q[i] = s[i]
      /\ \A i \in 1 .. Len(t) : q[Len(s) + i] = t[i]
  BY <1>2, <1>3
<1>5. Listed(q) = Listed(s) \cup Listed(t)
  <2>1. ASSUME NEW i \in 1 .. Len(q) PROVE q[i] \in Listed(s) \cup Listed(t)
    BY <1>2, <1>3, SMTT(40) DEF Listed
  <2>2. ASSUME NEW i \in 1 .. Len(s) PROVE s[i] \in Listed(q)
    BY <1>2, <1>3, <1>4 DEF Listed
  <2>3. ASSUME NEW i \in 1 .. Len(t) PROVE t[i] \in Listed(q)
    <3>1. Len(s) + i \in 1 .. Len(q)
      BY <1>2, <1>3
    <3>2. QED
      BY <1>3, <1>4, <3>1 DEF Listed
  <2>4. QED
    BY <1>3, <2>1, <2>2, <2>3 DEF Listed
<1>6. ASSUME NEW i \in DOMAIN q
      PROVE  LET left == h \ {q[j] : j \in 1 .. i - 1}
             IN q[i] \in left /\ ~InUse(q[i], left)
  <2>1. CASE i \in 1 .. Len(s)
    <3>1. {q[j] : j \in 1 .. i - 1} = {s[j] : j \in 1 .. i - 1}
      BY <1>3, <1>4, <2>1
    <3>2. q[i] = s[i] /\ i \in DOMAIN s
      BY <1>3, <1>4, <2>1
    <3>3. QED
      BY <3>1, <3>2 DEF Gives, Misplaced
  <2>2. CASE i \in Len(s) + 1 .. Len(q)
    <3> DEFINE k == i - Len(s)
    <3>1. k \in 1 .. Len(t) /\ i = Len(s) + k
      BY <1>2, <1>3, <2>2
    <3>2. {q[j] : j \in 1 .. i - 1} = Listed(s) \cup {t[j] : j \in 1 .. k - 1}
      <4>1. ASSUME NEW j \in 1 .. i - 1 PROVE q[j] \in Listed(s) \cup {t[m] : m \in 1 .. k - 1}
        <5>1. CASE j <= Len(s)
          BY <1>3, <1>4, <5>1 DEF Listed
        <5>2. CASE j > Len(s)
          <6>1. j - Len(s) \in 1 .. k - 1 /\ j = Len(s) + (j - Len(s)) /\ j - Len(s) \in 1 .. Len(t)
            BY <1>3, <3>1, <5>2
          <6>2. q[j] = t[j - Len(s)]
            BY <1>4, <6>1
          <6>3. QED
            BY <6>1, <6>2
        <5>3. QED
          BY <1>3, <5>1, <5>2
      <4>2. ASSUME NEW j \in 1 .. Len(s) PROVE s[j] \in {q[m] : m \in 1 .. i - 1}
        BY <1>3, <1>4, <3>1
      <4>3. ASSUME NEW j \in 1 .. k - 1 PROVE t[j] \in {q[m] : m \in 1 .. i - 1}
        <5>1. Len(s) + j \in 1 .. i - 1 /\ j \in 1 .. Len(t)
          BY <1>3, <3>1
        <5>2. QED
          BY <1>4, <5>1
      <4> HIDE DEF k
      <4>4. QED
        BY <1>3, <4>1, <4>2, <4>3 DEF Listed
    <3>3. h \ {q[j] : j \in 1 .. i - 1} = g \ {t[j] : j \in 1 .. k - 1}
      BY <1>1, <3>2
    <3>4. q[i] = t[k] /\ k \in DOMAIN t
      BY <1>3, <1>4, <3>1
    <3> HIDE DEF k
    <3>5. QED
      BY <3>3, <3>4 DEF Gives, Misplaced
  <2>3. QED
    BY <1>2, <1>3, <2>1, <2>2
<1>7. ~Misplaced(q, h)
  BY <1>6 DEF Misplaced
<1>8. QED
  BY <1>1, <1>2, <1>5, <1>7 DEF Gives, q

\* Two resources as a list.
LEMMA ConcatPair ==
  ASSUME NEW r, NEW q
  PROVE  <<r>> \o <<q>> = <<r, q>>
<1> DEFINE S == {r, q}
           a == <<r>>
           b == <<q>>
           t == <<r, q>>
           u == a \o b
<1>1. a \in Seq(S) /\ Len(a) = 1 /\ a[1] = r /\ b \in Seq(S) /\ Len(b) = 1 /\ b[1] = q
  OBVIOUS
<1>2. t \in Seq(S) /\ Len(t) = 2 /\ t[1] = r /\ t[2] = q
  OBVIOUS
<1> HIDE DEF S, a, b, t
<1>3. /\ u \in Seq(S) /\ Len(u) = Len(a) + Len(b)
      /\ \A i \in 1 .. Len(a) + Len(b) : u[i] = IF i <= Len(a) THEN a[i] ELSE b[i - Len(a)]
  BY <1>1, ConcatProperties, Zenon
<1> HIDE DEF u
<1>4. Len(u) = 2 /\ u[1] = r /\ u[2] = q
  <2>1. \A i \in 1 .. 2 : u[i] = IF i <= 1 THEN a[i] ELSE b[i - 1]
    BY <1>1, <1>3
  <2>2. u[1] = a[1] /\ u[2] = b[2 - 1] /\ 2 - 1 = 1
    BY <2>1
  <2>3. QED
    BY <1>1, <1>3, <2>2
<1>5. \A i \in 1 .. 2 : i = 1 \/ i = 2
  OBVIOUS
<1>6. \A i \in 1 .. Len(u) : u[i] = t[i]
  BY <1>2, <1>4, <1>5
<1>7. u = t
  BY <1>2, <1>3, <1>4, <1>6, SeqEqual
<1>8. QED
  BY <1>7 DEF a, b, t, u

\* Two resources, the first of which may use the second.
LEMMA GivesPair ==
  ASSUME NEW h, NEW r \in Resources, NEW q \in Resources, r \in h, ~InUse(r, h),
         q \in h \ {r}, ~InUse(q, h \ {r})
  PROVE  Gives(<<r, q>>, h, h \ {r, q})
<1>1. Gives(<<r>>, h, h \ {r}) /\ Gives(<<q>>, h \ {r}, (h \ {r}) \ {q})
  BY GivesOne
<1>2. Gives(<<r>> \o <<q>>, h, (h \ {r}) \ {q})
  BY <1>1, GivesBoth
<1>3. (h \ {r}) \ {q} = h \ {r, q}
  OBVIOUS
<1>4. QED
  BY <1>2, <1>3, ConcatPair

\* The lists of the code.
LEMMA ContextGiven ==
  ASSUME NEW h, {"context", "display"} \subseteq h, h \cap ({"surface"} \cup GameParts) = {}
  PROVE  Gives(egl_destroyContext, h, h \ {"context", "display"})
<1>1. ~InUse("context", h) /\ ~InUse("display", h \ {"context"})
  BY Users
<1>2. "context" \in Resources /\ "display" \in Resources /\ "display" \in h \ {"context"}
  BY DEF Resources, EglParts
<1>3. QED
  BY <1>1, <1>2, GivesPair DEF egl_destroyContext

\* The display, when there is no context.
LEMMA DisplayGiven ==
  ASSUME NEW h, "display" \in h, h \cap {"surface", "context"} = {}
  PROVE  Gives(<<"display">>, h, h \ {"display"})
<1>1. ~InUse("display", h) /\ "display" \in Resources
  BY Users DEF Resources, EglParts
<1>2. QED
  BY <1>1, GivesOne

\* egl_deinit.
LEMMA LibraryGiven ==
  ASSUME NEW h, "eglLibrary" \in h, "display" \notin h
  PROVE  Gives(egl_deinit, h, h \ {"eglLibrary"})
<1>1. ~InUse("eglLibrary", h) /\ "eglLibrary" \in Resources
  BY Users DEF Resources, EglParts
<1>2. QED
  BY <1>1, GivesOne DEF egl_deinit

\* egl_destroySurface.
LEMMA SurfaceGiven ==
  ASSUME NEW h, "surface" \in h, h \cap GameParts = {}
  PROVE  Gives(egl_destroySurface, h, h \ {"surface"})
<1>1. ~InUse("surface", h) /\ "surface" \in Resources
  BY Users DEF Resources, EglParts
<1>2. QED
  BY <1>1, GivesOne DEF egl_destroySurface

\* drm_deinit.
LEMMA CardGiven ==
  ASSUME NEW h, "card" \in h, h \cap {"gbmDevice", "fb1", "fb2", "fb3"} = {}
  PROVE  Gives(drm_deinit, h, h \ {"card"})
<1>1. ~InUse("card", h) /\ "card" \in Resources
  BY Users DEF Resources, CardParts
<1>2. QED
  BY <1>1, GivesOne DEF drm_deinit

\* gbm_deinit.
LEMMA GbmGiven ==
  ASSUME NEW h, {"gbmDevice", "gbmLibrary"} \subseteq h, h \cap {"gbmSurface", "display"} = {}
  PROVE  Gives(gbm_deinit, h, h \ {"gbmDevice", "gbmLibrary"})
<1>1. ~InUse("gbmDevice", h) /\ ~InUse("gbmLibrary", h \ {"gbmDevice"})
  BY Users
<1>2. "gbmDevice" \in Resources /\ "gbmLibrary" \in Resources /\ "gbmLibrary" \in h \ {"gbmDevice"}
  BY DEF Resources, CardParts
<1>3. QED
  BY <1>1, <1>2, GivesPair DEF gbm_deinit

\* The part of gbm_deinit for a device that could not be made.
LEMMA GbmLibraryGiven ==
  ASSUME NEW h, "gbmLibrary" \in h, "gbmDevice" \notin h
  PROVE  Gives(<<"gbmLibrary">>, h, h \ {"gbmLibrary"})
<1>1. ~InUse("gbmLibrary", h) /\ "gbmLibrary" \in Resources
  BY Users DEF Resources, CardParts
<1>2. QED
  BY <1>1, GivesOne

\* gbm_deinit and drm_deinit.
LEMMA GbmAndCardGiven ==
  ASSUME NEW h, {"gbmDevice", "gbmLibrary", "card"} \subseteq h,
         h \cap {"gbmSurface", "display", "fb1", "fb2", "fb3"} = {}
  PROVE  Gives(gbm_deinit \o drm_deinit, h, h \ {"gbmDevice", "gbmLibrary", "card"})
<1>1. Gives(gbm_deinit, h, h \ {"gbmDevice", "gbmLibrary"})
  BY GbmGiven
<1>2. Gives(drm_deinit, h \ {"gbmDevice", "gbmLibrary"}, (h \ {"gbmDevice", "gbmLibrary"}) \ {"card"})
  BY CardGiven
<1>3. (h \ {"gbmDevice", "gbmLibrary"}) \ {"card"} = h \ {"gbmDevice", "gbmLibrary", "card"}
  OBVIOUS
<1>4. QED
  BY <1>1, <1>2, <1>3, GivesBoth

\* gbm_surfaceDestroy gives back the frame buffers that were made.
LEMMA FrameBuffersGiven ==
  ASSUME "gbmSurface" \in held, "surface" \notin held
  PROVE  Gives(gbm_surfaceDestroy, held, held \ {"fb1", "fb2", "fb3", "gbmSurface"})
<1> DEFINE Made(fb) == IF fb \in held THEN <<fb>> ELSE <<>>
<1>1. ASSUME NEW fb \in {"fb1", "fb2", "fb3"}, NEW h, fb \in held => fb \in h, fb \notin held => fb \notin h
      PROVE  Gives(Made(fb), h, h \ {fb})
  <2>1. CASE fb \in held
    <3>1. ~InUse(fb, h) /\ fb \in Resources /\ fb \in h
      BY <1>1, <2>1, Users DEF Resources
    <3>2. QED
      BY <2>1, <3>1, GivesOne
  <2>2. CASE fb \notin held
    <3>1. h \ {fb} = h
      BY <1>1, <2>2
    <3>2. QED
      BY <2>2, <3>1, GivesNothing
  <2>3. QED
    BY <2>1, <2>2
<1> DEFINE h1 == held \ {"fb1"}
           h2 == h1 \ {"fb2"}
           h3 == h2 \ {"fb3"}
<1>2. Gives(Made("fb1"), held, h1) /\ Gives(Made("fb2"), h1, h2) /\ Gives(Made("fb3"), h2, h3)
  BY <1>1
<1> HIDE DEF Made
<1>3. Gives(<<"gbmSurface">>, h3, h3 \ {"gbmSurface"})
  <2>1. ~InUse("gbmSurface", h3) /\ "gbmSurface" \in Resources /\ "gbmSurface" \in h3
    BY Users DEF Resources, CardParts
  <2>2. QED
    BY <2>1, GivesOne
<1>4. h3 \ {"gbmSurface"} = held \ {"fb1", "fb2", "fb3", "gbmSurface"}
  OBVIOUS
<1> HIDE DEF h1, h2, h3
<1>5. Gives(Made("fb1") \o Made("fb2"), held, h2)
  BY <1>2, GivesBoth
<1>6. Gives((Made("fb1") \o Made("fb2")) \o Made("fb3"), held, h3)
  BY <1>2, <1>5, GivesBoth
<1>7. Gives(((Made("fb1") \o Made("fb2")) \o Made("fb3")) \o <<"gbmSurface">>, held, h3 \ {"gbmSurface"})
  BY <1>3, <1>6, GivesBoth
<1>8. QED
  BY <1>4, <1>7 DEF gbm_surfaceDestroy, Made

\* xauth_deinit gives back the authority file if there was one.
LEMMA AuthorityGiven ==
  ASSUME NEW h, h \cap {"xauthFd", "xauthMap"} = Authority,
         "xauthFd" \in held <=> "xauthMap" \in held
  PROVE  Gives(xauth_deinit, h, h \ {"xauthFd", "xauthMap"})
<1>1. CASE "xauthFd" \in held
  <2>1. ~InUse("xauthMap", h) /\ ~InUse("xauthFd", h \ {"xauthMap"})
    BY Users
  <2>2. "xauthFd" \in Resources /\ "xauthMap" \in Resources /\ "xauthMap" \in h /\ "xauthFd" \in h \ {"xauthMap"}
    BY <1>1 DEF Resources, Authority
  <2>3. Gives(<<"xauthMap", "xauthFd">>, h, h \ {"xauthMap", "xauthFd"})
    BY <2>1, <2>2, GivesPair
  <2>4. h \ {"xauthMap", "xauthFd"} = h \ {"xauthFd", "xauthMap"}
    OBVIOUS
  <2>5. QED
    BY <1>1, <2>3, <2>4 DEF xauth_deinit
<1>2. CASE "xauthFd" \notin held
  <2>1. h \ {"xauthFd", "xauthMap"} = h
    BY <1>2 DEF Authority
  <2>2. QED
    BY <1>2, <2>1, GivesNothing DEF xauth_deinit
<1>3. QED
  BY <1>1, <1>2

\* The client's parts from the n-th on; only the socket can be in use.
LEMMA ClientGiven ==
  ASSUME NEW h, "surface" \notin h, NEW n \in 1 .. 4,
         \A i \in n .. 4 : x11Client_deinit[i] \in h
  PROVE  Gives(SubSeq(x11Client_deinit, n, 4), h, h \ {x11Client_deinit[i] : i \in n .. 4})
<1> DEFINE d == x11Client_deinit
           s == SubSeq(d, n, 4)
<1>1. /\ d \in Seq(Resources) /\ Len(d) = 4
      /\ d[1] = "setupResponse" /\ d[2] = "socket" /\ d[3] = "buffer" /\ d[4] = "memFd"
  BY DEF x11Client_deinit, Resources, ClientParts
<1> HIDE DEF d
<1>2. \A i, j \in 1 .. 4 : i # j => d[i] # d[j]
  BY <1>1
<1>3. \A i \in 1 .. 4 : \A g \in SUBSET h : ~InUse(d[i], g)
  <2>1. ASSUME NEW g \in SUBSET h PROVE \A r \in {"setupResponse", "socket", "buffer", "memFd"} : ~InUse(r, g)
    BY Users
  <2>2. QED
    BY <1>1, <2>1
<1>4. /\ s \in Seq(Resources) /\ Len(s) = 4 - n + 1
      /\ \A i \in 1 .. 4 - n + 1 : s[i] = d[n + i - 1]
  <2>1. n \in Int /\ 4 \in Int /\ n <= 4
    OBVIOUS
  <2>2. \A i \in n .. 4 : i \in 1 .. Len(d)
    BY <1>1
  <2>3. \A i \in n .. 4 : d[i] \in Resources
    BY <1>1, <2>2
  <2>4. /\ SubSeq(d, n, 4) \in Seq(Resources)
        /\ Len(SubSeq(d, n, 4)) = IF n <= 4 THEN 4 - n + 1 ELSE 0
        /\ \A i \in 1 .. 4 - n + 1 : SubSeq(d, n, 4)[i] = d[n + i - 1]
    BY <2>1, <2>3, SubSeqProperties
  <2>5. QED
    BY <2>1, <2>4
<1> HIDE DEF s
<1>5. DOMAIN s = 1 .. 4 - n + 1
  BY <1>4
<1>6. Listed(s) = {d[i] : i \in n .. 4}
  <2>1. ASSUME NEW i \in 1 .. 4 - n + 1 PROVE s[i] \in {d[j] : j \in n .. 4}
    BY <1>4
  <2>2. ASSUME NEW j \in n .. 4 PROVE d[j] \in Listed(s)
    <3>1. j - n + 1 \in 1 .. 4 - n + 1 /\ n + (j - n + 1) - 1 = j
      OBVIOUS
    <3>2. d[j] = s[j - n + 1]
      BY <1>4, <3>1
    <3>3. QED
      BY <1>5, <3>1, <3>2 DEF Listed
  <2>3. QED
    BY <1>5, <2>1, <2>2 DEF Listed
<1>7. ASSUME NEW i \in DOMAIN s
      PROVE  LET left == h \ {s[j] : j \in 1 .. i - 1}
             IN s[i] \in left /\ ~InUse(s[i], left)
  <2> DEFINE left == h \ {s[j] : j \in 1 .. i - 1}
  <2>1. n + i - 1 \in n .. 4 /\ n + i - 1 \in 1 .. 4 /\ s[i] = d[n + i - 1]
    BY <1>4, <1>5
  <2>2. ASSUME NEW j \in 1 .. i - 1 PROVE s[j] # s[i]
    <3>1. n + j - 1 \in 1 .. 4 /\ n + j - 1 # n + i - 1 /\ j \in 1 .. 4 - n + 1
      BY <1>5
    <3>2. s[j] = d[n + j - 1]
      BY <1>4, <3>1
    <3>3. QED
      BY <1>2, <2>1, <3>1, <3>2
  <2>3. s[i] \in left
    BY <2>1, <2>2 DEF d
  <2>4. left \in SUBSET h
    OBVIOUS
  <2> HIDE DEF left
  <2>5. ~InUse(s[i], left)
    BY <1>3, <2>1, <2>4
  <2>6. QED
    BY <2>3, <2>5 DEF left
<1>8. ~Misplaced(s, h)
  BY <1>7 DEF Misplaced
<1>9. QED
  BY <1>4, <1>6, <1>8 DEF Gives, s, d

\* The functions of the game.
LEMMA GameGiven ==
  ASSUME NEW h
  PROVE  /\ "shaders" \in h => Gives(shaders_deinit, h, h \ {"shaders"})
         /\ "arrays" \in h => Gives(<<"arrays">>, h, h \ {"arrays"})
         /\ {"buffers", "arrays"} \subseteq h => Gives(vertexArrays_deinit, h, h \ {"buffers", "arrays"})
<1>1. \A r \in GameParts : \A g : ~InUse(r, g)
  BY Users
<1>2. {"shaders", "arrays", "buffers"} \subseteq GameParts /\ {"shaders", "arrays", "buffers"} \subseteq Resources
  BY DEF GameParts, Resources
<1>3. "shaders" \in h => Gives(shaders_deinit, h, h \ {"shaders"})
  BY <1>1, <1>2, GivesOne DEF shaders_deinit
<1>4. "arrays" \in h => Gives(<<"arrays">>, h, h \ {"arrays"})
  BY <1>1, <1>2, GivesOne
<1>5. ASSUME {"buffers", "arrays"} \subseteq h PROVE Gives(vertexArrays_deinit, h, h \ {"buffers", "arrays"})
  <2>1. "arrays" \in h \ {"buffers"} /\ "buffers" \in h
    BY <1>5
  <2>2. ~InUse("buffers", h) /\ ~InUse("arrays", h \ {"buffers"})
    BY <1>1, <1>2
  <2>3. QED
    BY <1>2, <2>1, <2>2, GivesPair DEF vertexArrays_deinit
<1>6. QED
  BY <1>3, <1>4, <1>5

-----------------------------------------------------------------------------
(***************************************************************************)
(* What is held, step by step.                                             *)
(***************************************************************************)

\* A step that gives back rightly.
LEMMA GivingBack ==
  ASSUME Holdings, NEW here, NEW s, NEW next, NEW g, GivesBack(here, s, next), Gives(s, held, g)
  PROVE  pc = here /\ pc' = next /\ held' = g /\ ~badRelease'
<1>1. pc = here /\ pc' = next /\ held' = held \ Listed(s) /\ badRelease' = (badRelease \/ Misplaced(s, held))
  BY DEF GivesBack
<1>2. ~badRelease /\ ~Misplaced(s, held) /\ g = held \ Listed(s)
  BY DEF Holdings, Gives
<1>3. QED
  BY <1>1, <1>2

\* A step that fails with nothing to give back.
LEMMA FailingQuietly ==
  ASSUME Holdings, NEW here, NEW next, GivesBack(here, <<>>, next)
  PROVE  pc = here /\ pc' = next /\ held' = held /\ ~badRelease'
BY GivesNothing, GivingBack, Zenon

\* From the start to the connection.
LEMMA ContextHoldings ==
  ASSUME Holdings, Places, UNCHANGED <<nextSequenceNumber, platform>>,
         \/ egl_init("start", "x11_display", "failed")
         \/ egl_createContext("x11_display", "x11_context", "x11_auth", <<>>, "gbm_card")
         \/ xauth_init
  PROVE  Holdings' /\ Places'
<1>1. CASE egl_init("start", "x11_display", "failed")
  <2>1. CASE Gets("start", {"eglLibrary"}, "x11_display")
    BY <2>1 DEF Gets, Holdings, Places, Map, X11Running, GbmRunning, KEYBOARD, LAST
  <2>2. CASE GivesBack("start", <<>>, "failed")
    <3>1. pc = "start" /\ pc' = "failed" /\ held' = held /\ ~badRelease'
      BY <2>2, FailingQuietly
    <3>2. QED
      BY <3>1 DEF Holdings, Places, Map, X11Running, GbmRunning, KEYBOARD, LAST
  <2>3. QED
    BY <1>1, <2>1, <2>2 DEF egl_init, Attempt
<1>2. CASE egl_createContext("x11_display", "x11_context", "x11_auth", <<>>, "gbm_card")
  <2>1. CASE Gets("x11_display", {"display"}, "x11_context")
    BY <2>1 DEF Gets, Holdings, Places, Map, X11Running, GbmRunning, KEYBOARD, LAST
  <2>2. CASE GivesBack("x11_display", <<>>, "gbm_card")
    <3>1. pc = "x11_display" /\ pc' = "gbm_card" /\ held' = held /\ ~badRelease'
      BY <2>2, FailingQuietly
    <3>2. QED
      BY <3>1 DEF Holdings, Places, Map, X11Running, GbmRunning, KEYBOARD, LAST
  <2>3. CASE Gets("x11_context", {"context"}, "x11_auth")
    BY <2>3 DEF Gets, Holdings, Places, Map, EglParts, X11Running, GbmRunning, KEYBOARD, LAST
  <2>4. CASE GivesBack("x11_context", <<"display">> \o <<>>, "gbm_card")
    <3>1. pc = "x11_context" /\ held = {"eglLibrary", "display"}
      BY <2>4 DEF GivesBack, Holdings
    <3>2. Gives(<<"display">> \o <<>>, held, held \ {"display"})
      BY <3>1, DisplayGiven, GivesNothing, GivesBoth
    <3>3. pc' = "gbm_card" /\ held' = held \ {"display"} /\ ~badRelease'
      BY <2>4, <3>2, GivingBack
    <3>4. QED
      BY <3>1, <3>3 DEF Holdings, Places, Map, X11Running, GbmRunning, KEYBOARD, LAST
  <2>5. QED
    BY <1>2, <2>1, <2>2, <2>3, <2>4 DEF egl_createContext, Attempt
<1>3. CASE xauth_init
  BY <1>3 DEF xauth_init, Gets, Holdings, Places, Map, Authority, EglParts, X11Running, GbmRunning, KEYBOARD, LAST
<1>4. QED
  BY <1>1, <1>2, <1>3

\* A failure of x11Client_init gives back the parts of the client that are there, the
\* authority file and the context.
LEMMA AuthorityUndone ==
  ASSUME Holdings, NEW h, h = EglParts \cup Authority
  PROVE  Gives(xauth_deinit \o egl_destroyContext, h, {"eglLibrary"})
<1>1. Gives(xauth_deinit, h, h \ {"xauthFd", "xauthMap"})
  <2>1. h \cap {"xauthFd", "xauthMap"} = Authority
    BY DEF Authority, EglParts
  <2>2. QED
    BY <2>1, AuthorityGiven DEF Holdings
<1>2. h \ {"xauthFd", "xauthMap"} = EglParts
  BY DEF Authority, EglParts
<1>3. Gives(egl_destroyContext, EglParts, EglParts \ {"context", "display"})
  BY ContextGiven DEF EglParts, GameParts
<1>4. EglParts \ {"context", "display"} = {"eglLibrary"}
  BY DEF EglParts
<1>5. QED
  BY <1>1, <1>2, <1>3, <1>4, GivesBoth

\* x11Client_init gives back the last of its four resources first, from the n-th one on.
LEMMA ClientUndone ==
  ASSUME Holdings, NEW n \in 1 .. 4,
         held = EglParts \cup Authority \cup {x11Client_deinit[i] : i \in n .. 4}
  PROVE  Gives(SubSeq(x11Client_deinit, n, 4) \o (xauth_deinit \o egl_destroyContext), held, {"eglLibrary"})
<1> DEFINE D == {x11Client_deinit[i] : i \in n .. 4}
<1>1. \A i \in n .. 4 : x11Client_deinit[i] \in ClientParts
  BY DEF x11Client_deinit, ClientParts
<1>2. Gives(SubSeq(x11Client_deinit, n, 4), held, held \ D)
  <2>1. "surface" \notin held
    BY <1>1 DEF EglParts, Authority, ClientParts
  <2>2. \A i \in n .. 4 : x11Client_deinit[i] \in held
    OBVIOUS
  <2>3. QED
    BY <2>1, <2>2, ClientGiven
<1>3. D \subseteq ClientParts
  BY <1>1
<1> HIDE DEF D
<1>4. held \ D = EglParts \cup Authority
  <2>1. held = EglParts \cup Authority \cup D
    BY DEF D
  <2>2. (EglParts \cup Authority) \cap ClientParts = {}
    BY DEF EglParts, Authority, ClientParts
  <2>3. QED
    BY <1>3, <2>1, <2>2
<1>5. Gives(xauth_deinit \o egl_destroyContext, held \ D, {"eglLibrary"})
  BY <1>4, AuthorityUndone
<1>6. QED
  BY <1>2, <1>5, GivesBoth

\* All of x11Client_init.
LEMMA ClientHoldings ==
  ASSUME Holdings, Places, UNCHANGED <<nextSequenceNumber, platform>>,
         x11Client_init("x11_authDone", xauth_deinit \o egl_destroyContext, "gbm_card")
  PROVE  Holdings' /\ Places'
<1> DEFINE Undo(n) == SubSeq(x11Client_deinit, n, 4) \o (xauth_deinit \o egl_destroyContext)
<1>1. /\ {x11Client_deinit[i] : i \in 4 .. 4} = {"memFd"}
      /\ {x11Client_deinit[i] : i \in 3 .. 4} = {"memFd", "buffer"}
      /\ {x11Client_deinit[i] : i \in 2 .. 4} = {"memFd", "buffer", "socket"}
      /\ {x11Client_deinit[i] : i \in 1 .. 4} = ClientParts
  <2>1. /\ x11Client_deinit[1] = "setupResponse" /\ x11Client_deinit[2] = "socket"
        /\ x11Client_deinit[3] = "buffer" /\ x11Client_deinit[4] = "memFd"
    BY DEF x11Client_deinit
  <2>2. 4 .. 4 = {4} /\ 3 .. 4 = {3, 4} /\ 2 .. 4 = {2, 3, 4} /\ 1 .. 4 = {1, 2, 3, 4}
    OBVIOUS
  <2>3. QED
    BY <2>1, <2>2 DEF ClientParts
<1>2. ASSUME NEW here, NEW n \in 1 .. 4,
             \/ here = "x11_map" /\ n = 4
             \/ here = "x11_socket" /\ n = 3
             \/ here \in {"x11_connect", "x11_response"} /\ n = 2
             \/ here = "x11_accepted" /\ n = 1,
             GivesBack(here, Undo(n), "gbm_card")
      PROVE  Holdings' /\ Places'
  <2>1. pc = here
    BY <1>2 DEF GivesBack
  <2>2. held = EglParts \cup Authority \cup {x11Client_deinit[i] : i \in n .. 4}
    BY <1>1, <1>2, <2>1 DEF Holdings
  <2>3. Gives(Undo(n), held, {"eglLibrary"})
    BY <2>2, ClientUndone
  <2> HIDE DEF Undo
  <2>4. pc' = "gbm_card" /\ held' = {"eglLibrary"} /\ ~badRelease'
    BY <1>2, <2>3, GivingBack
  <2>5. platform = "none"
    BY <1>2, <2>1 DEF Places
  <2>6. QED
    BY <2>4, <2>5 DEF Holdings, Places, Map, X11Running, GbmRunning
<1>3. CASE GivesBack("x11_memfd", xauth_deinit \o egl_destroyContext, "gbm_card")
  <2>1. pc = "x11_memfd" /\ held = EglParts \cup Authority
    BY <1>3 DEF GivesBack, Holdings
  <2>2. Gives(xauth_deinit \o egl_destroyContext, held, {"eglLibrary"})
    BY <2>1, AuthorityUndone
  <2>3. pc' = "gbm_card" /\ held' = {"eglLibrary"} /\ ~badRelease'
    BY <1>3, <2>2, GivingBack
  <2>4. QED
    BY <2>1, <2>3 DEF Holdings, Places, Map, X11Running, GbmRunning
<1>4. CASE Gets("x11_memfd", {"memFd"}, "x11_map") \/ Gets("x11_map", {"buffer"}, "x11_socket")
  BY <1>4 DEF Gets, Holdings, Places, Authority, EglParts, X11Running, GbmRunning
<1>5. CASE Gets("x11_socket", {"socket"}, "x11_connect") \/ Gets("x11_connect", {}, "x11_response")
  BY <1>5 DEF Gets, Holdings, Places, Authority, EglParts, X11Running, GbmRunning
<1>6. CASE \/ Gets("x11_response", {"setupResponse"}, "x11_accepted")
           \/ Gets("x11_accepted", {}, "x11_authDone")
  BY <1>6 DEF Gets, Holdings, Places, Authority, EglParts, ClientParts, X11Running, GbmRunning
<1>7. QED
  <2>1. \/ GivesBack("x11_map", Undo(4), "gbm_card") \/ GivesBack("x11_socket", Undo(3), "gbm_card")
        \/ GivesBack("x11_connect", Undo(2), "gbm_card") \/ GivesBack("x11_response", Undo(2), "gbm_card")
        \/ GivesBack("x11_accepted", Undo(1), "gbm_card")
        => Holdings' /\ Places'
    <3> HIDE DEF Undo
    <3>1. 1 \in 1 .. 4 /\ 2 \in 1 .. 4 /\ 3 \in 1 .. 4 /\ 4 \in 1 .. 4
      OBVIOUS
    <3>2. ASSUME GivesBack("x11_map", Undo(4), "gbm_card") PROVE Holdings' /\ Places'
      BY <1>2, <3>1, <3>2
    <3>3. ASSUME GivesBack("x11_socket", Undo(3), "gbm_card") PROVE Holdings' /\ Places'
      BY <1>2, <3>1, <3>3
    <3>4. ASSUME NEW here \in {"x11_connect", "x11_response"}, GivesBack(here, Undo(2), "gbm_card")
          PROVE  Holdings' /\ Places'
      BY <1>2, <3>1, <3>4
    <3>5. ASSUME GivesBack("x11_accepted", Undo(1), "gbm_card") PROVE Holdings' /\ Places'
      BY <1>2, <3>1, <3>5
    <3>6. QED
      BY <3>2, <3>3, <3>4, <3>5
  <2>2. QED
    BY <1>3, <1>4, <1>5, <1>6, <2>1 DEF x11Client_init, Attempt

\* The set up.
LEMMA SetupGiven ==
  ASSUME NEW h, NEW M \in SUBSET {"keyboardMap"}, h = EglParts \cup ClientParts \cup M
  PROVE  Gives(SetupResources, h, {"eglLibrary"} \cup M)
<1> DEFINE d == x11Client_deinit
<1>1. /\ d \in Seq(Resources) /\ Len(d) = 4
      /\ d[1] = "setupResponse" /\ d[2] = "socket" /\ d[3] = "buffer" /\ d[4] = "memFd"
  BY DEF x11Client_deinit, Resources, ClientParts
<1>2. SubSeq(d, 1, 4) = d
  BY <1>1, SubSeqFull, Zenon
<1>3. 1 .. 4 = {1, 2, 3, 4}
  OBVIOUS
<1> HIDE DEF d
<1>4. {d[i] : i \in 1 .. 4} = ClientParts
  BY <1>1, <1>3 DEF ClientParts
<1>5. "surface" \notin h
  BY DEF EglParts, ClientParts
<1>6. \A i \in 1 .. 4 : d[i] \in h
  BY <1>4
<1>7. Gives(SubSeq(d, 1, 4), h, h \ {d[i] : i \in 1 .. 4})
  <2>1. 1 \in 1 .. 4
    OBVIOUS
  <2>2. QED
    BY <1>5, <1>6, <2>1, ClientGiven, Zenon DEF d
<1>8. h \ ClientParts = EglParts \cup M
  BY DEF EglParts, ClientParts
<1>9. Gives(egl_destroyContext, EglParts \cup M, (EglParts \cup M) \ {"context", "display"})
  BY ContextGiven DEF EglParts, GameParts
<1>10. (EglParts \cup M) \ {"context", "display"} = {"eglLibrary"} \cup M
  BY DEF EglParts
<1>11. Gives(d, h, EglParts \cup M)
  BY <1>2, <1>4, <1>7, <1>8
<1>12. Gives(d \o egl_destroyContext, h, {"eglLibrary"} \cup M)
  BY <1>9, <1>10, <1>11, GivesBoth
<1>13. QED
  BY <1>12 DEF SetupResources, d

\* The set up of the window fails.
LEMMA SetupFailsHoldings ==
  ASSUME Holdings, Places, UNCHANGED platform,
         NEW here \in {"x11_setup", "x11_wait", "x11_keyboard"}, SetupFails(here)
  PROVE  Holdings' /\ Places'
<1>1. GivesBack(here, SetupResources, "gbm_card") /\ UNCHANGED nextSequenceNumber
  BY DEF SetupFails
<1>2. pc = here
  BY <1>1 DEF GivesBack
<1>3. held = EglParts \cup ClientParts \cup Map /\ Map \in SUBSET {"keyboardMap"}
  BY <1>2 DEF Holdings, Map, EglParts, ClientParts
<1>4. Gives(SetupResources, held, {"eglLibrary"} \cup Map)
  BY <1>3, SetupGiven
<1>5. pc' = "gbm_card" /\ held' = {"eglLibrary"} \cup Map /\ ~badRelease'
  BY <1>1, <1>4, GivingBack
<1>6. platform = "none"
  BY <1>2 DEF Places
<1>7. QED
  BY <1>1, <1>5, <1>6 DEF Holdings, Places, Map, X11Running, GbmRunning

\* All of window_x11_setup.
LEMMA SetupHoldings ==
  ASSUME Holdings, Places, UNCHANGED platform, SendSetup \/ SetupReceive \/ SetupMessage \/ MapKeyboard \/ ReadKeyboard \/ CopyKeyboard
  PROVE  Holdings' /\ Places'
<1>1. CASE SendSetup
  BY <1>1 DEF SendSetup, Holdings, Places, Map, EglParts, ClientParts, X11Running, GbmRunning, KEYBOARD, LAST
<1>2. CASE SetupReceive \/ ReadKeyboard
  <2>1. UNCHANGED <<pc, held, badRelease, nextSequenceNumber>>
    BY <1>2 DEF SetupReceive, x11Client_receive, ReadKeyboard, eglVars
  <2>2. QED
    BY <2>1 DEF Holdings, Places, Map, Authority, OnPlatform
<1>3. CASE SetupMessage
  <2>1. /\ UNCHANGED <<held, badRelease>> /\ pc = "x11_wait"
        /\ \/ UNCHANGED <<pc, nextSequenceNumber>>
           \/ /\ nextSequenceNumber \notin {KEYBOARD, LAST}
              /\ nextSequenceNumber' = nextSequenceNumber + 1 /\ UNCHANGED pc
           \/ nextSequenceNumber = LAST /\ pc' = "surface" /\ UNCHANGED nextSequenceNumber
    BY <1>3 DEF SetupMessage, Accepted
  <2>2. /\ held = EglParts \cup ClientParts \cup Map /\ ~badRelease /\ platform = "none"
        /\ "keyboardMap" \in held => nextSequenceNumber >= KEYBOARD
        /\ nextSequenceNumber \in 2 .. LAST /\ (nextSequenceNumber = LAST => "keyboardMap" \in held)
    BY <2>1 DEF Holdings, Places
  <2>3. CASE pc' = "x11_wait"
    BY <2>1, <2>2, <2>3 DEF Holdings, Places, Map, EglParts, ClientParts, X11Running, GbmRunning, KEYBOARD, LAST
  <2>4. CASE nextSequenceNumber = LAST /\ pc' = "surface" /\ UNCHANGED nextSequenceNumber
    BY <2>1, <2>2, <2>4 DEF Holdings, Places, Map, EglParts, ClientParts, X11Running, GbmRunning, KEYBOARD, LAST
  <2>5. QED
    BY <2>1, <2>3, <2>4
<1>4. CASE MapKeyboard
  <2>1. /\ UNCHANGED <<badRelease, nextSequenceNumber>> /\ pc = "x11_wait" /\ pc' = "x11_keyboard"
        /\ nextSequenceNumber = KEYBOARD /\ held' = held \cup {"keyboardMap"}
    BY <1>4 DEF MapKeyboard, Accepted, Gets
  <2>2. QED
    BY <2>1 DEF Holdings, Places, Map, EglParts, ClientParts, X11Running, GbmRunning, KEYBOARD, LAST
<1>5. CASE CopyKeyboard
  <2>1. /\ UNCHANGED <<badRelease, held>> /\ pc = "x11_keyboard" /\ pc' = "x11_wait"
        /\ nextSequenceNumber' = nextSequenceNumber + 1
    BY <1>5 DEF CopyKeyboard
  <2>2. QED
    BY <2>1 DEF Holdings, Places, Map, EglParts, ClientParts, X11Running, GbmRunning, KEYBOARD, LAST
<1>6. QED
  BY <1>1, <1>2, <1>3, <1>4, <1>5

\* All of window_x11_init.
LEMMA X11InitHoldings ==
  ASSUME Holdings, Places, UNCHANGED platform, window_x11_init
  PROVE  Holdings' /\ Places'
<1>1. UNCHANGED x11Vars => UNCHANGED nextSequenceNumber
  BY DEF x11Vars
<1>2. CASE GivesBack("x11_authDone", xauth_deinit, "x11_setup") /\ UNCHANGED x11Vars
  <2>1. /\ pc = "x11_authDone" /\ held = EglParts \cup Authority \cup ClientParts /\ platform = "none"
        /\ "xauthFd" \in held <=> "xauthMap" \in held
    BY <1>2 DEF GivesBack, Holdings, Places
  <2>2. Gives(xauth_deinit, held, held \ {"xauthFd", "xauthMap"})
    BY <2>1, AuthorityGiven DEF Authority
  <2>3. pc' = "x11_setup" /\ held' = held \ {"xauthFd", "xauthMap"} /\ ~badRelease'
    BY <1>2, <2>2, GivingBack
  <2>4. QED
    BY <1>1, <1>2, <2>1, <2>3 DEF Holdings, Places, Authority, EglParts, ClientParts, X11Running, GbmRunning
<1>3. CASE SetupFails("x11_setup") \/ SetupReceiveFails \/ SetupRefuses \/ MapKeyboardFails \/ ReadKeyboardFails
  BY <1>3, SetupFailsHoldings DEF SetupReceiveFails, SetupRefuses, MapKeyboardFails, ReadKeyboardFails
<1>4. QED
  BY <1>1, <1>2, <1>3, ContextHoldings, ClientHoldings, SetupHoldings DEF window_x11_init

\* The bare display.
LEMMA GbmInitHoldings ==
  ASSUME Holdings, Places, UNCHANGED <<nextSequenceNumber, platform>>, window_gbm_init
  PROVE  Holdings' /\ Places'
<1> DEFINE egl == {"eglLibrary"}
<1>1. Map \in SUBSET {"keyboardMap"}
  BY DEF Map
<1>2. ASSUME NEW here \in {"gbm_card", "gbm_connector", "gbm_library", "gbm_device", "gbm_display",
                           "gbm_context", "gbm_surface"},
             NEW s, GivesBack(here, s, "cleanup_egl"), Gives(s, held, egl \cup Map)
      PROVE  Holdings' /\ Places'
  <2>1. pc = here /\ pc' = "cleanup_egl" /\ held' = egl \cup Map /\ ~badRelease'
    BY <1>2, GivingBack
  <2>2. platform = "none"
    BY <2>1 DEF Places
  <2>3. QED
    BY <2>1, <2>2 DEF Holdings, Places, Map, X11Running, GbmRunning
<1>3. CASE drm_init("gbm_library", "cleanup_egl")
  <2>1. CASE Gets("gbm_card", {"card"}, "gbm_connector") \/ Gets("gbm_connector", {}, "gbm_library")
    BY <2>1 DEF Gets, Holdings, Places, Map, X11Running, GbmRunning
  <2>2. CASE GivesBack("gbm_card", <<>>, "cleanup_egl")
    <3>1. held = egl \cup Map
      BY <2>2 DEF GivesBack, Holdings
    <3>2. QED
      BY <1>2, <2>2, <3>1, GivesNothing
  <2>3. CASE GivesBack("gbm_connector", drm_deinit, "cleanup_egl")
    <3>1. held = {"eglLibrary", "card"} \cup Map
      BY <2>3 DEF GivesBack, Holdings
    <3>2. Gives(drm_deinit, held, held \ {"card"}) /\ held \ {"card"} = egl \cup Map
      BY <1>1, <3>1, CardGiven
    <3>3. QED
      BY <1>2, <2>3, <3>2
  <2>4. QED
    BY <1>3, <2>1, <2>2, <2>3 DEF drm_init, Attempt
<1>4. CASE gbm_init("gbm_display", "cleanup_egl")
  <2>1. CASE Gets("gbm_library", {"gbmLibrary"}, "gbm_device") \/ Gets("gbm_device", {"gbmDevice"}, "gbm_display")
    BY <2>1 DEF Gets, Holdings, Places, Map, X11Running, GbmRunning
  <2>2. CASE GivesBack("gbm_library", drm_deinit, "cleanup_egl")
    <3>1. held = {"eglLibrary", "card"} \cup Map
      BY <2>2 DEF GivesBack, Holdings
    <3>2. Gives(drm_deinit, held, held \ {"card"}) /\ held \ {"card"} = egl \cup Map
      BY <1>1, <3>1, CardGiven
    <3>3. QED
      BY <1>2, <2>2, <3>2
  <2>3. CASE GivesBack("gbm_device", <<"gbmLibrary">> \o drm_deinit, "cleanup_egl")
    <3> DEFINE h == held \ {"gbmLibrary"}
    <3>1. held = {"eglLibrary", "card", "gbmLibrary"} \cup Map
      BY <2>3 DEF GivesBack, Holdings
    <3>2. Gives(<<"gbmLibrary">>, held, h)
      BY <1>1, <3>1, GbmLibraryGiven
    <3>3. Gives(drm_deinit, h, h \ {"card"}) /\ h \ {"card"} = egl \cup Map
      BY <1>1, <3>1, CardGiven
    <3> HIDE DEF h
    <3>4. Gives(<<"gbmLibrary">> \o drm_deinit, held, egl \cup Map)
      BY <3>2, <3>3, GivesBoth
    <3>5. QED
      BY <1>2, <2>3, <3>4
  <2>4. QED
    BY <1>4, <2>1, <2>2, <2>3 DEF gbm_init, Attempt
<1>5. CASE egl_createContext("gbm_display", "gbm_context", "gbm_surface", gbm_deinit \o drm_deinit, "cleanup_egl")
  <2> DEFINE s == gbm_deinit \o drm_deinit
  <2>1. CASE Gets("gbm_display", {"display"}, "gbm_context") \/ Gets("gbm_context", {"context"}, "gbm_surface")
    BY <2>1 DEF Gets, Holdings, Places, Map, X11Running, GbmRunning
  <2>2. ASSUME NEW h, h = {"eglLibrary", "card", "gbmLibrary", "gbmDevice"} \cup Map
        PROVE  Gives(s, h, egl \cup Map)
    <3>1. Gives(s, h, h \ {"gbmDevice", "gbmLibrary", "card"})
      BY <1>1, <2>2, GbmAndCardGiven
    <3>2. h \ {"gbmDevice", "gbmLibrary", "card"} = egl \cup Map
      BY <1>1, <2>2
    <3>3. QED
      BY <3>1, <3>2
  <2>3. CASE GivesBack("gbm_display", s, "cleanup_egl")
    <3>1. held = {"eglLibrary", "card", "gbmLibrary", "gbmDevice"} \cup Map
      BY <2>3 DEF GivesBack, Holdings
    <3>2. QED
      BY <1>2, <2>2, <2>3, <3>1
  <2>4. CASE GivesBack("gbm_context", <<"display">> \o s, "cleanup_egl")
    <3> DEFINE h == held \ {"display"}
    <3>1. held = {"eglLibrary", "card", "gbmLibrary", "gbmDevice", "display"} \cup Map
      BY <2>4 DEF GivesBack, Holdings
    <3>2. Gives(<<"display">>, held, h)
      BY <1>1, <3>1, DisplayGiven
    <3>3. h = {"eglLibrary", "card", "gbmLibrary", "gbmDevice"} \cup Map
      BY <1>1, <3>1
    <3> HIDE DEF h, s
    <3>4. Gives(s, h, egl \cup Map)
      BY <2>2, <3>3
    <3>5. Gives(<<"display">> \o s, held, egl \cup Map)
      BY <3>2, <3>4, GivesBoth
    <3>6. QED
      BY <1>2, <2>4, <3>5
  <2>5. QED
    BY <1>5, <2>1, <2>3, <2>4 DEF egl_createContext, Attempt
<1>6. CASE Attempt("gbm_surface", {"gbmSurface"}, "surface", egl_destroyContext \o gbm_deinit \o drm_deinit, "cleanup_egl")
  <2>1. CASE Gets("gbm_surface", {"gbmSurface"}, "surface")
    BY <2>1 DEF Gets, Holdings, Places, Map, EglParts, CardParts, X11Running, GbmRunning
  <2>2. CASE GivesBack("gbm_surface", egl_destroyContext \o gbm_deinit \o drm_deinit, "cleanup_egl")
    <3> DEFINE h == held \ {"context", "display"}
               g == h \ {"gbmDevice", "gbmLibrary"}
    <3>1. held = {"eglLibrary", "card", "gbmLibrary", "gbmDevice", "display", "context"} \cup Map
      BY <2>2 DEF GivesBack, Holdings
    <3>2. Gives(egl_destroyContext, held, h)
      BY <1>1, <3>1, ContextGiven DEF GameParts
    <3>3. Gives(gbm_deinit, h, g)
      BY <1>1, <3>1, GbmGiven
    <3>4. Gives(drm_deinit, g, g \ {"card"}) /\ g \ {"card"} = egl \cup Map
      BY <1>1, <3>1, CardGiven
    <3> HIDE DEF h, g
    <3>5. Gives(egl_destroyContext \o gbm_deinit, held, g)
      BY <3>2, <3>3, GivesBoth
    <3>6. Gives((egl_destroyContext \o gbm_deinit) \o drm_deinit, held, egl \cup Map)
      BY <3>4, <3>5, GivesBoth
    <3>7. QED
      BY <1>2, <2>2, <3>6
  <2>3. QED
    BY <1>6, <2>1, <2>2 DEF Attempt
<1>7. QED
  BY <1>3, <1>4, <1>5, <1>6 DEF window_gbm_init

\* The surface, GL and the game.
LEMMA SurfaceHoldings ==
  ASSUME Holdings, Places, UNCHANGED nextSequenceNumber, SurfaceStep
  PROVE  Holdings' /\ Places'
<1>1. pc = "surface" /\ platform' = IF "card" \in held THEN "GBM" ELSE "X11"
  BY DEF SurfaceStep, egl_createSurface, Attempt, Gets, GivesBack
<1>2. \/ held = EglParts \cup ClientParts \cup {"keyboardMap"}
      \/ held = EglParts \cup CardParts \cup Map
  BY <1>1 DEF Holdings
<1>3. CASE Gets("surface", {"surface"}, "gl")
  BY <1>1, <1>2, <1>3, FrameBufferNames
     DEF Gets, Holdings, Places, OnPlatform, Map, EglParts, ClientParts, CardParts, X11Running, GbmRunning
<1>4. CASE GivesBack("surface", <<>>, "cleanup_platform")
  <2>1. pc' = "cleanup_platform" /\ held' = held /\ ~badRelease'
    BY <1>4, FailingQuietly
  <2>2. QED
    BY <1>1, <1>2, <2>1, FrameBufferNames
       DEF Holdings, Places, OnPlatform, Map, EglParts, ClientParts, CardParts, X11Running, GbmRunning
<1>5. QED
  BY <1>3, <1>4 DEF SurfaceStep, egl_createSurface, Attempt

\* With a surface: what is on top of the platform at each place.
OnTop(p) ==
  IF p = "cleanup_platform" THEN {}
  ELSE IF p \in {"gl", "game_shaders", "cleanup_eglSurface"} THEN {"surface"}
  ELSE IF p = "game_arrays" THEN {"surface", "shaders"}
  ELSE IF p = "game_buffers" THEN {"surface", "shaders", "arrays"}
  ELSE {"surface"} \cup GameParts

\* The places at which there is a surface.
Starting == {"gl", "game_shaders", "game_arrays", "game_buffers", "game_vertices", "game_check", "run"}
Cleaning == {"cleanup_game", "cleanup_eglSurface", "cleanup_platform"}
WithSurface == Starting \cup Cleaning \cup X11Running \cup GbmRunning

\* Above the platform there are only the surface and the game.
LEMMA OnTopOfPlatform ==
  ASSUME Holdings, pc \in WithSurface
  PROVE  /\ held = OnPlatform \cup OnTop(pc)
         /\ OnTop(pc) \subseteq {"surface"} \cup GameParts
BY DEF Holdings, WithSurface, Starting, Cleaning, X11Running, GbmRunning, OnTop, GameParts

\* The platform has none of these.
LEMMA PlatformApart == OnPlatform \cap ({"surface", "xauthFd", "xauthMap"} \cup GameParts) = {}
BY FrameBufferNames DEF OnPlatform, EglParts, ClientParts, CardParts, GameParts, Map

\* A step from one such place to another, of the same platform.
LEMMA SurfacePlaces ==
  ASSUME Holdings, Places, UNCHANGED <<nextSequenceNumber, platform>>,
         pc \in WithSurface, pc' \in WithSurface, ~badRelease', held' = OnPlatform \cup OnTop(pc'),
         pc' \in Starting => platform \in {"X11", "GBM"},
         pc' \in X11Running => platform = "X11", pc' \in GbmRunning => platform = "GBM"
  PROVE  Holdings' /\ Places'
<1>1. held = OnPlatform \cup OnTop(pc) /\ OnTop(pc) \subseteq {"surface"} \cup GameParts
  BY OnTopOfPlatform
<1>2. OnTop(pc') \subseteq {"surface"} \cup GameParts
  BY DEF OnTop, GameParts
<1>3. \A r \in {"keyboardMap", "xauthFd", "xauthMap", "fb1", "fb2", "fb3"} : r \in held' <=> r \in held
  BY <1>1, <1>2 DEF GameParts
<1>4. Map' = Map /\ (held \cap FrameBuffers)' = held \cap FrameBuffers
  BY <1>3, FrameBufferNames DEF Map
<1>5. OnPlatform' = OnPlatform
  BY <1>4 DEF OnPlatform
<1>6. held' = OnPlatform' \cup OnTop(pc')
  BY <1>5
<1>7. Holdings'
  BY <1>3, <1>6 DEF Holdings, OnTop, WithSurface, Starting, Cleaning, X11Running, GbmRunning
<1>8. Places'
  BY DEF Places, WithSurface, Starting, Cleaning, X11Running, GbmRunning
<1>9. QED
  BY <1>7, <1>8

\* A part of the start succeeds.
LEMMA SurfaceGets ==
  ASSUME Holdings, Places, UNCHANGED <<nextSequenceNumber, platform>>,
         NEW here \in Starting, NEW R, NEW next \in Starting, Gets(here, R, next),
         OnTop(next) = OnTop(here) \cup R
  PROVE  Holdings' /\ Places'
<1>1. pc = here /\ pc' = next /\ held' = held \cup R /\ ~badRelease'
  BY DEF Gets, Holdings
<1>2. pc \in WithSurface /\ pc' \in WithSurface /\ platform \in {"X11", "GBM"}
  BY <1>1 DEF WithSurface, Places, Starting
<1>3. held' = OnPlatform \cup OnTop(pc')
  BY <1>1, <1>2, OnTopOfPlatform
<1>4. pc' \notin X11Running \cup GbmRunning
  BY <1>1 DEF Starting, X11Running, GbmRunning
<1>5. QED
  BY <1>1, <1>2, <1>3, <1>4, SurfacePlaces

\* A part of the start fails, or a part of the end.
LEMMA SurfaceGivesBack ==
  ASSUME Holdings, Places, UNCHANGED <<nextSequenceNumber, platform>>,
         NEW here \in WithSurface, NEW s, NEW next \in Cleaning, GivesBack(here, s, next),
         Gives(s, held, OnPlatform \cup OnTop(next))
  PROVE  Holdings' /\ Places'
<1>1. pc = here /\ pc' = next /\ held' = OnPlatform \cup OnTop(next) /\ ~badRelease'
  BY GivingBack
<1>2. pc \in WithSurface /\ pc' \in WithSurface /\ pc' \notin Starting \cup X11Running \cup GbmRunning
  BY <1>1 DEF WithSurface, Cleaning, Starting, X11Running, GbmRunning
<1>3. QED
  BY <1>1, <1>2, SurfacePlaces

\* gl_init and game_init, which give back what they got themselves.
LEMMA GameHoldings ==
  ASSUME Holdings, Places, UNCHANGED <<nextSequenceNumber, platform>>,
         gl_init("game_shaders", "cleanup_eglSurface") \/ game_init("run", "cleanup_eglSurface")
  PROVE  Holdings' /\ Places'
<1> DEFINE P == OnPlatform
           top == {"surface"}
<1>1. P \cap ({"surface"} \cup GameParts) = {}
  BY PlatformApart
<1>2. ASSUME NEW here \in {"gl", "game_shaders", "game_arrays", "game_buffers", "game_vertices", "game_check"},
             NEW s, GivesBack(here, s, "cleanup_eglSurface"),
             held = P \cup OnTop(here) => Gives(s, held, P \cup top)
      PROVE  Holdings' /\ Places'
  <2>1. pc = here /\ here \in WithSurface /\ "cleanup_eglSurface" \in Cleaning
    BY <1>2 DEF GivesBack, WithSurface, Starting, Cleaning
  <2>2. held = P \cup OnTop(here)
    BY <2>1, OnTopOfPlatform
  <2>3. OnTop("cleanup_eglSurface") = top
    BY DEF OnTop
  <2>4. QED
    BY <1>2, <2>1, <2>2, <2>3, SurfaceGivesBack
<1>3. /\ OnTop("gl") = {"surface"} /\ OnTop("game_shaders") = {"surface"}
      /\ OnTop("game_arrays") = {"surface", "shaders"}
      /\ OnTop("game_buffers") = {"surface", "shaders", "arrays"}
      /\ OnTop("game_vertices") = {"surface"} \cup GameParts
      /\ OnTop("game_check") = {"surface"} \cup GameParts /\ OnTop("run") = {"surface"} \cup GameParts
  BY DEF OnTop
<1>4. CASE Gets("gl", {}, "game_shaders") \/ Gets("game_shaders", {"shaders"}, "game_arrays")
           \/ Gets("game_arrays", {"arrays"}, "game_buffers")
  BY <1>3, <1>4, SurfaceGets DEF Starting
<1>5. CASE Gets("game_buffers", {"buffers"}, "game_vertices") \/ Gets("game_vertices", {}, "game_check")
           \/ Gets("game_check", {}, "run")
  <2>1. OnTop("game_vertices") = OnTop("game_buffers") \cup {"buffers"}
    BY <1>3 DEF GameParts
  <2>2. QED
    BY <1>3, <1>5, <2>1, SurfaceGets DEF Starting
<1>6. CASE \E here \in {"gl", "game_shaders"} : GivesBack(here, <<>>, "cleanup_eglSurface")
  BY <1>2, <1>3, <1>6, GivesNothing, ZenonT(80)
<1>7. CASE GivesBack("game_arrays", shaders_deinit, "cleanup_eglSurface")
  <2>1. ASSUME held = P \cup {"surface", "shaders"} PROVE Gives(shaders_deinit, held, P \cup top)
    <3>1. Gives(shaders_deinit, held, held \ {"shaders"})
      BY <2>1, GameGiven
    <3>2. held \ {"shaders"} = P \cup top
      BY <1>1, <2>1 DEF GameParts
    <3>3. QED
      BY <3>1, <3>2
  <2>2. QED
    BY <1>2, <1>3, <1>7, <2>1
<1>8. CASE GivesBack("game_buffers", <<"arrays">> \o shaders_deinit, "cleanup_eglSurface")
  <2>1. ASSUME held = P \cup {"surface", "shaders", "arrays"}
        PROVE  Gives(<<"arrays">> \o shaders_deinit, held, P \cup top)
    <3> DEFINE h == held \ {"arrays"}
    <3>1. Gives(<<"arrays">>, held, h)
      BY <2>1, GameGiven
    <3>2. "shaders" \in h /\ h \ {"shaders"} = P \cup top
      BY <1>1, <2>1 DEF GameParts
    <3> HIDE DEF h
    <3>3. Gives(shaders_deinit, h, P \cup top)
      BY <3>2, GameGiven
    <3>4. QED
      BY <3>1, <3>3, GivesBoth
  <2>2. QED
    BY <1>2, <1>3, <1>8, <2>1
<1>9. ASSUME held = P \cup ({"surface"} \cup GameParts)
      PROVE  Gives(vertexArrays_deinit \o shaders_deinit, held, P \cup top)
  <2> DEFINE h == held \ {"buffers", "arrays"}
  <2>1. Gives(vertexArrays_deinit, held, h)
    BY <1>9, GameGiven DEF GameParts
  <2>2. "shaders" \in h /\ h \ {"shaders"} = P \cup top
    BY <1>1, <1>9 DEF GameParts
  <2> HIDE DEF h
  <2>3. Gives(shaders_deinit, h, P \cup top)
    BY <2>2, GameGiven
  <2>4. QED
    BY <2>1, <2>3, GivesBoth
<1>10. CASE \E here \in {"game_vertices", "game_check"} :
              GivesBack(here, vertexArrays_deinit \o shaders_deinit, "cleanup_eglSurface")
  BY <1>2, <1>3, <1>9, <1>10
<1>11. QED
  <2>1. CASE gl_init("game_shaders", "cleanup_eglSurface")
    BY <1>4, <1>6, <2>1 DEF gl_init, Attempt
  <2>2. CASE shaders_init("game_arrays", "cleanup_eglSurface")
    BY <1>4, <1>6, <2>2 DEF shaders_init, Attempt
  <2>3. CASE vertexArrays_init("game_check", shaders_deinit, "cleanup_eglSurface")
    BY <1>4, <1>5, <1>7, <1>8, <1>10, <2>3 DEF vertexArrays_init, Attempt
  <2>4. CASE Attempt("game_check", {}, "run", game_deinit, "cleanup_eglSurface")
    BY <1>5, <1>10, <2>4 DEF Attempt, game_deinit
  <2>5. QED
    BY <2>1, <2>2, <2>3, <2>4 DEF game_init

\* The labels, and the end of a run.
LEMMA CleanupHoldings ==
  ASSUME Holdings, Places, UNCHANGED <<nextSequenceNumber, platform>>, Cleanup
  PROVE  Holdings' /\ Places'
<1> DEFINE P == OnPlatform
<1>1. P \cap ({"surface", "xauthFd", "xauthMap"} \cup GameParts) = {} /\ Map \in SUBSET {"keyboardMap"}
  BY PlatformApart DEF Map
<1>2. CASE GivesBack("cleanup_game", game_deinit, "cleanup_eglSurface")
  <2> DEFINE h == held \ {"buffers", "arrays"}
  <2>1. pc = "cleanup_game" /\ pc \in WithSurface
    BY <1>2 DEF GivesBack, WithSurface, Cleaning
  <2>2. held = P \cup ({"surface"} \cup GameParts)
    BY <2>1, OnTopOfPlatform DEF OnTop
  <2>3. Gives(vertexArrays_deinit, held, h)
    BY <2>2, GameGiven DEF GameParts
  <2>4. "shaders" \in h /\ h \ {"shaders"} = P \cup {"surface"}
    BY <1>1, <2>2 DEF GameParts
  <2> HIDE DEF h
  <2>5. Gives(shaders_deinit, h, P \cup {"surface"})
    BY <2>4, GameGiven
  <2>6. Gives(game_deinit, held, P \cup OnTop("cleanup_eglSurface"))
    BY <2>3, <2>5, GivesBoth DEF game_deinit, OnTop
  <2>7. QED
    BY <1>2, <2>1, <2>6, SurfaceGivesBack DEF WithSurface, Cleaning
<1>3. CASE GivesBack("cleanup_eglSurface", egl_destroySurface, "cleanup_platform")
  <2>1. pc = "cleanup_eglSurface" /\ pc \in WithSurface
    BY <1>3 DEF GivesBack, WithSurface, Cleaning
  <2>2. held = P \cup {"surface"}
    BY <2>1, OnTopOfPlatform DEF OnTop
  <2>3. Gives(egl_destroySurface, held, held \ {"surface"})
    BY <1>1, <2>2, SurfaceGiven DEF GameParts
  <2>4. held \ {"surface"} = P \cup OnTop("cleanup_platform")
    BY <1>1, <2>2 DEF OnTop
  <2>5. QED
    BY <1>3, <2>1, <2>3, <2>4, SurfaceGivesBack DEF WithSurface, Cleaning
<1>4. CASE GivesBack("cleanup_platform", window_x11_deinit, "cleanup_egl") /\ platform = "X11"
  <2> DEFINE h == EglParts \cup ClientParts \cup {}
  <2>1. pc = "cleanup_platform" /\ held = EglParts \cup ClientParts \cup {"keyboardMap"}
    BY <1>4 DEF GivesBack, Holdings, OnPlatform
  <2>2. "keyboardMap" \in Resources /\ ~InUse("keyboardMap", held) /\ "keyboardMap" \in held
    BY <2>1, Users DEF Resources
  <2>3. Gives(<<"keyboardMap">>, held, held \ {"keyboardMap"})
    BY <2>2, GivesOne
  <2>4. held \ {"keyboardMap"} = h
    BY <2>1 DEF EglParts, ClientParts
  <2>5. Gives(SetupResources, h, {"eglLibrary"} \cup {})
    BY SetupGiven
  <2> HIDE DEF h
  <2>6. Gives(window_x11_deinit, held, {"eglLibrary"} \cup {})
    BY <2>3, <2>4, <2>5, GivesBoth DEF window_x11_deinit
  <2>7. pc' = "cleanup_egl" /\ held' = {"eglLibrary"} \cup {} /\ ~badRelease'
    BY <1>4, <2>6, GivingBack
  <2>8. QED
    BY <2>7 DEF Holdings, Places, Map, X11Running, GbmRunning
<1>5. CASE GivesBack("cleanup_platform", window_gbm_deinit, "cleanup_egl") /\ platform # "X11"
  <2> DEFINE h1 == held \ {"fb1", "fb2", "fb3", "gbmSurface"}
             h2 == h1 \ {"context", "display"}
             h3 == h2 \ {"gbmDevice", "gbmLibrary"}
  <2>1. pc = "cleanup_platform" /\ held = EglParts \cup CardParts \cup Map \cup (held \cap {"fb1", "fb2", "fb3"})
    BY <1>5, FrameBufferNames DEF GivesBack, Holdings, OnPlatform
  <2>2. Gives(gbm_surfaceDestroy, held, h1)
    BY <1>1, <2>1, FrameBuffersGiven DEF EglParts, CardParts
  <2>3. h1 = EglParts \cup {"card", "gbmLibrary", "gbmDevice"} \cup Map
    BY <1>1, <2>1 DEF EglParts, CardParts
  <2> HIDE DEF h1
  <2>4. Gives(egl_destroyContext, h1, h2)
    BY <1>1, <2>3, ContextGiven DEF EglParts, GameParts
  <2>5. h2 = {"eglLibrary", "card", "gbmLibrary", "gbmDevice"} \cup Map
    BY <1>1, <2>3 DEF EglParts
  <2> HIDE DEF h2
  <2>6. Gives(gbm_deinit, h2, h3)
    BY <1>1, <2>5, GbmGiven
  <2>7. h3 = {"eglLibrary", "card"} \cup Map
    BY <1>1, <2>5
  <2> HIDE DEF h3
  <2>8. Gives(drm_deinit, h3, h3 \ {"card"}) /\ h3 \ {"card"} = {"eglLibrary"} \cup Map
    BY <1>1, <2>7, CardGiven
  <2>9. Gives(gbm_surfaceDestroy \o egl_destroyContext, held, h2)
    BY <2>2, <2>4, GivesBoth
  <2>10. Gives((gbm_surfaceDestroy \o egl_destroyContext) \o gbm_deinit, held, h3)
    BY <2>6, <2>9, GivesBoth
  <2>11. Gives(window_gbm_deinit, held, {"eglLibrary"} \cup Map)
    BY <2>8, <2>10, GivesBoth DEF window_gbm_deinit
  <2>12. pc' = "cleanup_egl" /\ held' = {"eglLibrary"} \cup Map /\ ~badRelease'
    BY <1>5, <2>11, GivingBack
  <2>13. QED
    BY <1>5, <2>12 DEF Holdings, Places, Map, X11Running, GbmRunning
<1>6. CASE GivesBack("cleanup_egl", egl_deinit, "failed")
  <2>1. pc = "cleanup_egl" /\ held = {"eglLibrary"} \cup Map
    BY <1>6 DEF GivesBack, Holdings
  <2>2. Gives(egl_deinit, held, held \ {"eglLibrary"})
    BY <1>1, <2>1, LibraryGiven
  <2>3. held \ {"eglLibrary"} = Map
    BY <1>1, <2>1
  <2>4. pc' = "failed" /\ held' = Map /\ ~badRelease'
    BY <1>6, <2>2, <2>3, GivingBack
  <2>5. QED
    BY <1>1, <2>1, <2>4 DEF Holdings, Places, Map, X11Running, GbmRunning
<1>7. QED
  BY <1>2, <1>3, <1>4, <1>5, <1>6 DEF Cleanup

\* The program starts to run, and runs.
LEMMA StartedHoldings ==
  ASSUME Holdings, Places, Started
  PROVE  Holdings' /\ Places'
<1>1. /\ pc = "run" /\ held' = held /\ ~badRelease' /\ UNCHANGED <<nextSequenceNumber, platform>>
      /\ pc' = IF platform = "X11" THEN "x11_run" ELSE "gbm_run"
  BY DEF Started, Gets, Holdings, Plain, x11Vars
<1>2. pc \in WithSurface /\ pc' \in WithSurface /\ pc' \notin Starting
  BY <1>1 DEF WithSurface, Starting, X11Running, GbmRunning
<1>3. platform \in {"X11", "GBM"}
  BY <1>1 DEF Places
<1>4. OnTop(pc') = OnTop(pc)
  BY <1>1 DEF OnTop
<1>5. held' = OnPlatform \cup OnTop(pc')
  BY <1>1, <1>2, <1>4, OnTopOfPlatform
<1>6. (pc' \in X11Running => platform = "X11") /\ (pc' \in GbmRunning => platform = "GBM")
  BY <1>1, <1>3 DEF X11Running, GbmRunning
<1>7. QED
  BY <1>1, <1>2, <1>5, <1>6, SurfacePlaces

\* The loop of the X11 window gets and gives back nothing.
LEMMA X11RunPlaces ==
  ASSUME window_x11_run
  PROVE  /\ pc \in X11Running /\ pc' \in X11Running \cup {"done", "cleanup_game"}
         /\ held' = held /\ badRelease' = badRelease /\ UNCHANGED nextSequenceNumber
<1>1. CASE RunStart
  BY <1>1 DEF RunStart, X11Running
<1>2. CASE PollReads
  BY <1>2 DEF PollReads, x11Client_receive, X11Running
<1>3. CASE PollDraws
  BY <1>3 DEF PollDraws, X11Running, x11Vars
<1>4. CASE RunDraw
  BY <1>4 DEF RunDraw, X11Running, x11Vars
<1>5. CASE PollEnds
  BY <1>5 DEF PollEnds, X11Running, x11Vars
<1>6. CASE RunSendFails
  BY <1>6 DEF RunSendFails, X11Running, x11Vars
<1>7. CASE RunEnds
  BY <1>7 DEF RunEnds, X11Running, x11Vars
<1>8. CASE MessagesDone
  BY <1>8 DEF MessagesDone, X11Running, x11Vars
<1>9. CASE RunMessage
  BY <1>9 DEF RunMessage, X11Running
<1>10. QED
  BY <1>1, <1>2, <1>3, <1>4, <1>5, <1>6, <1>7, <1>8, <1>9 DEF window_x11_run

\* So it keeps the invariant.
LEMMA X11RunHoldings ==
  ASSUME Holdings, Places, window_x11_run, UNCHANGED platform
  PROVE  Holdings' /\ Places'
<1>1. /\ pc \in X11Running /\ pc' \in X11Running \cup {"done", "cleanup_game"}
      /\ held' = held /\ badRelease' = badRelease /\ UNCHANGED nextSequenceNumber
  BY X11RunPlaces
<1>2. platform = "X11"
  BY <1>1 DEF Places
<1>3. CASE pc' = "done"
  BY <1>1, <1>3 DEF Holdings, Places, X11Running, GbmRunning
<1>4. CASE pc' # "done"
  <2>1. pc \in WithSurface /\ pc' \in WithSurface /\ pc' \notin Starting \cup GbmRunning
    BY <1>1, <1>4 DEF WithSurface, Starting, Cleaning, X11Running, GbmRunning
  <2>2. OnTop(pc') = OnTop(pc)
    BY <1>1, <1>4 DEF OnTop, X11Running
  <2>3. held' = OnPlatform \cup OnTop(pc') /\ ~badRelease'
    BY <1>1, <2>1, <2>2, OnTopOfPlatform DEF Holdings
  <2>4. QED
    BY <1>1, <1>2, <2>1, <2>3, SurfacePlaces
<1>5. QED
  BY <1>3, <1>4

\* Making a frame buffer adds to what the platform holds.
LEMMA FrameBufferHoldings ==
  ASSUME Holdings, Places, UNCHANGED <<nextSequenceNumber, platform>>,
         NEW here \in GbmRunning, NEW next \in GbmRunning, NEW b \in Bos,
         Gets(here, {FrameBuffer(b)}, next)
  PROVE  Holdings' /\ Places'
<1>1. pc = here /\ pc' = next /\ held' = held \cup {FrameBuffer(b)} /\ ~badRelease'
  BY DEF Gets, Holdings
<1>2. platform = "GBM" /\ held = OnPlatform \cup {"surface"} \cup GameParts
  BY <1>1 DEF Places, Holdings
<1>3. FrameBuffer(b) \in FrameBuffers
  BY DEF FrameBuffers
<1>4. Map' = Map
  BY <1>1, <1>3, FrameBufferNames DEF Map
<1>5. held' \cap FrameBuffers = (held \cap FrameBuffers) \cup {FrameBuffer(b)}
  BY <1>1, <1>3
<1>6. OnPlatform' = OnPlatform \cup {FrameBuffer(b)}
  BY <1>2, <1>4, <1>5 DEF OnPlatform, FrameBuffers, FrameBuffer, Bos
<1>7. held' = OnPlatform' \cup {"surface"} \cup GameParts
  BY <1>1, <1>2, <1>6
<1>8. \A r \in {"keyboardMap", "xauthFd", "xauthMap"} : r \in held' <=> r \in held
  BY <1>1, <1>3, FrameBufferNames
<1>9. Holdings'
  BY <1>1, <1>7, <1>8 DEF Holdings, X11Running, GbmRunning
<1>10. Places'
  BY <1>1, <1>2 DEF Places, X11Running, GbmRunning
<1>11. QED
  BY <1>9, <1>10

\* The loop of the bare display only gets frame buffers.
LEMMA GbmRunHoldings ==
  ASSUME Holdings, Places, UNCHANGED <<nextSequenceNumber, platform>>, window_gbm_run,
         pc = "gbm_fbFirst" => bo \in Bos, pc = "gbm_fb" => nextBo \in Bos
  PROVE  Holdings' /\ Places'
<1>1. ASSUME NEW here \in GbmRunning, NEW next \in GbmRunning, Gets(here, {}, next)
      PROVE  Holdings' /\ Places'
  <2>1. pc = here /\ pc' = next /\ held' = held /\ ~badRelease'
    BY <1>1 DEF Gets, Holdings
  <2>2. pc \in WithSurface /\ pc' \in WithSurface /\ pc' \notin Starting \cup X11Running
    BY <2>1 DEF WithSurface, Starting, X11Running, GbmRunning
  <2>3. OnTop(pc') = OnTop(pc)
    BY <2>1 DEF OnTop, GbmRunning
  <2>4. held' = OnPlatform \cup OnTop(pc') /\ platform = "GBM"
    BY <2>1, <2>2, <2>3, OnTopOfPlatform DEF Places
  <2>5. QED
    BY <2>1, <2>2, <2>4, SurfacePlaces
<1>2. CASE Swap("gbm_run", "gbm_lockFirst") \/ Swap("gbm_draw", "gbm_lock")
  BY <1>1, <1>2 DEF Swap, GbmRunning
<1>3. CASE LockFirst \/ LockNext
  BY <1>1, <1>3 DEF LockFirst, LockNext, GbmRunning
<1>4. CASE setCrtc \/ drm_pageFlip
  BY <1>1, <1>4 DEF setCrtc, drm_pageFlip, GbmRunning
<1>5. CASE drm_awaitPageFlipEvent \/ ReleaseBuffer
  BY <1>1, <1>5 DEF drm_awaitPageFlipEvent, ReleaseBuffer, GbmRunning
<1>6. CASE getFbId("gbm_fbFirst", bo, "gbm_crtc")
  <2>1. Gets("gbm_fbFirst", {FrameBuffer(bo)}, "gbm_crtc") /\ bo \in Bos
    BY <1>6 DEF getFbId, Gets
  <2>2. QED
    BY <2>1, FrameBufferHoldings DEF GbmRunning
<1>7. CASE getFbId("gbm_fb", nextBo, "gbm_flip")
  <2>1. Gets("gbm_fb", {FrameBuffer(nextBo)}, "gbm_flip") /\ nextBo \in Bos
    BY <1>7 DEF getFbId, Gets
  <2>2. QED
    BY <2>1, FrameBufferHoldings DEF GbmRunning
<1>8. CASE FlipDone
  BY <1>8 DEF FlipDone, eglVars, Holdings, Places, OnPlatform, Map, Authority
<1>9. ASSUME NEW here \in GbmRunning, GbmFails(here) PROVE Holdings' /\ Places'
  <2>1. pc = here /\ pc' = "cleanup_game" /\ held' = held /\ ~badRelease'
    <3>1. GivesBack(here, <<>>, "cleanup_game")
      BY <1>9 DEF GbmFails
    <3>2. QED
      BY <3>1, FailingQuietly
  <2>2. pc \in WithSurface /\ pc' \in WithSurface /\ pc' \notin Starting \cup X11Running \cup GbmRunning
    BY <2>1 DEF WithSurface, Starting, Cleaning, X11Running, GbmRunning
  <2>3. OnTop(pc') = OnTop(pc)
    BY <2>1 DEF OnTop, GbmRunning
  <2>4. held' = OnPlatform \cup OnTop(pc')
    BY <2>1, <2>2, <2>3, OnTopOfPlatform
  <2>5. QED
    BY <2>1, <2>2, <2>4, SurfacePlaces
<1>10. QED
  BY <1>2, <1>3, <1>4, <1>5, <1>6, <1>7, <1>8, <1>9 DEF window_gbm_run, GbmRunning

\* The program starts with nothing.
LEMMA InitHoldings == Init => Holdings /\ Places
BY DEF Init, X11Init, Holdings, Places, X11Running, GbmRunning, LAST

-----------------------------------------------------------------------------
(***************************************************************************)
(* The best mode.                                                          *)
(***************************************************************************)

\* The modes, and the one that every mode is better than.
Modes == [w : Nat, h : Nat, hz : Nat]
NoMode == [w |-> 0, h |-> 0, hz |-> 0]
\* One step of the scan, and the scan as an equation.
Scanned(before, list, k) ==
  IF BetterMode(list[k], before.mode) THEN [at |-> k, mode |-> list[k]] ELSE before
IsScan(f, list, n) ==
  f = [k \in 0 .. n |-> IF k = 0 THEN [at |-> 1, mode |-> NoMode] ELSE Scanned(f[k - 1], list, k)]

\* The equation has a solution for every number of modes.
LEMMA ScanExists ==
  ASSUME NEW list
  PROVE  \A n \in Nat : \E f : IsScan(f, list, n)
<1> DEFINE s == [at |-> 1, mode |-> NoMode]
           T == {n \in Nat : \E f : IsScan(f, list, n)}
<1>1. 0 \in T
  <2> DEFINE f == [k \in 0 .. 0 |-> s]
  <2>1. f = [k \in 0 .. 0 |-> IF k = 0 THEN s ELSE Scanned(f[k - 1], list, k)]
    OBVIOUS
  <2> HIDE DEF f
  <2>2. IsScan(f, list, 0)
    BY <2>1 DEF IsScan
  <2>3. QED
    BY <2>2
<1>2. ASSUME NEW n \in Nat, n \in T PROVE n + 1 \in T
  <2>0. PICK f : IsScan(f, list, n)
    BY <1>2
  <2>1. f = [k \in 0 .. n |-> IF k = 0 THEN s ELSE Scanned(f[k - 1], list, k)]
    BY <2>0 DEF IsScan
  <2> DEFINE g == [k \in 0 .. n + 1 |-> IF k <= n THEN f[k] ELSE Scanned(f[n], list, n + 1)]
             h == [k \in 0 .. n + 1 |-> IF k = 0 THEN s ELSE Scanned(g[k - 1], list, k)]
  <2>2. ASSUME NEW k \in 0 .. n + 1 PROVE g[k] = h[k]
    <3>1. CASE k = 0
      <4>1. g[k] = f[k] /\ f[k] = s
        BY <2>1, <3>1
      <4>2. QED
        BY <3>1, <4>1
    <3>2. CASE k \in 1 .. n
      <4>1. k \in 0 .. n /\ k - 1 \in 0 .. n /\ k # 0 /\ k - 1 \in 0 .. n + 1 /\ k - 1 <= n /\ k <= n
        BY <3>2
      <4>2. f[k] = Scanned(f[k - 1], list, k)
        BY <2>1, <4>1
      <4>3. g[k - 1] = f[k - 1] /\ g[k] = f[k]
        BY <4>1
      <4>4. QED
        BY <4>1, <4>2, <4>3
    <3>3. CASE k = n + 1
      <4>1. k - 1 = n /\ n \in 0 .. n + 1 /\ ~(k <= n) /\ k # 0
        BY <3>3
      <4>2. g[k - 1] = f[n]
        BY <4>1
      <4>3. QED
        BY <3>3, <4>1, <4>2
    <3>4. QED
      BY <3>1, <3>2, <3>3
  <2>3. g = h
    BY <2>2
  <2>4. g = [k \in 0 .. n + 1 |-> IF k = 0 THEN s ELSE Scanned(g[k - 1], list, k)]
    BY <2>3
  <2> HIDE DEF g
  <2>5. IsScan(g, list, n + 1)
    BY <2>4 DEF IsScan
  <2>6. QED
    BY <2>5
<1>3. QED
  <2>1. \A n \in Nat : n \in T
    BY <1>1, <1>2, Counting
  <2>2. QED
    BY <2>1

\* drm_bestModeIndex returns what the scan ends with.
LEMMA ScanFacts ==
  ASSUME NEW list, Len(list) \in Nat
  PROVE  \E scan : /\ scan[0] = [at |-> 1, mode |-> NoMode]
                   /\ \A k \in 1 .. Len(list) : scan[k] = Scanned(scan[k - 1], list, k)
                   /\ drm_bestModeIndex(list) = scan[Len(list)].at
<1> DEFINE a == CHOOSE f : f = [k \in 0 .. Len(list) |->
                  IF k = 0 THEN [at |-> 1, mode |-> [w |-> 0, h |-> 0, hz |-> 0]]
                  ELSE IF BetterMode(list[k], f[k - 1].mode) THEN [at |-> k, mode |-> list[k]]
                  ELSE f[k - 1]]
<1>1. PICK f : f = [k \in 0 .. Len(list) |->
                  IF k = 0 THEN [at |-> 1, mode |-> [w |-> 0, h |-> 0, hz |-> 0]]
                  ELSE IF BetterMode(list[k], f[k - 1].mode) THEN [at |-> k, mode |-> list[k]]
                  ELSE f[k - 1]]
  <2>1. PICK f : IsScan(f, list, Len(list))
    BY ScanExists
  <2>2. QED
    BY <2>1, Zenon DEF IsScan, Scanned, NoMode
<1>2. a = [k \in 0 .. Len(list) |->
                  IF k = 0 THEN [at |-> 1, mode |-> [w |-> 0, h |-> 0, hz |-> 0]]
                  ELSE IF BetterMode(list[k], a[k - 1].mode) THEN [at |-> k, mode |-> list[k]]
                  ELSE a[k - 1]]
  BY <1>1, Zenon
<1>3. drm_bestModeIndex(list) = a[Len(list)].at
  BY Zenon DEF drm_bestModeIndex
<1> HIDE DEF a
<1>4. a[0] = [at |-> 1, mode |-> NoMode]
  BY <1>2 DEF NoMode
<1>5. \A k \in 1 .. Len(list) : a[k] = Scanned(a[k - 1], list, k)
  BY <1>2, SMTT(40) DEF Scanned
<1>6. QED
  BY <1>3, <1>4, <1>5

\* What the scan has found after the first k modes.
Found(list, k, s) ==
  /\ s.at \in 1 .. Len(list) /\ s.mode \in Modes
  /\ k = 0 => s.at = 1 /\ s.mode = NoMode
  /\ k # 0 => s.mode = list[s.at]
  /\ \A j \in 1 .. k : ~BetterMode(list[j], s.mode)
  /\ \A j \in 1 .. s.at - 1 : list[j] # s.mode

\* A step of the scan finds the best of one mode more.
LEMMA FindsNext ==
  ASSUME NEW list \in Seq(Modes), list # <<>>, NEW k \in 1 .. Len(list), NEW s, Found(list, k - 1, s),
         k > 1 => s.at <= k - 1
  PROVE  /\ Found(list, k, Scanned(s, list, k))
         /\ Scanned(s, list, k).at <= k
<1>1. list[k] \in Modes /\ s.mode \in Modes
  BY DEF Found
<1>2. Len(list) \in Nat /\ k \in Nat
  OBVIOUS
<1>3. \A j \in 1 .. k : j \in 1 .. k - 1 \/ j = k
  BY <1>2
<1>4. CASE BetterMode(list[k], s.mode)
  <2> DEFINE t == Scanned(s, list, k)
  <2>1. t.at = k /\ t.mode = list[k]
    BY <1>4 DEF Scanned
  <2>2. \A j \in 1 .. k - 1 : ~BetterMode(list[j], s.mode) /\ list[j] \in Modes
    BY <1>2 DEF Found
  <2>3. ASSUME NEW m \in Modes, ~BetterMode(m, s.mode)
        PROVE  ~BetterMode(m, list[k]) /\ m # list[k]
    <3>1. \A x \in Modes : x.w \in Nat /\ x.h \in Nat /\ x.hz \in Nat
      BY DEF Modes
    <3>2. ~BetterMode(m, list[k])
      BY <1>1, <1>4, <2>3, <3>1 DEF BetterMode
    <3>3. QED
      BY <1>4, <2>3, <3>2
  <2>4. ~BetterMode(list[k], list[k])
    BY <1>1, SMTT(40) DEF BetterMode, Modes
  <2> HIDE DEF t
  <2>5. QED
    BY <1>1, <1>2, <1>3, <2>1, <2>2, <2>3, <2>4 DEF Found, t
<1>5. CASE ~BetterMode(list[k], s.mode)
  <2>1. Scanned(s, list, k) = s
    BY <1>5 DEF Scanned
  <2>2. CASE k = 1
    <3>1. s.at = 1 /\ s.mode = NoMode
      BY <2>2 DEF Found
    <3>2. list[1] \in Modes /\ ~BetterMode(list[1], NoMode)
      BY <1>1, <1>5, <2>2, <3>1
    <3>3. list[1].w = 0 /\ list[1].h = 0 /\ list[1].hz = 0
      BY <3>2 DEF BetterMode, NoMode, Modes
    <3>4. list[1] = NoMode
      BY <3>2, <3>3 DEF NoMode, Modes
    <3>5. QED
      BY <1>2, <1>3, <1>5, <2>1, <2>2, <3>1, <3>4 DEF Found
  <2>3. CASE k # 1
    BY <1>2, <1>3, <1>5, <2>1, <2>3 DEF Found
  <2>4. QED
    BY <2>2, <2>3
<1>6. QED
  BY <1>4, <1>5

\* drm_bestModeIndex returns the first of the best modes, for every list of modes.
LEMMA BestFound ==
  ASSUME NEW list \in Seq(Modes) \ {<<>>}
  PROVE  LET best == list[drm_bestModeIndex(list)]
         IN /\ drm_bestModeIndex(list) \in DOMAIN list
            /\ \A k \in DOMAIN list : ~BetterMode(list[k], best)
            /\ \A k \in 1 .. drm_bestModeIndex(list) - 1 : list[k] # best
<1>1. Len(list) \in Nat \ {0} /\ DOMAIN list = 1 .. Len(list)
  BY EmptySeq
<1>2. PICK scan : /\ scan[0] = [at |-> 1, mode |-> NoMode]
                  /\ \A k \in 1 .. Len(list) : scan[k] = Scanned(scan[k - 1], list, k)
                  /\ drm_bestModeIndex(list) = scan[Len(list)].at
  BY <1>1, ScanFacts
<1> DEFINE T == {k \in Nat : k <= Len(list) => Found(list, k, scan[k]) /\ (k > 0 => scan[k].at <= k)}
<1>3. 0 \in T
  <2>1. NoMode \in Modes
    BY DEF NoMode, Modes
  <2>2. Found(list, 0, scan[0])
    BY <1>1, <1>2, <2>1 DEF Found
  <2>3. QED
    BY <2>2
<1>4. ASSUME NEW n \in Nat, n \in T PROVE n + 1 \in T
  <2>1. SUFFICES ASSUME n + 1 <= Len(list)
                 PROVE  Found(list, n + 1, scan[n + 1]) /\ scan[n + 1].at <= n + 1
    OBVIOUS
  <2>2. Found(list, n, scan[n]) /\ (n > 0 => scan[n].at <= n)
    BY <1>1, <1>4, <2>1
  <2>3. n + 1 \in 1 .. Len(list) /\ (n + 1) - 1 = n
    BY <1>1, <2>1
  <2>4. scan[n + 1] = Scanned(scan[n], list, n + 1)
    BY <1>2, <2>3
  <2>5. n + 1 > 1 => scan[n].at <= (n + 1) - 1
    BY <2>2, <2>3
  <2>6. /\ Found(list, n + 1, Scanned(scan[n], list, n + 1))
        /\ Scanned(scan[n], list, n + 1).at <= n + 1
    BY <1>1, <2>2, <2>3, <2>5, FindsNext
  <2>7. QED
    BY <2>4, <2>6
<1>5. \A n \in Nat : n \in T
  BY <1>3, <1>4, Counting
<1>6. Found(list, Len(list), scan[Len(list)])
  BY <1>1, <1>5
<1>7. QED
  BY <1>1, <1>2, <1>6 DEF Found

-----------------------------------------------------------------------------
(***************************************************************************)
(* The buffers of the bare display.                                        *)
(***************************************************************************)

\* The mode in use is the first of the best ones.
BestMode ==
  /\ modes \in Seq(Modes) /\ drmModeIndex \in DOMAIN modes
  /\ \A k \in DOMAIN modes : ~BetterMode(modes[k], modes[drmModeIndex])
  /\ \A k \in 1 .. drmModeIndex - 1 : modes[k] # modes[drmModeIndex]

\* The places of window_gbm_init after the connector was found, of the end, and those at which a
\* buffer is shown.
GbmStarting == {"gbm_library", "gbm_device", "gbm_display", "gbm_context", "gbm_surface"}
Ends == {"cleanup_game", "cleanup_eglSurface", "cleanup_platform", "cleanup_egl", "failed"}
Showing == {"gbm_draw", "gbm_lock", "gbm_fb", "gbm_flip", "gbm_await", "gbm_release"}

\* Nothing is about to be shown, and nothing was shown unnoticed.
Still == flipping = NoBo /\ ~flipEvent

\* The mode is chosen before anything is made with it.
Chosen ==
  /\ pc \in GbmStarting => BestMode
  /\ pc = "surface" /\ "card" \in held => BestMode
  /\ platform = "GBM" => BestMode

\* The buffers the card knows.
Framed == {b \in Bos : FrameBuffer(b) \in held}

\* Which buffers are locked and shown at each place.
Buffers ==
  /\ pc \notin GbmRunning \cup Ends => locked = {} /\ Still
  /\ pc = "gbm_run" => locked = {} /\ Still
  /\ pc = "gbm_lockFirst" => front \in Bos /\ locked = {} /\ Still
  /\ pc \in {"gbm_fbFirst", "gbm_crtc"} => bo \in Bos /\ front = NoBo /\ locked = {bo} /\ Still
  /\ pc = "gbm_crtc" => bo \in Framed
  /\ pc \in Showing => bo \in Bos /\ bo \in Framed
  /\ pc = "gbm_draw" => front = NoBo /\ locked = {bo} /\ scanout = bo /\ Still
  /\ pc = "gbm_lock" => front \in Bos \ {bo} /\ locked = {bo} /\ scanout = bo /\ Still
  /\ pc \in {"gbm_fb", "gbm_flip", "gbm_await", "gbm_release"} =>
       front = NoBo /\ nextBo \in Bos \ {bo} /\ locked = {bo, nextBo}
  /\ pc \in {"gbm_fb", "gbm_flip"} => scanout = bo /\ Still
  /\ pc \in {"gbm_flip", "gbm_await", "gbm_release"} => nextBo \in Framed
  /\ pc = "gbm_await" => \/ scanout = bo /\ flipping = nextBo /\ ~flipEvent
                         \/ scanout = nextBo /\ flipping = NoBo /\ flipEvent
  /\ pc = "gbm_release" => scanout = nextBo /\ Still

\* A step that leaves the display alone, outside its loop.
LEMMA OtherBuffers ==
  ASSUME Buffers, UNCHANGED gbmVars, pc \notin GbmRunning, pc' \notin GbmRunning \ {"gbm_run"},
         pc \in Ends => pc' \in Ends
  PROVE  Buffers'
<1>1. UNCHANGED <<front, locked, bo, nextBo, scanout, flipping, flipEvent>>
  BY DEF gbmVars
<1>2. pc' \notin Ends => locked = {} /\ Still
  BY DEF Buffers
<1>3. pc' \notin Ends => locked' = {} /\ Still'
  BY <1>1, <1>2 DEF Still
<1>4. pc' \notin (GbmRunning \ {"gbm_run"})
  OBVIOUS
<1>5. QED
  BY <1>3, <1>4 DEF Buffers, GbmRunning, Showing, Ends

\* A step that leaves the mode alone.
LEMMA OtherChosen ==
  ASSUME Chosen, UNCHANGED <<modes, drmModeIndex>>,
         pc' \in GbmStarting => pc \in GbmStarting,
         pc' = "surface" /\ "card" \in held' => pc \in GbmStarting \cup {"surface"} /\ "card" \in held,
         platform' = "GBM" => platform = "GBM" \/ (pc = "surface" /\ "card" \in held)
  PROVE  Chosen'
<1>1. BestMode' = BestMode
  BY DEF BestMode
<1>2. QED
  BY <1>1 DEF Chosen

\* The places of the parts of window_start.
X11Starting == {"x11_display", "x11_context", "x11_auth", "x11_memfd", "x11_map", "x11_socket",
                "x11_connect", "x11_response", "x11_accepted", "x11_authDone", "x11_setup",
                "x11_wait", "x11_keyboard"}

\* The set up of the X11 window goes on, succeeds, or falls back to the bare display.
LEMMA X11InitPlaces ==
  ASSUME window_x11_init
  PROVE  /\ pc \in X11Starting /\ pc' \in X11Starting \cup {"gbm_card", "surface"}
         /\ pc' = "surface" => pc = "x11_wait" /\ held' = held
<1>1. ASSUME NEW here \in {"x11_setup", "x11_wait", "x11_keyboard"}, SetupFails(here)
      PROVE  pc \in X11Starting /\ pc' = "gbm_card"
  BY <1>1 DEF SetupFails, GivesBack, X11Starting
<1>2. CASE egl_createContext("x11_display", "x11_context", "x11_auth", <<>>, "gbm_card")
  BY <1>2 DEF egl_createContext, Attempt, Gets, GivesBack, X11Starting
<1>3. CASE xauth_init \/ GivesBack("x11_authDone", xauth_deinit, "x11_setup")
  BY <1>3 DEF xauth_init, Gets, GivesBack, X11Starting
<1>4. CASE x11Client_init("x11_authDone", xauth_deinit \o egl_destroyContext, "gbm_card")
  BY <1>4 DEF x11Client_init, Attempt, Gets, GivesBack, X11Starting
<1>5. CASE SendSetup \/ SetupReceive
  BY <1>5 DEF SendSetup, SetupReceive, x11Client_receive, X11Starting
<1>6. CASE SetupFails("x11_setup") \/ SetupReceiveFails \/ SetupRefuses \/ MapKeyboardFails \/ ReadKeyboardFails
  BY <1>1, <1>6 DEF SetupReceiveFails, SetupRefuses, MapKeyboardFails, ReadKeyboardFails
<1>7. CASE SetupMessage
  BY <1>7 DEF SetupMessage, Accepted, X11Starting
<1>8. CASE MapKeyboard
  BY <1>8 DEF MapKeyboard, Gets, X11Starting
<1>9. CASE ReadKeyboard \/ CopyKeyboard
  BY <1>9 DEF ReadKeyboard, CopyKeyboard, eglVars, X11Starting
<1>10. QED
  BY <1>2, <1>3, <1>4, <1>5, <1>6, <1>7, <1>8, <1>9 DEF window_x11_init

\* It does not touch the display's buffers.
LEMMA X11InitBuffers ==
  ASSUME Holdings, Places, Buffers, Chosen, window_x11_init, UNCHANGED <<gbmVars, platform>>
  PROVE  Buffers' /\ Chosen'
<1>1. pc \in X11Starting /\ pc' \in X11Starting \cup {"gbm_card", "surface"}
  BY X11InitPlaces
<1>2. pc' = "surface" => "card" \notin held'
  BY X11InitPlaces DEF Holdings, EglParts, ClientParts, Map
<1>3. pc \notin GbmRunning \cup Ends /\ pc' \notin GbmRunning \cup Ends \cup GbmStarting
  BY <1>1 DEF X11Starting, GbmRunning, Ends, GbmStarting
<1>4. Buffers'
  BY <1>3, OtherBuffers
<1>5. Chosen'
  BY <1>2, <1>3, OtherChosen DEF gbmVars
<1>6. QED
  BY <1>4, <1>5

\* The set up of the bare display chooses the mode.
LEMMA GbmInitBuffers ==
  ASSUME Holdings, Places, Buffers, Chosen, window_gbm_init, UNCHANGED <<x11Vars, platform>>
  PROVE  Buffers' /\ Chosen'
<1>1. ASSUME NEW here \in GbmStarting \cup {"gbm_card", "gbm_connector"},
             NEW next \in GbmStarting \cup {"gbm_connector", "surface", "cleanup_egl"},
             pc = here, pc' = next, UNCHANGED gbmVars,
             here \in {"gbm_card", "gbm_connector"} => next \in {"gbm_connector", "cleanup_egl"},
             next = "surface" => held \subseteq held' /\ here = "gbm_surface"
      PROVE  Buffers' /\ Chosen'
  <2>1. pc \notin GbmRunning \cup Ends /\ pc' \notin GbmRunning
    BY <1>1 DEF GbmStarting, GbmRunning, Ends
  <2>2. Buffers'
    BY <1>1, <2>1, OtherBuffers
  <2>3. pc' \in GbmStarting => pc \in GbmStarting
    BY <1>1 DEF GbmStarting
  <2>4. pc' = "surface" => pc \in GbmStarting /\ "card" \in held
    BY <1>1 DEF GbmStarting, Holdings
  <2>5. UNCHANGED <<modes, drmModeIndex>>
    BY <1>1 DEF gbmVars
  <2>6. Chosen'
    BY <2>3, <2>4, <2>5, OtherChosen
  <2>7. QED
    BY <2>2, <2>6
<1>2. CASE drm_init("gbm_library", "cleanup_egl")
  <2>1. CASE Attempt("gbm_card", {"card"}, "gbm_connector", <<>>, "cleanup_egl") /\ UNCHANGED gbmVars
    BY <1>1, <2>1 DEF Attempt, Gets, GivesBack
  <2>2. CASE GivesBack("gbm_connector", drm_deinit, "cleanup_egl") /\ UNCHANGED gbmVars
    BY <1>1, <2>2 DEF GivesBack
  <2>3. CASE /\ Gets("gbm_connector", {}, "gbm_library")
             /\ modes' \in ModeLists
             /\ drmModeIndex' = drm_bestModeIndex(modes')
             /\ UNCHANGED <<front, locked, bo, nextBo, scanout, flipping, flipEvent>>
    <3>1. pc = "gbm_connector" /\ pc' = "gbm_library"
      BY <2>3 DEF Gets
    <3>2. locked' = {} /\ Still'
      BY <2>3, <3>1 DEF Buffers, Still, GbmRunning, Ends
    <3>3. Buffers'
      BY <3>1, <3>2 DEF Buffers, GbmRunning, Ends, Showing
    <3>4. modes' \in Seq(Modes) \ {<<>>}
      BY <2>3, ModesAssumption DEF Modes
    <3>5. /\ drm_bestModeIndex(modes') \in DOMAIN modes'
          /\ \A k \in DOMAIN modes' : ~BetterMode(modes'[k], modes'[drm_bestModeIndex(modes')])
          /\ \A k \in 1 .. drm_bestModeIndex(modes') - 1 : modes'[k] # modes'[drm_bestModeIndex(modes')]
      BY <3>4, BestFound, Zenon
    <3>6. BestMode'
      BY <2>3, <3>4, <3>5, Zenon DEF BestMode, BetterMode
    <3>7. Chosen'
      BY <3>6 DEF Chosen
    <3>8. QED
      BY <3>3, <3>7
  <2>4. QED
    BY <1>2, <2>1, <2>2, <2>3 DEF drm_init
<1>3. CASE gbm_init("gbm_display", "cleanup_egl")
  BY <1>1, <1>3 DEF gbm_init, Attempt, Gets, GivesBack, GbmStarting
<1>4. CASE egl_createContext("gbm_display", "gbm_context", "gbm_surface",
                             gbm_deinit \o drm_deinit, "cleanup_egl") /\ UNCHANGED gbmVars
  BY <1>1, <1>4 DEF egl_createContext, Attempt, Gets, GivesBack, GbmStarting
<1>5. CASE Attempt("gbm_surface", {"gbmSurface"}, "surface",
                   egl_destroyContext \o gbm_deinit \o drm_deinit, "cleanup_egl") /\ UNCHANGED gbmVars
  BY <1>1, <1>5 DEF Attempt, Gets, GivesBack, GbmStarting
<1>6. QED
  BY <1>2, <1>3, <1>4, <1>5 DEF window_gbm_init

\* The other steps outside the display's loop.
LEMMA PlainBuffers ==
  ASSUME Holdings, Places, Buffers, Chosen, UNCHANGED gbmVars,
         \/ egl_init("start", "x11_display", "failed") /\ UNCHANGED platform
         \/ SurfaceStep \/ Started
         \/ gl_init("game_shaders", "cleanup_eglSurface") /\ UNCHANGED platform
         \/ game_init("run", "cleanup_eglSurface") /\ UNCHANGED platform
         \/ window_x11_run /\ UNCHANGED platform
         \/ Cleanup /\ UNCHANGED platform
  PROVE  Buffers' /\ Chosen'
<1> DEFINE Before == {"start", "surface"} \cup Starting \cup X11Running
           Here == Before \cup Ends
<1>1. ASSUME pc \in Here, pc' \in (Here \ {"surface"}) \cup {"gbm_run", "x11_display", "done"},
             pc \in Ends => pc' \in Ends,
             platform' = "GBM" => platform = "GBM" \/ (pc = "surface" /\ "card" \in held)
      PROVE  Buffers' /\ Chosen'
  <2>1. pc \notin GbmRunning /\ pc' \notin GbmRunning \ {"gbm_run"} /\ pc' \notin GbmStarting \cup {"surface"}
    BY <1>1 DEF Starting, X11Running, Ends, GbmRunning, GbmStarting
  <2>2. Buffers'
    BY <1>1, <2>1, OtherBuffers
  <2>3. Chosen'
    BY <1>1, <2>1, OtherChosen DEF gbmVars
  <2>4. QED
    BY <2>2, <2>3
<1>2. CASE egl_init("start", "x11_display", "failed") /\ UNCHANGED platform
  BY <1>1, <1>2 DEF egl_init, Attempt, Gets, GivesBack, Ends
<1>3. CASE SurfaceStep
  <2>1. pc = "surface" /\ pc' \in {"gl", "cleanup_platform"} /\ platform' = (IF "card" \in held THEN "GBM" ELSE "X11")
    BY <1>3 DEF SurfaceStep, egl_createSurface, Attempt, Gets, GivesBack
  <2>2. QED
    BY <1>1, <2>1 DEF Ends, Starting
<1>4. CASE Started
  <2>1. pc = "run" /\ pc' \in {"x11_run", "gbm_run"} /\ UNCHANGED platform
    BY <1>4 DEF Started, Gets
  <2>2. QED
    BY <1>1, <2>1 DEF Ends, Starting, X11Running
<1>5. CASE gl_init("game_shaders", "cleanup_eglSurface") /\ UNCHANGED platform
  BY <1>1, <1>5 DEF gl_init, Attempt, Gets, GivesBack, Ends, Starting
<1>6. CASE game_init("run", "cleanup_eglSurface") /\ UNCHANGED platform
  <2>1. pc \in Starting /\ pc' \in Starting \cup {"cleanup_eglSurface"}
    BY <1>6 DEF game_init, shaders_init, vertexArrays_init, Attempt, Gets, GivesBack, Starting
  <2>2. QED
    BY <1>1, <1>6, <2>1 DEF Ends, Starting
<1>7. CASE window_x11_run /\ UNCHANGED platform
  <2>1. pc \in X11Running /\ pc' \in X11Running \cup {"done", "cleanup_game"}
    BY <1>7, X11RunPlaces
  <2>2. QED
    BY <1>1, <1>7, <2>1 DEF Ends, X11Running
<1>8. CASE Cleanup /\ UNCHANGED platform
  <2>1. pc \in Ends /\ pc' \in Ends
    BY <1>8 DEF Cleanup, GivesBack, Ends
  <2>2. QED
    BY <1>1, <1>8, <2>1 DEF Ends
<1>9. QED
  BY <1>2, <1>3, <1>4, <1>5, <1>6, <1>7, <1>8

\* Nothing is shown at the start.
LEMMA InitBuffers == Init => Buffers /\ Chosen
BY DEF Init, GbmInit, Buffers, Chosen, Still, GbmRunning, Showing, GbmStarting

\* The display's loop.
LEMMA GbmRunBuffers ==
  ASSUME Holdings, Places, Buffers, Chosen, window_gbm_run, UNCHANGED <<x11Vars, platform>>
  PROVE  Buffers' /\ Chosen'
<1>1. Chosen'
  <2>1. UNCHANGED <<modes, drmModeIndex>> /\ (pc' \in GbmRunning \cup {"cleanup_game"} \/ UNCHANGED <<pc, held>>)
    <3>1. CASE Swap("gbm_run", "gbm_lockFirst") \/ Swap("gbm_draw", "gbm_lock") \/ LockFirst \/ LockNext
      BY <3>1 DEF Swap, LockFirst, LockNext, Gets, GbmRunning
    <3>2. CASE setCrtc \/ drm_pageFlip \/ drm_awaitPageFlipEvent \/ ReleaseBuffer
      BY <3>2 DEF setCrtc, drm_pageFlip, drm_awaitPageFlipEvent, ReleaseBuffer, Gets, GbmRunning
    <3>3. CASE getFbId("gbm_fbFirst", bo, "gbm_crtc") \/ getFbId("gbm_fb", nextBo, "gbm_flip")
      BY <3>3 DEF getFbId, Gets, GbmRunning, gbmVars
    <3>4. CASE FlipDone
      BY <3>4 DEF FlipDone, eglVars
    <3>5. ASSUME NEW here, GbmFails(here) PROVE UNCHANGED <<modes, drmModeIndex>> /\ pc' = "cleanup_game"
      BY <3>5 DEF GbmFails, GivesBack, gbmVars
    <3>6. QED
      BY <3>1, <3>2, <3>3, <3>4, <3>5 DEF window_gbm_run
  <2>2. CASE pc' \in GbmRunning \cup {"cleanup_game"}
    <3>1. pc' \notin GbmStarting \cup {"surface"}
      BY <2>2 DEF GbmRunning, GbmStarting
    <3>2. QED
      BY <2>1, <3>1, OtherChosen
  <2>3. CASE UNCHANGED <<pc, held>>
    BY <2>1, <2>3, OtherChosen
  <2>4. QED
    BY <2>1, <2>2, <2>3
<1> SUFFICES Buffers'
  BY <1>1
<1>0. held' = held => Framed' = Framed
  BY DEF Framed
<1>2. CASE Swap("gbm_run", "gbm_lockFirst")
  BY <1>0, <1>2 DEF Swap, Gets, Buffers, Still, GbmRunning, Showing, Ends
<1>3. CASE LockFirst
  BY <1>0, <1>3 DEF LockFirst, Gets, Buffers, Still, GbmRunning, Showing, Ends
<1>4. CASE getFbId("gbm_fbFirst", bo, "gbm_crtc")
  <2>1. bo \in Framed'
    BY <1>4 DEF getFbId, Gets, Buffers, Framed
  <2>2. QED
    BY <1>4, <2>1 DEF getFbId, Gets, gbmVars, Buffers, Still, GbmRunning, Showing, Ends
<1>5. CASE setCrtc
  BY <1>0, <1>5 DEF setCrtc, Gets, Buffers, Still, GbmRunning, Showing, Ends
<1>6. CASE Swap("gbm_draw", "gbm_lock")
  BY <1>0, <1>6 DEF Swap, Gets, Buffers, Still, GbmRunning, Showing, Ends
<1>7. CASE LockNext
  BY <1>0, <1>7 DEF LockNext, Gets, Buffers, Still, GbmRunning, Showing, Ends
<1>8. CASE getFbId("gbm_fb", nextBo, "gbm_flip")
  <2>1. nextBo \in Framed' /\ bo \in Framed'
    BY <1>8 DEF getFbId, Gets, Buffers, Framed, Showing
  <2>2. QED
    BY <1>8, <2>1 DEF getFbId, Gets, gbmVars, Buffers, Still, GbmRunning, Showing, Ends
<1>9. CASE drm_pageFlip
  BY <1>0, <1>9 DEF drm_pageFlip, Gets, Buffers, Still, GbmRunning, Showing, Ends
<1>10. CASE FlipDone
  <2>1. pc \in {"gbm_await"} \cup Ends
    BY <1>10 DEF FlipDone, Buffers, Still, GbmRunning
  <2>2. UNCHANGED <<pc, held, front, locked, bo, nextBo>>
    BY <1>10 DEF FlipDone, eglVars
  <2>3. CASE pc \in Ends
    BY <1>0, <2>2, <2>3 DEF Buffers, Showing, Ends
  <2>4. CASE pc = "gbm_await"
    <3>1. scanout' = nextBo /\ flipping' = NoBo /\ flipEvent' = TRUE
      BY <1>10, <2>4 DEF FlipDone, Buffers
    <3>2. QED
      BY <1>0, <2>2, <2>4, <3>1 DEF Buffers, GbmRunning, Showing
  <2>5. QED
    BY <2>1, <2>3, <2>4
<1>11. CASE drm_awaitPageFlipEvent
  BY <1>0, <1>11 DEF drm_awaitPageFlipEvent, Gets, Buffers, Still, GbmRunning, Showing, Ends
<1>12. CASE ReleaseBuffer
  BY <1>0, <1>12 DEF ReleaseBuffer, Gets, Buffers, Still, GbmRunning, Showing, Ends
<1>13. ASSUME NEW here, GbmFails(here) PROVE Buffers'
  <2>1. pc' = "cleanup_game"
    BY <1>13 DEF GbmFails, GivesBack
  <2>2. QED
    BY <2>1 DEF Buffers, Showing, Ends, GbmRunning
<1>14. QED
  BY <1>2, <1>3, <1>4, <1>5, <1>6, <1>7, <1>8, <1>9, <1>10, <1>11, <1>12, <1>13 DEF window_gbm_run

-----------------------------------------------------------------------------
(***************************************************************************)
(* The invariant.                                                          *)
(***************************************************************************)

\* The inductive invariant of what the program holds and shows.
WindowInv == Holdings /\ Places /\ Buffers /\ Chosen

\* A step of the server, the user or the card.
LEMMA Unmoved ==
  ASSUME WindowInv, UNCHANGED <<eglVars, nextSequenceNumber, gbmVars, platform>>
  PROVE  WindowInv'
<1>1. Holdings' /\ Places'
  BY DEF WindowInv, Holdings, Places, OnPlatform, Map, Authority, eglVars
<1>2. Buffers' /\ Chosen'
  BY DEF WindowInv, Buffers, Framed, Chosen, BestMode, Still, eglVars, gbmVars
<1>3. QED
  BY <1>1, <1>2 DEF WindowInv

\* Every step keeps it: one case for each part of the program.
LEMMA NextWindowInv == WindowInv /\ [Next]_vars => WindowInv'
<1> SUFFICES ASSUME WindowInv, [Next]_vars PROVE WindowInv'
  OBVIOUS
<1>1. Holdings /\ Places /\ Buffers /\ Chosen
  BY DEF WindowInv
<1>2. UNCHANGED x11Vars => UNCHANGED nextSequenceNumber
  BY DEF x11Vars
<1>3. CASE Plain /\ UNCHANGED platform /\ egl_init("start", "x11_display", "failed")
  BY <1>1, <1>2, <1>3, ContextHoldings, PlainBuffers DEF WindowInv, Plain
<1>4. CASE window_x11_init /\ UNCHANGED <<gbmVars, platform>>
  BY <1>1, <1>4, X11InitHoldings, X11InitBuffers DEF WindowInv
<1>5. CASE window_gbm_init /\ UNCHANGED <<x11Vars, platform>>
  BY <1>1, <1>2, <1>5, GbmInitHoldings, GbmInitBuffers DEF WindowInv
<1>6. CASE SurfaceStep
  <2>1. Plain
    BY <1>6 DEF SurfaceStep
  <2>2. QED
    BY <1>1, <1>2, <1>6, <2>1, SurfaceHoldings, PlainBuffers DEF WindowInv, Plain
<1>7. CASE /\ gl_init("game_shaders", "cleanup_eglSurface") \/ game_init("run", "cleanup_eglSurface")
           /\ Plain /\ UNCHANGED platform
  BY <1>1, <1>2, <1>7, GameHoldings, PlainBuffers DEF WindowInv, Plain
<1>8. CASE Started
  <2>1. Plain
    BY <1>8 DEF Started
  <2>2. QED
    BY <1>1, <1>8, <2>1, StartedHoldings, PlainBuffers DEF WindowInv, Plain
<1>9. CASE window_x11_run /\ UNCHANGED <<gbmVars, platform>>
  BY <1>1, <1>9, X11RunHoldings, PlainBuffers DEF WindowInv
<1>10. CASE window_gbm_run /\ UNCHANGED <<x11Vars, platform>>
  <2>1. (pc = "gbm_fbFirst" => bo \in Bos) /\ (pc = "gbm_fb" => nextBo \in Bos)
    BY <1>1 DEF Buffers
  <2>2. QED
    BY <1>1, <1>2, <1>10, <2>1, GbmRunHoldings, GbmRunBuffers DEF WindowInv
<1>11. CASE Cleanup /\ Plain /\ UNCHANGED platform
  BY <1>1, <1>2, <1>11, CleanupHoldings, PlainBuffers DEF WindowInv, Plain
<1>12. CASE Server
  BY <1>12, Unmoved DEF Server, ServerStep, Input
<1>13. CASE UNCHANGED vars
  <2>1. UNCHANGED <<eglVars, nextSequenceNumber, gbmVars, platform>>
    BY <1>13 DEF vars, x11Vars
  <2>2. QED
    BY <2>1, Unmoved
<1>14. QED
  BY <1>3, <1>4, <1>5, <1>6, <1>7, <1>8, <1>9, <1>10, <1>11, <1>12, <1>13
     DEF Next, window_start, Ended

\* At every place of the program (window.c, window_x11.c, window_gbm.c and what they call) exactly the
\* resources are held that its cleanup labels will give back, each after those that use it, the
\* buffers of the display are locked as the loop expects, and the mode is the best one.
THEOREM WindowInvariance == Spec => []WindowInv
<1>1. Init => WindowInv
  BY InitHoldings, InitBuffers DEF WindowInv
<1>2. QED
  BY <1>1, NextWindowInv, PTL DEF Spec

\* However far window_start (window.c) came and whichever part of it or of the loops failed: every
\* resource was given back once, none while another one was using it, and only the keyboard map
\* of an X11 connection that was given up for the bare display may be left.
THEOREM FailingGivesBack == Spec => []OnlyKeyboardMapLost
<1>1. WindowInv => OnlyKeyboardMapLost
  <2> SUFFICES ASSUME WindowInv PROVE OnlyKeyboardMapLost
    OBVIOUS
  <2>1. Holdings
    BY DEF WindowInv
  <2>2. pc = "failed" /\ held # {} => "keyboardMap" \in held
    BY <2>1 DEF Holdings
  <2>3. QED
    BY <2>1, <2>2 DEF Holdings, OnlyKeyboardMapLost
<1>2. QED
  BY <1>1, WindowInvariance, PTL

\* For every list of modes: the buffer that is shown, and the one that will be, stay locked until
\* the page flip was reported (window_gbm.c), the program never draws on them, there is always one left to
\* draw on, and drm_bestModeIndex chose the first of the largest and fastest modes.
THEOREM ShownStaysLocked == Spec => []ScanoutLocked
<1>1. WindowInv => ScanoutLocked
  <2> SUFFICES ASSUME WindowInv, pc \in Showing
               PROVE  /\ {scanout, flipping} \ {NoBo} \subseteq locked
                      /\ FrameBuffer(scanout) \in held
                      /\ front \notin {scanout, flipping} \ {NoBo}
                      /\ pc = "gbm_draw" => Bos \ locked # {}
                      /\ LET best == modes[drmModeIndex]
                             AtLeast(m) == \/ best.w > m.w
                                           \/ best.w = m.w /\ best.h > m.h
                                           \/ best.w = m.w /\ best.h = m.h /\ best.hz >= m.hz
                         IN /\ \A k \in DOMAIN modes : AtLeast(modes[k])
                            /\ \A k \in 1 .. drmModeIndex - 1 : modes[k] # best
    BY Zenon DEF ScanoutLocked, Showing
  <2>1. Buffers /\ Places /\ Chosen
    BY DEF WindowInv
  <2>2. {scanout, flipping} \ {NoBo} \subseteq locked /\ scanout \in Framed
    BY <2>1 DEF Buffers, Showing, Still
  <2>3. front \notin {scanout, flipping} \ {NoBo}
    BY <2>1 DEF Buffers, Showing, Still
  <2>4. pc = "gbm_draw" => Bos \ locked # {}
    BY <2>1 DEF Buffers, Showing, Bos
  <2>5. BestMode
    BY <2>1 DEF Places, Chosen, Showing, GbmRunning
  <2>6. ASSUME NEW k \in DOMAIN modes
        PROVE  LET best == modes[drmModeIndex]
                   m == modes[k]
               IN \/ best.w > m.w
                  \/ best.w = m.w /\ best.h > m.h
                  \/ best.w = m.w /\ best.h = m.h /\ best.hz >= m.hz
    <3>1. modes[k] \in Modes /\ modes[drmModeIndex] \in Modes /\ ~BetterMode(modes[k], modes[drmModeIndex])
      BY <2>5 DEF BestMode
    <3>2. \A x \in Modes : x.w \in Nat /\ x.h \in Nat /\ x.hz \in Nat
      BY DEF Modes
    <3>3. QED
      BY <3>1, <3>2 DEF BetterMode
  <2>7. \A k \in 1 .. drmModeIndex - 1 : modes[k] # modes[drmModeIndex]
    BY <2>5 DEF BestMode
  <2>8. QED
    <3>1. FrameBuffer(scanout) \in held
      BY <2>2 DEF Framed
    <3>2. QED
      BY <2>2, <2>3, <2>4, <2>6, <2>7, <3>1, Zenon
<1>2. QED
  BY <1>1, WindowInvariance, PTL

-----------------------------------------------------------------------------
(***************************************************************************)
(* The stream of the server.                                               *)
(***************************************************************************)

\* The messages of the server after the connection was accepted, as they can be, and the units
\* they are sent in.
Types == {"reply", "motion", "error", "event", "configure", "button", "escape", "focusOut", "f11",
          "key", "delete"}
Messages == {m \in [type : Types, seq : Int, size : Nat] :
               /\ m.size >= HEADER
               /\ m.type \notin {"reply", "motion"} => m.size = HEADER}
UnitSet == {u \in Messages \X Nat : u[2] < u[1].size}

\* Whole messages, one behind the other.
Whole(s) ==
  /\ s \in Seq(UnitSet)
  /\ \A k \in 1 .. Len(s) - 1 : Follows(s[k], s[k + 1])
  /\ Len(s) > 0 => s[1][2] = 0 /\ s[Len(s)][2] + 1 = s[Len(s)][1].size

\* A table is a sequence.
LEMMA Tabled ==
  ASSUME NEW n \in Nat, NEW S, NEW s \in [1 .. n -> S]
  PROVE  s \in Seq(S) /\ Len(s) = n /\ DOMAIN s = 1 .. n
OBVIOUS

\* What a unit is.
LEMMA UnitFacts ==
  ASSUME NEW u \in UnitSet
  PROVE  /\ u[1] \in Messages /\ u[2] \in Nat /\ u[2] < u[1].size /\ u[1].size \in Nat
         /\ u[1].size >= HEADER /\ u = <<u[1], u[2]>>
BY DEF UnitSet, Messages

\* A message is whole.
LEMMA WholeUnits ==
  ASSUME NEW m \in Messages
  PROVE  Whole(Units(m)) /\ Len(Units(m)) = m.size /\ \A k \in 1 .. m.size : Units(m)[k] = <<m, k - 1>>
<1> DEFINE s == Units(m)
<1>1. m.size \in Nat /\ m.size >= 2
  BY DEF Messages, HEADER
<1>2. s = [k \in 1 .. m.size |-> <<m, k - 1>>]
  BY DEF Units
<1>3. ASSUME NEW k \in 1 .. m.size PROVE <<m, k - 1>> \in UnitSet
  <2>1. k - 1 \in Nat /\ k - 1 < m.size
    BY <1>1
  <2>2. QED
    BY <2>1 DEF UnitSet
<1> HIDE DEF s
<1>4. s \in [1 .. m.size -> UnitSet]
  BY <1>2, <1>3
<1>5. s \in Seq(UnitSet) /\ Len(s) = m.size
  BY <1>1, <1>4, Tabled
<1>6. \A k \in 1 .. m.size : s[k] = <<m, k - 1>> /\ s[k][1] = m /\ s[k][2] = k - 1
  BY <1>2
<1>7. ASSUME NEW k \in 1 .. Len(s) - 1 PROVE Follows(s[k], s[k + 1])
  <2>1. k \in 1 .. m.size /\ k + 1 \in 1 .. m.size /\ (k + 1) - 1 = k /\ (k - 1) + 1 = k /\ k < m.size
    BY <1>1, <1>5, <1>7
  <2>2. s[k + 1] = <<m, k>> /\ s[k][1] = m /\ s[k][2] = k - 1
    BY <1>6, <2>1
  <2>3. QED
    BY <2>1, <2>2 DEF Follows
<1>8. s[1][2] = 0 /\ s[Len(s)][2] + 1 = s[Len(s)][1].size
  <2>1. 1 \in 1 .. m.size /\ m.size \in 1 .. m.size
    BY <1>1
  <2>2. s[1][2] = 1 - 1 /\ s[m.size][2] = m.size - 1 /\ s[m.size][1] = m
    BY <1>6, <2>1
  <2>3. QED
    BY <1>1, <1>5, <2>2
<1>9. QED
  BY <1>5, <1>6, <1>7, <1>8 DEF Whole, s

\* Nothing is missing from nothing.
LEMMA WholeNothing == Whole(<<>>)
BY DEF Whole

\* Messages behind messages.
LEMMA WholeBoth ==
  ASSUME NEW s, NEW t, Whole(s), Whole(t)
  PROVE  Whole(s \o t)
<1> DEFINE q == s \o t
<1>1. s \in Seq(UnitSet) /\ t \in Seq(UnitSet) /\ Len(s) \in Nat /\ Len(t) \in Nat
  BY DEF Whole
<1>2. /\ q \in Seq(UnitSet) /\ Len(q) = Len(s) + Len(t)
      /\ \A i \in 1 .. Len(s) + Len(t) : q[i] = IF i <= Len(s) THEN s[i] ELSE t[i - Len(s)]
  BY <1>1, ConcatProperties, Zenon
<1> HIDE DEF q
<1>3. \A i \in 1 .. Len(s) : q[i] = s[i]
  BY <1>1, <1>2
<1>4. \A i \in 1 .. Len(t) : q[Len(s) + i] = t[i]
  BY <1>1, <1>2
<1>5. ASSUME NEW k \in 1 .. Len(q) - 1 PROVE Follows(q[k], q[k + 1])
  <2>1. CASE k < Len(s)
    <3>1. k \in 1 .. Len(s) - 1 /\ k \in 1 .. Len(s) /\ k + 1 \in 1 .. Len(s)
      BY <1>1, <2>1
    <3>2. Follows(s[k], s[k + 1])
      BY <3>1 DEF Whole
    <3>3. QED
      BY <1>3, <3>1, <3>2
  <2>2. CASE k = Len(s)
    <3>1. k \in 1 .. Len(s) /\ 1 \in 1 .. Len(t) /\ Len(s) > 0 /\ Len(t) > 0
      BY <1>1, <1>2, <1>5, <2>2
    <3>2. q[k] = s[Len(s)] /\ q[k + 1] = t[1]
      BY <1>3, <1>4, <2>2, <3>1
    <3>3. q[k][2] + 1 = q[k][1].size /\ q[k + 1][2] = 0
      BY <3>1, <3>2 DEF Whole
    <3>4. q[k] \in UnitSet
      BY <1>1, <3>1, <3>2
    <3>5. q[k][1].size \in Nat
      BY <3>4, UnitFacts
    <3>6. QED
      BY <3>3, <3>5 DEF Follows
  <2>3. CASE k > Len(s)
    <3> DEFINE i == k - Len(s)
    <3>1. i \in 1 .. Len(t) - 1 /\ i \in 1 .. Len(t) /\ i + 1 \in 1 .. Len(t)
          /\ Len(s) + i = k /\ Len(s) + (i + 1) = k + 1
      BY <1>1, <1>2, <2>3
    <3> HIDE DEF i
    <3>2. q[k] = t[i] /\ q[k + 1] = t[i + 1]
      BY <1>4, <3>1
    <3>3. Follows(t[i], t[i + 1])
      BY <3>1 DEF Whole
    <3>4. QED
      BY <3>2, <3>3
  <2>4. QED
    BY <1>1, <2>1, <2>2, <2>3
<1>6. ASSUME Len(q) > 0 PROVE q[1][2] = 0 /\ q[Len(q)][2] + 1 = q[Len(q)][1].size
  <2>1. q[1][2] = 0
    <3>1. CASE Len(s) > 0
      BY <1>1, <1>3, <3>1 DEF Whole
    <3>2. CASE Len(s) = 0
      <4>1. 1 \in 1 .. Len(t) /\ Len(s) + 1 = 1 /\ Len(t) > 0
        BY <1>1, <1>2, <1>6, <3>2
      <4>2. q[1] = t[1]
        BY <1>4, <4>1
      <4>3. QED
        BY <4>1, <4>2 DEF Whole
    <3>3. QED
      BY <1>1, <3>1, <3>2
  <2>2. q[Len(q)][2] + 1 = q[Len(q)][1].size
    <3>1. CASE Len(t) > 0
      <4>1. q[Len(q)] = t[Len(t)]
        BY <1>1, <1>2, <1>4, <3>1
      <4>2. QED
        BY <3>1, <4>1 DEF Whole
    <3>2. CASE Len(t) = 0
      <4>1. Len(q) = Len(s) /\ Len(s) > 0 /\ Len(s) \in 1 .. Len(s)
        BY <1>1, <1>2, <1>6, <3>2
      <4>2. q[Len(q)] = s[Len(s)]
        BY <1>3, <4>1
      <4>3. QED
        BY <4>1, <4>2 DEF Whole
    <3>3. QED
      BY <1>1, <3>1, <3>2
  <2>3. QED
    BY <2>1, <2>2
<1>7. QED
  BY <1>2, <1>5, <1>6 DEF Whole, q

\* The first message of a whole sequence is there with all of its units, in order.
LEMMA FirstMessage ==
  ASSUME NEW s, Whole(s), Len(s) > 0
  PROVE  /\ s[1][1] \in Messages /\ s[1][1].size <= Len(s)
         /\ \A k \in 1 .. s[1][1].size : s[k] = <<s[1][1], k - 1>>
<1> DEFINE m == s[1][1]
           T == {n \in Nat : n < m.size => n < Len(s) /\ s[n + 1] = <<m, n>>}
<1>1. s \in Seq(UnitSet) /\ Len(s) \in Nat /\ s[1][2] = 0 /\ s[Len(s)][2] + 1 = s[Len(s)][1].size
  BY DEF Whole
<1>2. \A k \in 1 .. Len(s) : s[k] \in UnitSet
  BY <1>1
<1>3. s[1] \in UnitSet /\ m \in Messages /\ s[1] = <<m, 0>> /\ m.size \in Nat
  <2>1. s[1] \in UnitSet
    BY <1>1, <1>2
  <2>2. QED
    BY <1>1, <2>1, UnitFacts
<1> HIDE DEF m
<1>4. 0 \in T
  BY <1>1, <1>3
<1>5. ASSUME NEW n \in Nat, n \in T PROVE n + 1 \in T
  <2>1. SUFFICES ASSUME n + 1 < m.size PROVE n + 1 < Len(s) /\ s[(n + 1) + 1] = <<m, n + 1>>
    OBVIOUS
  <2>2. n < Len(s) /\ s[n + 1] = <<m, n>>
    BY <1>3, <1>5, <2>1
  <2>3. s[n + 1][1] = m /\ s[n + 1][2] = n
    BY <2>2
  <2>4. n + 1 # Len(s)
    BY <1>1, <1>3, <2>1, <2>3
  <2>5. n + 1 \in 1 .. Len(s) - 1
    BY <1>1, <2>2, <2>4
  <2>6. Follows(s[n + 1], s[(n + 1) + 1])
    BY <2>5 DEF Whole
  <2>7. QED
    BY <1>1, <2>1, <2>3, <2>5, <2>6 DEF Follows
<1>6. \A n \in Nat : n \in T
  BY <1>4, <1>5, Counting
<1>7. ASSUME NEW k \in 1 .. m.size PROVE s[k] = <<m, k - 1>> /\ k <= Len(s)
  <2>1. k - 1 \in Nat /\ k - 1 < m.size /\ (k - 1) + 1 = k /\ k - 1 \in T
    BY <1>3, <1>6
  <2>2. QED
    BY <1>1, <2>1
<1>8. m.size <= Len(s)
  BY <1>1, <1>3, <1>7
<1>9. QED
  BY <1>3, <1>7, <1>8 DEF m

\* What comes behind it is whole again.
LEMMA WholeRest ==
  ASSUME NEW s, Whole(s), Len(s) > 0, NEW r \in Seq(UnitSet), Len(r) = Len(s) - s[1][1].size,
         \A k \in 1 .. Len(r) : r[k] = s[k + s[1][1].size]
  PROVE  Whole(r)
<1> DEFINE n == s[1][1].size
<1>1. n \in Nat /\ n <= Len(s) /\ n >= 1 /\ \A k \in 1 .. n : s[k] = <<s[1][1], k - 1>>
  BY FirstMessage DEF Messages, HEADER
<1>2. s \in Seq(UnitSet) /\ Len(s) \in Nat /\ s[Len(s)][2] + 1 = s[Len(s)][1].size
  BY DEF Whole
<1>3. s[n][1].size = n /\ s[n][2] = n - 1
  <2>1. s[n] = <<s[1][1], n - 1>>
    BY <1>1
  <2>2. QED
    BY <2>1
<1> HIDE DEF n
<1>4. Len(r) = Len(s) - n /\ \A k \in 1 .. Len(r) : r[k] = s[k + n]
  BY DEF n
<1>5. ASSUME NEW k \in 1 .. Len(r) - 1 PROVE Follows(r[k], r[k + 1])
  <2>1. k + n \in 1 .. Len(s) - 1 /\ k \in 1 .. Len(r) /\ k + 1 \in 1 .. Len(r) /\ (k + 1) + n = (k + n) + 1
    BY <1>1, <1>2, <1>4
  <2>2. Follows(s[k + n], s[(k + n) + 1])
    BY <2>1 DEF Whole
  <2>3. QED
    BY <1>4, <2>1, <2>2
<1>6. ASSUME Len(r) > 0 PROVE r[1][2] = 0 /\ r[Len(r)][2] + 1 = r[Len(r)][1].size
  <2>1. n \in 1 .. Len(s) - 1 /\ 1 \in 1 .. Len(r) /\ Len(r) \in 1 .. Len(r) /\ Len(r) + n = Len(s) /\ 1 + n = n + 1
    BY <1>1, <1>2, <1>4, <1>6
  <2>2. Follows(s[n], s[n + 1])
    BY <2>1 DEF Whole
  <2>3. s[n + 1][2] = 0
    BY <1>1, <1>3, <2>2 DEF Follows
  <2>4. r[1] = s[n + 1] /\ r[Len(r)] = s[Len(s)]
    BY <1>4, <2>1
  <2>5. QED
    BY <1>2, <2>3, <2>4
<1>7. QED
  BY <1>5, <1>6 DEF Whole

-----------------------------------------------------------------------------
(***************************************************************************)
(* The answers to the set up.                                              *)
(***************************************************************************)

\* Answers, as the equation that its recursive function satisfies.
IsAnswers(f, keyboard, at, what, n) ==
  f = [seq \in 1 .. n |-> IF seq = 1 THEN <<>> ELSE f[seq - 1] \o AnswerTo(seq, keyboard, at, what)]

\* The equation has a solution for every number of requests.
LEMMA AnswersExist ==
  ASSUME NEW keyboard, NEW at, NEW what
  PROVE  \A n \in Nat : \E f : IsAnswers(f, keyboard, at, what, n)
<1> DEFINE A(k) == AnswerTo(k, keyboard, at, what)
           T == {n \in Nat : \E f : IsAnswers(f, keyboard, at, what, n)}
<1>1. 0 \in T
  <2> DEFINE f == [k \in 1 .. 0 |-> <<>>]
  <2>1. f = [k \in 1 .. 0 |-> IF k = 1 THEN <<>> ELSE f[k - 1] \o A(k)]
    OBVIOUS
  <2> HIDE DEF f
  <2>2. IsAnswers(f, keyboard, at, what, 0)
    BY <2>1 DEF IsAnswers
  <2>3. QED
    BY <2>2
<1>2. ASSUME NEW n \in Nat, n \in T PROVE n + 1 \in T
  <2>0. PICK f : IsAnswers(f, keyboard, at, what, n)
    BY <1>2
  <2>1. f = [k \in 1 .. n |-> IF k = 1 THEN <<>> ELSE f[k - 1] \o A(k)]
    BY <2>0 DEF IsAnswers
  <2> HIDE DEF A
  <2> DEFINE g == [k \in 1 .. n + 1 |-> IF k <= n THEN f[k] ELSE IF k = 1 THEN <<>> ELSE f[n] \o A(k)]
             h == [k \in 1 .. n + 1 |-> IF k = 1 THEN <<>> ELSE g[k - 1] \o A(k)]
  <2>2. ASSUME NEW k \in 1 .. n + 1 PROVE g[k] = h[k]
    <3>1. CASE k = 1
      <4>1. k <= n => f[k] = <<>>
        BY <2>1, <3>1
      <4>2. g[k] = <<>>
        BY <3>1, <4>1
      <4>3. QED
        BY <3>1, <4>2
    <3>2. CASE k \in 2 .. n
      <4>1. k \in 1 .. n /\ k - 1 \in 1 .. n /\ k # 1 /\ k - 1 \in 1 .. n + 1 /\ k - 1 <= n /\ k <= n
        BY <3>2
      <4>2. f[k] = f[k - 1] \o A(k)
        BY <2>1, <4>1
      <4>3. g[k - 1] = f[k - 1] /\ g[k] = f[k]
        BY <4>1
      <4>4. QED
        BY <4>1, <4>2, <4>3
    <3>3. CASE k = n + 1 /\ k # 1
      <4>1. k - 1 = n /\ n \in 1 .. n + 1 /\ n <= n /\ ~(k <= n) /\ k # 1
        BY <3>3
      <4>2. g[k - 1] = f[n]
        BY <4>1
      <4>3. QED
        BY <3>3, <4>1, <4>2
    <3>4. QED
      BY <3>1, <3>2, <3>3
  <2>3. g = h
    BY <2>2
  <2>4. g = [k \in 1 .. n + 1 |-> IF k = 1 THEN <<>> ELSE g[k - 1] \o A(k)]
    BY <2>3
  <2> HIDE DEF g
  <2>5. IsAnswers(g, keyboard, at, what, n + 1)
    BY <2>4 DEF IsAnswers, A
  <2>6. QED
    BY <2>5
<1>3. QED
  <2>1. \A n \in Nat : n \in T
    BY <1>1, <1>2, Counting
  <2>2. QED
    BY <2>1

\* The answer to one request.
LEMMA AnswerWhole ==
  ASSUME NEW seq \in 2 .. LAST, NEW keyboard \in KeyboardSizes, NEW at,
         NEW what \in {"none", "event", "error", "absent"}
  PROVE  Whole(AnswerTo(seq, keyboard, at, what))
<1> DEFINE n == ReplySize(seq, keyboard)
<1>1. n \in Nat /\ n >= 2
  <2>1. keyboard \in Nat /\ keyboard >= 2
    BY X11Assumption DEF HEADER
  <2>2. CASE seq = KEYBOARD
    BY <2>1, <2>2 DEF ReplySize, KEYBOARD, LAST
  <2>3. CASE seq = LAST
    BY <2>3 DEF ReplySize, HEADER, LAST, KEYBOARD
  <2>4. CASE seq # KEYBOARD /\ seq # LAST
    BY <2>4 DEF ReplySize, HEADER
  <2>5. QED
    BY <2>2, <2>3, <2>4
<1>2. seq \in Int /\ -seq \in Int
  BY DEF LAST
<1> HIDE DEF n
<1>3. Message("reply", seq, n) \in Messages
  BY <1>1, <1>2 DEF Message, Messages, Types, HEADER
<1>4. Message("reply", -seq, HEADER) \in Messages
  BY <1>2 DEF Message, Messages, Types, HEADER
<1>5. what \in {"event", "error"} => Message(what, 0, HEADER) \in Messages
  BY DEF Message, Messages, Types, HEADER
<1>6. Whole(Units(Message("reply", seq, n))) /\ Whole(Units(Message("reply", -seq, HEADER)))
  BY <1>3, <1>4, WholeUnits
<1>7. what \in {"event", "error"} => Whole(Units(Message(what, 0, HEADER)) \o Units(Message("reply", seq, n)))
  BY <1>5, <1>6, WholeUnits, WholeBoth
<1>8. QED
  BY <1>6, <1>7 DEF AnswerTo, n

\* All that the server sends during the set up.
LEMMA AnswersWhole ==
  ASSUME NEW keyboard \in KeyboardSizes, NEW at, NEW what \in {"none", "event", "error", "absent"}
  PROVE  Whole(Answers(keyboard, at, what))
<1> DEFINE A(k) == AnswerTo(k, keyboard, at, what)
           a == CHOOSE f : f = [seq \in 1 .. LAST |-> IF seq = 1 THEN <<>>
                                  ELSE f[seq - 1] \o AnswerTo(seq, keyboard, at, what)]
<1>1. PICK f : f = [seq \in 1 .. LAST |-> IF seq = 1 THEN <<>>
                                  ELSE f[seq - 1] \o AnswerTo(seq, keyboard, at, what)]
  <2>1. LAST \in Nat
    BY DEF LAST
  <2>2. PICK f : IsAnswers(f, keyboard, at, what, LAST)
    BY <2>1, AnswersExist
  <2>3. QED
    BY <2>2, Zenon DEF IsAnswers
<1>2. a = [seq \in 1 .. LAST |-> IF seq = 1 THEN <<>>
                                  ELSE a[seq - 1] \o AnswerTo(seq, keyboard, at, what)]
  BY <1>1, Zenon
<1>3. Answers(keyboard, at, what) = a[LAST]
  BY Zenon DEF Answers
<1> HIDE DEF a
<1>4. LAST = 11
  BY DEF LAST
<1>5. a[1] = <<>> /\ \A k \in 2 .. 11 : a[k] = a[k - 1] \o A(k)
  <2>1. a = [k \in 1 .. 11 |-> IF k = 1 THEN <<>> ELSE a[k - 1] \o A(k)]
    BY <1>2, <1>4
  <2> HIDE DEF A
  <2>2. a[1] = <<>>
    BY <2>1
  <2>3. ASSUME NEW k \in 2 .. 11 PROVE a[k] = a[k - 1] \o A(k)
    <3>1. k \in 1 .. 11 /\ k # 1
      OBVIOUS
    <3>2. QED
      BY <2>1, <3>1
  <2>4. QED
    BY <2>2, <2>3
<1>6. \A k \in 2 .. 11 : Whole(A(k))
  BY <1>4, AnswerWhole
<1> HIDE DEF A
<1> DEFINE T == {n \in Nat : n < 11 => Whole(a[n + 1])}
<1>7. 0 \in T
  BY <1>5, WholeNothing
<1>8. ASSUME NEW n \in Nat, n \in T PROVE n + 1 \in T
  <2>1. SUFFICES ASSUME n + 1 < 11 PROVE Whole(a[(n + 1) + 1])
    OBVIOUS
  <2>2. Whole(a[n + 1])
    BY <1>8, <2>1
  <2>3. (n + 1) + 1 \in 2 .. 11 /\ ((n + 1) + 1) - 1 = n + 1
    BY <2>1
  <2>4. a[(n + 1) + 1] = a[n + 1] \o A((n + 1) + 1)
    BY <1>5, <2>3
  <2>5. QED
    BY <1>6, <2>2, <2>3, <2>4, WholeBoth
<1>9. \A n \in Nat : n \in T
  BY <1>7, <1>8, Counting
<1>10. Whole(a[10 + 1]) /\ 10 + 1 = 11
  BY <1>9
<1>11. QED
  BY <1>3, <1>4, <1>10

-----------------------------------------------------------------------------
(***************************************************************************)
(* The circular buffer.                                                    *)
(***************************************************************************)

\* Arithmetic of a circular buffer of n places.
LEMMA Division ==
  ASSUME NEW x \in Int, NEW n \in Nat \ {0}
  PROVE  \E q \in Int : x = n * q + (x % n)
<1>1. x = n * (x \div n) + (x % n) /\ x \div n \in Int
  OBVIOUS
<1>2. QED
  BY <1>1

\* The remainder is the one there is.
LEMMA Remainder ==
  ASSUME NEW n \in Nat \ {0}, NEW q \in Int, NEW r \in 0 .. n - 1
  PROVE  (n * q + r) % n = r
OBVIOUS

\* Going around does not change the place.
LEMMA ModPlusMultiple ==
  ASSUME NEW x \in Int, NEW n \in Nat \ {0}, NEW q \in Int
  PROVE  (x + n * q) % n = x % n
<1>1. PICK p \in Int : x = n * p + (x % n)
  BY Division
<1>2. x + n * q = n * (p + q) + (x % n)
  BY <1>1
<1>3. (n * (p + q) + (x % n)) % n = x % n
  BY Remainder
<1>4. QED
  BY <1>2, <1>3

\* Going on from a place.
LEMMA ModOfMod ==
  ASSUME NEW x \in Int, NEW y \in Int, NEW n \in Nat \ {0}
  PROVE  ((x % n) + y) % n = (x + y) % n
<1> DEFINE r == x % n
<1>1. PICK p \in Int : x = n * p + r
  BY Division
<1>2. r \in Int
  OBVIOUS
<1> HIDE DEF r
<1> DEFINE z == n * p
<1>3. z \in Int /\ x = z + r
  BY <1>1
<1> HIDE DEF z
<1>4. x + y = (r + y) + z /\ r + y \in Int
  BY <1>2, <1>3
<1>5. ((r + y) + n * p) % n = (r + y) % n
  BY <1>4, ModPlusMultiple
<1>6. QED
  BY <1>4, <1>5 DEF r, z

\* How far one place is from another.
LEMMA RingDistance ==
  ASSUME NEW n \in Nat \ {0}, NEW p \in Int, NEW i \in Int, NEW j \in Int
  PROVE  /\ (p + i) % n \in 0 .. n - 1
         /\ (((p + i) % n) - (p + j)) % n = (i - j) % n
         /\ i - j \in 0 .. n - 1 => (i - j) % n = i - j
         /\ i - j \in -n .. -1 => (i - j) % n = i - j + n
<1>1. (p + i) % n \in 0 .. n - 1
  OBVIOUS
<1>2. (((p + i) % n) + -(p + j)) % n = ((p + i) + -(p + j)) % n
  <2>1. p + i \in Int /\ -(p + j) \in Int
    OBVIOUS
  <2>2. QED
    BY <2>1, ModOfMod
<1>3. ((p + i) % n) + -(p + j) = ((p + i) % n) - (p + j)
  BY <1>1
<1>4. (p + i) + -(p + j) = i - j
  OBVIOUS
<1>5. i - j \in 0 .. n - 1 => (i - j) % n = i - j
  OBVIOUS
<1>6. ASSUME i - j \in -n .. -1 PROVE (i - j) % n = i - j + n
  <2>1. i - j = n * (-1) + (i - j + n) /\ i - j + n \in 0 .. n - 1
    BY <1>6
  <2>2. (n * (-1) + (i - j + n)) % n = i - j + n
    BY <2>1, Remainder
  <2>3. QED
    BY <2>1, <2>2
<1>7. QED
  BY <1>1, <1>2, <1>3, <1>4, <1>5, <1>6

\* The rest of a big keyboard map is read past the buffer.
PastBuffer == pc = "x11_keyboard" /\ Len(keyboardMap) > PAGE
\* How many units were read and not yet handled.
Taken == IF PastBuffer THEN totalRead ELSE receivedSize

\* What was sent and not yet handled.
Pending == [k \in 1 .. Taken + Len(wire) |->
              IF k <= receivedSize THEN buffer[(bufferPos + (k - 1)) % PAGE]
              ELSE IF k <= Taken THEN keyboardMap[k]
              ELSE wire[k - Taken]]

\* The places before the set up was sent.
Connecting == {"start", "x11_display", "x11_context", "x11_auth", "x11_memfd", "x11_map",
               "x11_socket", "x11_connect", "x11_response", "x11_accepted", "x11_authDone",
               "x11_setup"}

\* What the parts of the stream are made of.
StreamTypes ==
  /\ wire \in Seq(UnitSet)
  /\ buffer \in [0 .. PAGE - 1 -> UnitSet \cup {NoUnit}]
  /\ bufferPos \in 0 .. PAGE - 1 /\ receivedSize \in 0 .. PAGE
  /\ keyboardMap \in Seq(UnitSet \cup {NoUnit}) /\ totalRead \in Nat

\* The keyboard map's reply is at hand.
Copying ==
  /\ receivedSize >= HEADER /\ totalRead <= Len(keyboardMap)
  /\ generic = Message("reply", KEYBOARD, Len(keyboardMap))
  /\ PastBuffer => receivedSize <= totalRead
  /\ ~PastBuffer => totalRead = Len(keyboardMap) /\ receivedSize >= totalRead

\* The keyboard map, once there is one, is the whole reply.
Copied ==
  keyboardMap # <<>> =>
    /\ nextSequenceNumber = LAST
    /\ keyboardMap = Units(Message("reply", KEYBOARD, Len(keyboardMap)))

\* The inductive invariant of the stream: what was sent and not yet handled, wherever it is, is
\* a sequence of whole messages.
Streaming ==
  /\ StreamTypes /\ Whole(Pending)
  /\ pc \in Connecting => wire = <<>> /\ receivedSize = 0 /\ keyboardMap = <<>>
  /\ pc = "x11_keyboard" => Copying
  /\ pc # "x11_keyboard" => Copied

\* The buffer has a size.
LEMMA PageFact == PAGE \in Nat \ {0}
BY X11Assumption

\* The message in front, of which the first units are in the buffer.
LEMMA Ahead ==
  ASSUME StreamTypes, Whole(Pending), receivedSize > 0, receivedSize <= Taken, Taken \in Nat
  PROVE  /\ Len(Pending) = Taken + Len(wire) /\ Pending[1] = buffer[bufferPos]
         /\ generic \in Messages /\ generic.size <= Len(Pending) /\ generic.size \in Nat
         /\ generic.size >= 2
         /\ \A k \in 1 .. generic.size : Pending[k] = <<generic, k - 1>>
         /\ Pending[1][1] = generic
<1>1. PAGE \in Nat \ {0} /\ bufferPos \in 0 .. PAGE - 1 /\ receivedSize \in Nat /\ Len(wire) \in Nat
  BY PageFact DEF StreamTypes
<1>2. Pending \in Seq(UnitSet)
  BY DEF Whole
<1>3. DOMAIN Pending = 1 .. Taken + Len(wire)
  BY DEF Pending
<1>4. Len(Pending) = Taken + Len(wire)
  BY <1>1, <1>2, <1>3
<1>5. 1 \in 1 .. Taken + Len(wire) /\ 1 <= receivedSize
  BY <1>1
<1>6. Pending[1] = buffer[(bufferPos + (1 - 1)) % PAGE]
  BY <1>5 DEF Pending
<1>7. (bufferPos + (1 - 1)) % PAGE = bufferPos
  BY <1>1
<1>8. Pending[1] = buffer[bufferPos] /\ Pending[1][1] = generic
  BY <1>6, <1>7 DEF generic
<1>9. Len(Pending) > 0
  BY <1>1, <1>4
<1> HIDE DEF generic
<1>10. /\ generic \in Messages /\ generic.size <= Len(Pending)
       /\ \A k \in 1 .. generic.size : Pending[k] = <<generic, k - 1>>
  BY <1>8, <1>9, FirstMessage
<1>11. generic.size \in Nat /\ generic.size >= 2
  BY <1>10 DEF Messages, HEADER
<1>12. QED
  BY <1>4, <1>8, <1>10, <1>11

\* What x11Client_nextMessage says.
LEMMA NextMessageSays ==
  ASSUME StreamTypes, Whole(Pending), ~PastBuffer
  PROVE  /\ x11Client_nextMessage \in Int
         /\ x11Client_nextMessage # 0 => receivedSize >= 2 /\ generic \in Messages
         /\ x11Client_nextMessage > 0 => x11Client_nextMessage = generic.size /\ generic.size <= receivedSize
         /\ x11Client_nextMessage < 0 => generic.size > PAGE
         /\ x11Client_nextMessage > 0 => generic.size <= PAGE
<1>1. PAGE \in Nat \ {0} /\ receivedSize \in 0 .. PAGE /\ receivedSize \in Nat
  BY PageFact DEF StreamTypes
<1>2. CASE receivedSize < HEADER
  BY <1>1, <1>2 DEF x11Client_nextMessage
<1>3. CASE ~(receivedSize < HEADER)
  <2>1. Taken = receivedSize /\ receivedSize > 0 /\ receivedSize >= 2
    BY <1>1, <1>3 DEF Taken, HEADER
  <2>2. generic \in Messages /\ generic.size \in Nat /\ generic.size >= 2
    BY <1>1, <2>1, Ahead
  <2> HIDE DEF generic
  <2>3. generic.type \notin {"reply", "motion"} => generic.size = 2
    BY <2>2 DEF Messages, HEADER
  <2>4. QED
    BY <1>1, <1>3, <2>1, <2>2, <2>3 DEF x11Client_nextMessage, HEADER
<1>4. QED
  BY <1>2, <1>3

\* Cutting off the front of what is on the wire.
LEMMA CutWire ==
  ASSUME NEW w \in Seq(UnitSet), NEW n \in 1 .. Len(w), NEW v, v = SubSeq(w, n + 1, Len(w))
  PROVE  v \in Seq(UnitSet) /\ Len(v) = Len(w) - n /\ \A i \in 1 .. Len(v) : v[i] = w[i + n]
<1>1. Len(w) \in Nat /\ n + 1 \in 1 .. Len(w) + 1 /\ Len(w) \in n .. Len(w)
  OBVIOUS
<1>2. v \in Seq(UnitSet) /\ Len(v) = Len(w) - n
  BY <1>1
<1>3. ASSUME NEW i \in 1 .. Len(v) PROVE v[i] = w[i + n]
  <2>1. SubSeq(w, n + 1, Len(w))[i] = w[(n + 1) + i - 1]
    BY <1>1, <1>2
  <2>2. (n + 1) + i - 1 = i + n
    BY <1>1, <1>2
  <2>3. QED
    BY <2>1, <2>2
<1>4. QED
  BY <1>2, <1>3

\* A receive moves units from the wire into the free part of the buffer.
LEMMA ReceiveKeeps ==
  ASSUME StreamTypes, NEW next, x11Client_receive(next), ~PastBuffer, ~PastBuffer'
  PROVE  StreamTypes' /\ Pending' = Pending
<1> DEFINE rs == receivedSize
<1>1. PICK n \in 1 .. Least(PAGE - receivedSize, Len(wire)) :
        /\ buffer' = Stored(n)
        /\ receivedSize' = receivedSize + n
        /\ wire' = SubSeq(wire, n + 1, Len(wire))
  BY DEF x11Client_receive
<1>2. /\ PAGE \in Nat \ {0} /\ bufferPos \in 0 .. PAGE - 1 /\ rs \in 0 .. PAGE /\ Len(wire) \in Nat
      /\ wire \in Seq(UnitSet) /\ buffer \in [0 .. PAGE - 1 -> UnitSet \cup {NoUnit}]
  BY PageFact DEF StreamTypes
<1>3. n \in 1 .. Len(wire) /\ n <= PAGE - rs /\ n \in Nat
  BY <1>1, <1>2 DEF Least
<1>4. wire' \in Seq(UnitSet) /\ Len(wire') = Len(wire) - n /\ \A i \in 1 .. Len(wire') : wire'[i] = wire[i + n]
  BY <1>1, <1>2, <1>3, CutWire, SMTT(40)
<1>5. bufferPos' = bufferPos /\ keyboardMap' = keyboardMap /\ totalRead' = totalRead
  BY DEF x11Client_receive
<1>6. ASSUME NEW k \in 0 .. PAGE - 1
      PROVE  LET behind == (k - bufferPos - rs) % PAGE
             IN behind \in Nat /\ buffer'[k] = IF behind < n THEN wire[behind + 1] ELSE buffer[k]
  BY <1>1, <1>2 DEF Stored
<1>7. buffer' \in [0 .. PAGE - 1 -> UnitSet \cup {NoUnit}]
  <2>1. ASSUME NEW k \in 0 .. PAGE - 1 PROVE buffer'[k] \in UnitSet \cup {NoUnit}
    <3> DEFINE behind == (k - bufferPos - rs) % PAGE
    <3>1. behind \in Nat /\ buffer'[k] = IF behind < n THEN wire[behind + 1] ELSE buffer[k]
      BY <1>6
    <3> HIDE DEF behind
    <3>2. behind < n => behind + 1 \in 1 .. Len(wire)
      BY <1>2, <1>3, <3>1
    <3>3. QED
      BY <1>2, <3>1, <3>2
  <2>2. DOMAIN buffer' = 0 .. PAGE - 1 /\ buffer' = [k \in 0 .. PAGE - 1 |-> buffer'[k]]
    BY <1>1 DEF Stored
  <2>3. QED
    BY <2>1, <2>2
<1>8. StreamTypes'
  BY <1>1, <1>2, <1>3, <1>4, <1>5, <1>7 DEF StreamTypes
<1>9. ASSUME NEW k \in 1 .. rs + n
      PROVE  buffer'[(bufferPos + (k - 1)) % PAGE] =
               IF k <= rs THEN buffer[(bufferPos + (k - 1)) % PAGE] ELSE wire[k - rs]
  <2> DEFINE x == (bufferPos + (k - 1)) % PAGE
             behind == (x - bufferPos - rs) % PAGE
  <2>0. x = ((bufferPos + (k - 1)) % PAGE)
    OBVIOUS
  <2> HIDE DEF x
  <2>1. k - 1 \in Int /\ rs \in Int /\ bufferPos \in Int /\ k \in Nat
    BY <1>2, <1>3
  <2>2. x \in 0 .. PAGE - 1 /\ ((x - (bufferPos + rs)) % PAGE) = (((k - 1) - rs) % PAGE)
    <3>1. PAGE \in Nat \ {0}
      BY <1>2
    <3>2. bufferPos \in Int
      BY <2>1
    <3>3. receivedSize \in Int
      BY <2>1
    <3>4. k - 1 \in Int
      BY <2>1
    <3>5. /\ (bufferPos + (k - 1)) % PAGE \in 0 .. PAGE - 1
          /\ (((bufferPos + (k - 1)) % PAGE) - (bufferPos + receivedSize)) % PAGE = ((k - 1) - receivedSize) % PAGE
      BY <3>1, <3>2, <3>3, <3>4, RingDistance, ZenonT(80)
    <3>6. QED
      BY <2>0, <3>5
  <2>3. x - bufferPos - rs = x - (bufferPos + rs)
    BY <2>1, <2>2
  <2>4. behind \in Nat /\ buffer'[x] = IF behind < n THEN wire[behind + 1] ELSE buffer[x]
    BY <1>6, <2>2
  <2>5. behind = ((k - 1) - rs) % PAGE
    BY <2>2, <2>3
  <2> HIDE DEF behind
  <2>6. CASE k <= rs
    <3>1. (k - 1) - rs \in -PAGE .. -1
      BY <1>2, <1>3, <2>1, <2>6
    <3>2. ((k - 1) - rs) % PAGE = (k - 1) - rs + PAGE
      BY <1>2, <2>1, <3>1, RingDistance
    <3>3. ~(behind < n)
      BY <1>2, <1>3, <2>1, <2>5, <2>6, <3>2
    <3>4. QED
      BY <2>4, <2>6, <3>3 DEF x
  <2>7. CASE ~(k <= rs)
    <3>1. (k - 1) - rs \in 0 .. PAGE - 1
      BY <1>2, <1>3, <2>1, <2>7
    <3>2. ((k - 1) - rs) % PAGE = (k - 1) - rs
      BY <1>2, <2>1, <3>1, RingDistance
    <3>3. behind < n /\ behind + 1 = k - rs
      BY <1>2, <1>3, <2>1, <2>5, <2>7, <3>2
    <3>4. QED
      BY <2>4, <2>7, <3>3 DEF x
  <2>8. QED
    BY <2>6, <2>7
<1>10. Taken = rs /\ Taken' = rs + n
  BY <1>1 DEF Taken
<1>11. Taken' + Len(wire') = Taken + Len(wire)
  BY <1>2, <1>3, <1>4, <1>10
<1> DEFINE N == rs + Len(wire)
<1>12. Pending = [k \in 1 .. N |-> IF k <= rs THEN buffer[(bufferPos + (k - 1)) % PAGE]
                                  ELSE IF k <= rs THEN keyboardMap[k]
                                  ELSE wire[k - rs]]
  BY <1>10 DEF Pending
<1>13. Pending' = [k \in 1 .. N |-> IF k <= rs + n THEN buffer'[(bufferPos + (k - 1)) % PAGE]
                                  ELSE IF k <= rs + n THEN keyboardMap[k]
                                  ELSE wire'[k - (rs + n)]]
  BY <1>1, <1>5, <1>10, <1>11 DEF Pending
<1>14. ASSUME NEW k \in 1 .. N PROVE Pending'[k] = Pending[k]
  <2>1. CASE k <= rs + n
    <3>1. k \in 1 .. rs + n
      BY <1>2, <1>3, <2>1
    <3>2. Pending'[k] = buffer'[(bufferPos + (k - 1)) % PAGE]
      BY <1>13, <2>1
    <3>3. Pending[k] = IF k <= rs THEN buffer[(bufferPos + (k - 1)) % PAGE] ELSE wire[k - rs]
      BY <1>12
    <3>4. QED
      BY <1>9, <3>1, <3>2, <3>3
  <2>2. CASE ~(k <= rs + n)
    <3>1. k - (rs + n) \in 1 .. Len(wire') /\ (k - (rs + n)) + n = k - rs /\ ~(k <= rs)
      BY <1>2, <1>3, <1>4, <2>2
    <3>2. Pending'[k] = wire'[k - (rs + n)]
      BY <1>13, <2>2
    <3>3. Pending[k] = wire[k - rs]
      BY <1>12, <3>1
    <3>4. QED
      BY <1>4, <3>1, <3>2, <3>3
  <2>3. QED
    BY <2>1, <2>2
<1>15. Pending' = Pending
  BY <1>12, <1>13, <1>14
<1>16. QED
  BY <1>8, <1>15

\* What is pending, by the place.
LEMMA PendingPlaces ==
  ASSUME StreamTypes, ~PastBuffer
  PROVE  /\ Taken = receivedSize
         /\ DOMAIN Pending = 1 .. receivedSize + Len(wire)
         /\ \A k \in 1 .. receivedSize : Pending[k] = buffer[(bufferPos + (k - 1)) % PAGE]
         /\ \A k \in receivedSize + 1 .. receivedSize + Len(wire) : Pending[k] = wire[k - receivedSize]
<1>1. receivedSize \in Nat /\ Len(wire) \in Nat
  BY PageFact DEF StreamTypes
<1>2. Taken = receivedSize
  BY DEF Taken
<1>3. Pending = [k \in 1 .. receivedSize + Len(wire) |->
                   IF k <= receivedSize THEN buffer[(bufferPos + (k - 1)) % PAGE]
                   ELSE IF k <= receivedSize THEN keyboardMap[k]
                   ELSE wire[k - receivedSize]]
  BY <1>2 DEF Pending
<1>4. QED
  BY <1>1, <1>2, <1>3

\* Acknowledging the message in front leaves what is behind it.
LEMMA AckKeeps ==
  ASSUME StreamTypes, Whole(Pending), ~PastBuffer, ~PastBuffer', receivedSize > 0,
         generic.size <= receivedSize, x11Client_ackMessage(generic.size), UNCHANGED wire
  PROVE  /\ Whole(Pending') /\ buffer' = buffer
         /\ bufferPos' \in 0 .. PAGE - 1 /\ receivedSize' \in 0 .. PAGE
<1> DEFINE n == generic.size
           rs == receivedSize
           W == Len(wire)
<1>1. /\ PAGE \in Nat \ {0} /\ bufferPos \in 0 .. PAGE - 1 /\ rs \in 0 .. PAGE /\ W \in Nat
      /\ wire \in Seq(UnitSet)
  BY PageFact DEF StreamTypes
<1>2. Taken = rs
  BY DEF Taken
<1>3. /\ Len(Pending) = rs + W /\ n \in Nat /\ n >= 2 /\ Pending[1][1].size = n
  BY <1>1, <1>2, Ahead
<1>4. n <= rs /\ bufferPos' = (bufferPos + n) % PAGE /\ receivedSize' = rs - n /\ buffer' = buffer
  BY DEF x11Client_ackMessage
<1> HIDE DEF n
<1>5. bufferPos' \in 0 .. PAGE - 1 /\ receivedSize' \in 0 .. PAGE
  BY <1>1, <1>3, <1>4
<1>6. Pending \in Seq(UnitSet) /\ \A k \in 1 .. rs + W : Pending[k] \in UnitSet
  BY <1>3 DEF Whole
<1>7. Taken' = rs - n /\ wire' = wire
  BY <1>4 DEF Taken
<1> DEFINE N == (rs - n) + W
<1>8. Pending' = [k \in 1 .. N |-> IF k <= rs - n THEN buffer[(bufferPos' + (k - 1)) % PAGE]
                                  ELSE IF k <= rs - n THEN keyboardMap'[k]
                                  ELSE wire[k - (rs - n)]]
  BY <1>4, <1>7 DEF Pending
<1>9. ASSUME NEW k \in 1 .. N PROVE Pending'[k] = Pending[k + n] /\ k + n \in 1 .. rs + W
  <2>1. k + n \in 1 .. rs + W
    BY <1>1, <1>3, <1>4
  <2>2. CASE k <= rs - n
    <3>1. Pending'[k] = buffer[(bufferPos' + (k - 1)) % PAGE]
      BY <1>8, <2>2
    <3>2. k + n \in 1 .. rs
      BY <1>1, <1>3, <2>1, <2>2
    <3>3. Pending[k + n] = buffer[(bufferPos + ((k + n) - 1)) % PAGE]
      BY <3>2, PendingPlaces
    <3>4. (bufferPos' + (k - 1)) % PAGE = (bufferPos + ((k + n) - 1)) % PAGE
      <4>1. bufferPos + n \in Int
        BY <1>1, <1>3
      <4>2. k - 1 \in Int
        BY <1>1, <1>3, <1>4
      <4>3. PAGE \in Nat \ {0}
        BY <1>1
      <4>4. (((bufferPos + n) % PAGE) + (k - 1)) % PAGE = ((bufferPos + n) + (k - 1)) % PAGE
        BY <4>1, <4>2, <4>3, ModOfMod, Zenon
      <4>5. (bufferPos + n) + (k - 1) = bufferPos + ((k + n) - 1)
        BY <1>1, <1>3, <1>4
      <4>6. QED
        BY <1>4, <4>4, <4>5
    <3>5. QED
      BY <2>1, <3>1, <3>3, <3>4
  <2>3. CASE ~(k <= rs - n)
    <3>1. Pending'[k] = wire[k - (rs - n)]
      BY <1>8, <2>3
    <3>2. k + n \in rs + 1 .. rs + W /\ (k + n) - rs = k - (rs - n)
      BY <1>1, <1>3, <1>4, <2>1, <2>3
    <3>3. Pending[k + n] = wire[(k + n) - rs]
      BY <3>2, PendingPlaces
    <3>4. QED
      BY <2>1, <3>1, <3>2, <3>3
  <2>4. QED
    BY <2>2, <2>3
<1>10. N \in Nat /\ N = Len(Pending) - n
  BY <1>1, <1>3, <1>4
<1>11. Pending' \in [1 .. N -> UnitSet]
  BY <1>6, <1>8, <1>9
<1>12. Pending' \in Seq(UnitSet) /\ Len(Pending') = N
  BY <1>10, <1>11, Tabled
<1> HIDE DEF N
<1>13. Whole(Pending')
  <2>1. Len(Pending) > 0
    BY <1>1, <1>3
  <2>2. Len(Pending') = Len(Pending) - Pending[1][1].size
    BY <1>3, <1>10, <1>12
  <2>3. \A k \in 1 .. Len(Pending') : Pending'[k] = Pending[k + Pending[1][1].size]
    BY <1>3, <1>9, <1>12
  <2>4. Pending' \in Seq(UnitSet)
    BY <1>12
  <2>5. QED
    BY <2>1, <2>2, <2>3, <2>4, WholeRest
<1>14. QED
  BY <1>4, <1>5, <1>13

\* What the server sends comes behind.
LEMMA SentKeeps ==
  ASSUME StreamTypes, Whole(Pending), ~PastBuffer, ~PastBuffer',
         UNCHANGED <<bufferVars, keyboardMap, totalRead>>, NEW t, Whole(t), wire' = wire \o t
  PROVE  StreamTypes' /\ Whole(Pending')
<1> DEFINE rs == receivedSize
           W == Len(wire)
           q == Pending \o t
<1>1. /\ rs \in Nat /\ W \in Nat /\ wire \in Seq(UnitSet) /\ t \in Seq(UnitSet) /\ Len(t) \in Nat
      /\ Pending \in Seq(UnitSet)
  BY PageFact, SMTT(40) DEF StreamTypes, Whole
<1>2. DOMAIN Pending = 1 .. rs + W
  BY PendingPlaces
<1>3. Len(Pending) = rs + W
  BY <1>1, <1>2
<1>4. /\ wire' \in Seq(UnitSet) /\ Len(wire') = W + Len(t)
      /\ \A i \in 1 .. W + Len(t) : wire'[i] = IF i <= W THEN wire[i] ELSE t[i - W]
  BY <1>1, ConcatProperties, Zenon
<1>5. /\ q \in Seq(UnitSet) /\ Len(q) = Len(Pending) + Len(t)
      /\ \A i \in 1 .. Len(Pending) + Len(t) : q[i] = IF i <= Len(Pending) THEN Pending[i] ELSE t[i - Len(Pending)]
  BY <1>1, ConcatProperties, Zenon
<1> HIDE DEF q
<1>6. UNCHANGED <<buffer, bufferPos, receivedSize, keyboardMap, totalRead>>
  BY DEF bufferVars
<1>7. StreamTypes'
  BY <1>4, <1>6 DEF StreamTypes
<1>8. Taken' = rs
  BY <1>6 DEF Taken
<1> DEFINE N == rs + (W + Len(t))
<1>9. Pending' = [k \in 1 .. N |-> IF k <= rs THEN buffer[(bufferPos + (k - 1)) % PAGE]
                                  ELSE IF k <= rs THEN keyboardMap[k]
                                  ELSE wire'[k - rs]]
  BY <1>4, <1>6, <1>8 DEF Pending
<1>10. ASSUME NEW k \in 1 .. N PROVE Pending'[k] = q[k]
  <2>1. q[k] = IF k <= rs + W THEN Pending[k] ELSE t[k - (rs + W)]
    BY <1>1, <1>3, <1>5
  <2>2. CASE k <= rs
    <3>1. k \in 1 .. rs /\ k <= rs + W
      BY <1>1, <2>2
    <3>2. Pending'[k] = buffer[(bufferPos + (k - 1)) % PAGE]
      BY <1>9, <2>2
    <3>3. Pending[k] = buffer[(bufferPos + (k - 1)) % PAGE]
      BY <3>1, PendingPlaces
    <3>4. QED
      BY <2>1, <3>1, <3>2, <3>3
  <2>3. CASE ~(k <= rs)
    <3>1. Pending'[k] = wire'[k - rs]
      BY <1>9, <2>3
    <3>2. k - rs \in 1 .. W + Len(t)
      BY <1>1, <2>3
    <3>3. wire'[k - rs] = IF k - rs <= W THEN wire[k - rs] ELSE t[(k - rs) - W]
      BY <1>4, <3>2
    <3>4. CASE k <= rs + W
      <4>1. k \in rs + 1 .. rs + W /\ k - rs <= W
        BY <1>1, <2>3, <3>4
      <4>2. Pending[k] = wire[k - rs]
        BY <4>1, PendingPlaces
      <4>3. QED
        BY <2>1, <3>1, <3>3, <3>4, <4>1, <4>2
    <3>5. CASE ~(k <= rs + W)
      <4>1. ~(k - rs <= W) /\ (k - rs) - W = k - (rs + W)
        BY <1>1, <3>5
      <4>2. QED
        BY <2>1, <3>1, <3>3, <3>5, <4>1
    <3>6. QED
      BY <3>4, <3>5
  <2>4. QED
    BY <2>2, <2>3
<1>11. q = [k \in 1 .. N |-> q[k]]
  <2>1. Len(q) = N
    BY <1>1, <1>3, <1>5
  <2>2. QED
    BY <1>5, <2>1
<1>12. Pending' = q
  BY <1>9, <1>10, <1>11
<1>13. Whole(q)
  BY WholeBoth DEF q
<1>14. QED
  BY <1>7, <1>12, <1>13

-----------------------------------------------------------------------------
(***************************************************************************)
(* The keyboard map.                                                       *)
(***************************************************************************)

\* The reply to the request for the keyboard map, but for its size.
LEMMA ReplyIs ==
  ASSUME NEW m \in Messages, m.type = "reply", m.seq = KEYBOARD
  PROVE  m = Message("reply", KEYBOARD, m.size)
BY DEF Messages, Message

\* The map is allocated with the size that the header of the reply says.
LEMMA MapKeeps ==
  ASSUME Streaming, Places, MapKeyboard
  PROVE  Streaming'
<1>1. pc = "x11_wait" /\ pc' = "x11_keyboard" /\ x11Client_nextMessage # 0 /\ ~PastBuffer
  BY DEF MapKeyboard, Accepted, PastBuffer, Gets
<1>2. generic.type = "reply" /\ generic.seq = KEYBOARD
  BY DEF MapKeyboard, Accepted
<1>3. UNCHANGED <<wire, buffer, bufferPos, receivedSize>> /\ generic' = generic
  BY DEF MapKeyboard, bufferVars, generic
<1>4. StreamTypes /\ Whole(Pending)
  BY DEF Streaming
<1>5. PAGE \in Nat \ {0} /\ receivedSize \in 0 .. PAGE
  BY <1>4, PageFact DEF StreamTypes
<1>6. /\ x11Client_nextMessage \in Int /\ receivedSize >= 2 /\ generic \in Messages
      /\ x11Client_nextMessage > 0 => generic.size <= receivedSize /\ generic.size <= PAGE
      /\ x11Client_nextMessage < 0 => generic.size > PAGE
  BY <1>1, <1>4, NextMessageSays
<1>7. generic.size \in Nat
  BY <1>6 DEF Messages
<1>8. /\ keyboardMap' = [k \in 1 .. generic.size |-> NoUnit]
      /\ totalRead' = IF x11Client_nextMessage < 0 THEN receivedSize ELSE generic.size
  BY DEF MapKeyboard
<1>9. keyboardMap' \in Seq(UnitSet \cup {NoUnit}) /\ Len(keyboardMap') = generic.size
  <2>1. keyboardMap' \in [1 .. generic.size -> UnitSet \cup {NoUnit}]
    BY <1>8
  <2>2. QED
    BY <1>7, <2>1, Tabled
<1>10. PastBuffer' <=> generic.size > PAGE
  BY <1>1, <1>9 DEF PastBuffer
<1>11. Taken' = receivedSize
  BY <1>1, <1>3, <1>5, <1>6, <1>7, <1>8, <1>10 DEF Taken
<1>12. StreamTypes'
  <2>1. totalRead' \in Nat
    BY <1>5, <1>7, <1>8
  <2>2. QED
    BY <1>3, <1>4, <1>9, <2>1 DEF StreamTypes
<1>13. Pending' = Pending
  <2>1. Taken = receivedSize
    BY <1>1 DEF Taken
  <2>2. Pending = [k \in 1 .. receivedSize + Len(wire) |->
                     IF k <= receivedSize THEN buffer[(bufferPos + (k - 1)) % PAGE]
                     ELSE IF k <= receivedSize THEN keyboardMap[k]
                     ELSE wire[k - receivedSize]]
    BY <2>1 DEF Pending
  <2>3. Pending' = [k \in 1 .. receivedSize + Len(wire) |->
                     IF k <= receivedSize THEN buffer[(bufferPos + (k - 1)) % PAGE]
                     ELSE IF k <= receivedSize THEN keyboardMap'[k]
                     ELSE wire[k - receivedSize]]
    BY <1>3, <1>11 DEF Pending
  <2>4. QED
    BY <2>2, <2>3
<1>14. generic' = Message("reply", KEYBOARD, Len(keyboardMap'))
  <2>1. generic = Message("reply", KEYBOARD, generic.size)
    BY <1>2, <1>6, ReplyIs
  <2>2. QED
    BY <1>3, <1>9, <2>1
<1>15. Copying'
  <2>1. receivedSize' >= 2 /\ totalRead' <= Len(keyboardMap')
    BY <1>3, <1>5, <1>6, <1>7, <1>8, <1>9
  <2>2. PastBuffer' => receivedSize' <= totalRead'
    BY <1>3, <1>5, <1>6, <1>7, <1>8, <1>10
  <2>3. ~PastBuffer' => totalRead' = Len(keyboardMap') /\ receivedSize' >= totalRead'
    BY <1>1, <1>3, <1>5, <1>6, <1>7, <1>8, <1>9, <1>10
  <2>4. QED
    BY <1>14, <2>1, <2>2, <2>3 DEF Copying, HEADER
<1>16. QED
  BY <1>1, <1>4, <1>12, <1>13, <1>15 DEF Streaming, Connecting

\* The rest of a reply larger than the buffer is read straight into the map.
LEMMA ReadKeeps ==
  ASSUME Streaming, Places, ReadKeyboard
  PROVE  Streaming'
<1> DEFINE L == Len(keyboardMap)
           T == totalRead
<1>1. pc = "x11_keyboard" /\ T < L /\ pc' = pc /\ UNCHANGED <<buffer, bufferPos, receivedSize>>
  BY DEF ReadKeyboard, eglVars, bufferVars
<1>2. StreamTypes /\ Whole(Pending) /\ Copying
  BY <1>1 DEF Streaming
<1>3. /\ PAGE \in Nat \ {0} /\ receivedSize \in 0 .. PAGE /\ L \in Nat /\ T \in Nat /\ Len(wire) \in Nat
      /\ wire \in Seq(UnitSet) /\ keyboardMap \in Seq(UnitSet \cup {NoUnit}) /\ DOMAIN keyboardMap = 1 .. L
  BY <1>2, PageFact DEF StreamTypes
<1>4. PastBuffer /\ receivedSize <= T
  <2>1. T \in Nat /\ L \in Nat
    BY <1>3
  <2>2. T < L
    BY <1>1
  <2>3. T # L
    <3> HIDE DEF T, L
    <3>1. QED
      BY <2>1, <2>2
  <2>4. QED
    BY <1>2, <2>3, Zenon DEF Copying
<1>5. PICK n \in 1 .. Least(L - T, Len(wire)) :
        /\ keyboardMap' = [k \in DOMAIN keyboardMap |->
                             IF k > T /\ k <= T + n THEN wire[k - T] ELSE keyboardMap[k]]
        /\ totalRead' = T + n
        /\ wire' = SubSeq(wire, n + 1, Len(wire))
  BY DEF ReadKeyboard
<1>6. n \in 1 .. Len(wire) /\ n \in Nat /\ T + n <= L
  BY <1>3, <1>5 DEF Least
<1>7. wire' \in Seq(UnitSet) /\ Len(wire') = Len(wire) - n /\ \A i \in 1 .. Len(wire') : wire'[i] = wire[i + n]
  BY <1>3, <1>5, <1>6, CutWire
<1>8. keyboardMap' \in Seq(UnitSet \cup {NoUnit}) /\ Len(keyboardMap') = L
  <2>1. ASSUME NEW k \in 1 .. L PROVE keyboardMap'[k] \in UnitSet \cup {NoUnit}
    <3>1. k > T /\ k <= T + n => k - T \in 1 .. Len(wire)
      BY <1>3, <1>6
    <3>2. keyboardMap'[k] = IF k > T /\ k <= T + n THEN wire[k - T] ELSE keyboardMap[k]
      BY <1>3, <1>5
    <3>3. keyboardMap[k] \in UnitSet \cup {NoUnit} /\ \A i \in 1 .. Len(wire) : wire[i] \in UnitSet
      BY <1>3
    <3>4. QED
      BY <3>1, <3>2, <3>3
  <2>2. keyboardMap' \in [1 .. L -> UnitSet \cup {NoUnit}]
    BY <1>3, <1>5, <2>1
  <2>3. QED
    BY <1>3, <2>2, Tabled
<1>9. PastBuffer' /\ Taken = T /\ Taken' = T + n
  BY <1>1, <1>4, <1>5, <1>8 DEF PastBuffer, Taken
<1>10. StreamTypes'
  BY <1>1, <1>2, <1>3, <1>5, <1>6, <1>7, <1>8 DEF StreamTypes
<1> DEFINE N == T + Len(wire)
<1>11. Pending = [k \in 1 .. N |-> IF k <= receivedSize THEN buffer[(bufferPos + (k - 1)) % PAGE]
                                  ELSE IF k <= T THEN keyboardMap[k]
                                  ELSE wire[k - T]]
  BY <1>9 DEF Pending
<1>12. Taken' + Len(wire') = N
  BY <1>3, <1>6, <1>7, <1>9
<1>13. Pending' = [k \in 1 .. N |-> IF k <= receivedSize THEN buffer[(bufferPos + (k - 1)) % PAGE]
                                  ELSE IF k <= T + n THEN keyboardMap'[k]
                                  ELSE wire'[k - (T + n)]]
  BY <1>1, <1>9, <1>12 DEF Pending
<1>14. ASSUME NEW k \in 1 .. N PROVE Pending'[k] = Pending[k]
  <2>1. CASE k <= receivedSize
    BY <1>11, <1>13, <2>1
  <2>2. CASE ~(k <= receivedSize) /\ k <= T
    <3>1. k \in DOMAIN keyboardMap /\ ~(k > T) /\ k <= T + n
      BY <1>3, <1>6, <2>2
    <3>2. keyboardMap'[k] = keyboardMap[k]
      BY <1>5, <3>1
    <3>3. Pending'[k] = keyboardMap'[k] /\ Pending[k] = keyboardMap[k]
      BY <1>11, <1>13, <2>2, <3>1
    <3>4. QED
      BY <3>2, <3>3
  <2>3. CASE ~(k <= T) /\ k <= T + n
    <3>1. k \in DOMAIN keyboardMap /\ k > T /\ ~(k <= receivedSize)
      BY <1>3, <1>4, <1>6, <2>3
    <3>2. keyboardMap'[k] = wire[k - T]
      BY <1>5, <2>3, <3>1
    <3>3. Pending'[k] = keyboardMap'[k] /\ Pending[k] = wire[k - T]
      BY <1>11, <1>13, <2>3, <3>1
    <3>4. QED
      BY <3>2, <3>3
  <2>4. CASE ~(k <= T + n)
    <3>1. ~(k <= T) /\ ~(k <= receivedSize) /\ k - (T + n) \in 1 .. Len(wire') /\ (k - (T + n)) + n = k - T
      BY <1>3, <1>4, <1>6, <1>7, <2>4
    <3>2. wire'[k - (T + n)] = wire[k - T]
      BY <1>7, <3>1
    <3>3. Pending'[k] = wire'[k - (T + n)] /\ Pending[k] = wire[k - T]
      BY <1>11, <1>13, <2>4, <3>1
    <3>4. QED
      BY <3>2, <3>3
  <2>5. QED
    BY <1>3, <1>6, <2>1, <2>2, <2>3, <2>4
<1>15. Pending' = Pending
  BY <1>11, <1>13, <1>14
<1>16. generic' = generic
  BY <1>1 DEF generic
<1>17. Copying'
  BY <1>1, <1>2, <1>3, <1>4, <1>5, <1>6, <1>8, <1>9, <1>16 DEF Copying
<1>18. QED
  BY <1>1, <1>2, <1>10, <1>15, <1>17 DEF Streaming, Connecting

\* The copy: the map is the reply, whole and in order, and what is left is behind it.
LEMMA CopyKeeps ==
  ASSUME Streaming, Places, CopyKeyboard
  PROVE  Streaming'
<1> DEFINE L == Len(keyboardMap)
           m == Message("reply", KEYBOARD, L)
           msgSize == IF L > PAGE THEN receivedSize ELSE L
<1>1. /\ pc = "x11_keyboard" /\ totalRead = L /\ pc' = "x11_wait" /\ UNCHANGED <<wire, totalRead>>
      /\ keyboardMap' = [k \in DOMAIN keyboardMap |->
                           IF k <= msgSize THEN buffer[(bufferPos + k - 1) % PAGE] ELSE keyboardMap[k]]
      /\ x11Client_ackMessage(msgSize) /\ nextSequenceNumber' = nextSequenceNumber + 1
  BY DEF CopyKeyboard
<1>2. StreamTypes /\ Whole(Pending) /\ Copying
  BY <1>1 DEF Streaming
<1>3. /\ PAGE \in Nat \ {0} /\ receivedSize \in 0 .. PAGE /\ L \in Nat /\ Len(wire) \in Nat
      /\ bufferPos \in 0 .. PAGE - 1
      /\ wire \in Seq(UnitSet) /\ keyboardMap \in Seq(UnitSet \cup {NoUnit}) /\ DOMAIN keyboardMap = 1 .. L
  BY <1>2, PageFact DEF StreamTypes
<1>4. PastBuffer <=> L > PAGE
  BY <1>1 DEF PastBuffer
<1>5. receivedSize >= 2 /\ generic = m
  BY <1>2 DEF Copying, HEADER
<1>6. Taken \in Nat /\ receivedSize <= Taken /\ receivedSize > 0 /\ L <= Taken
  <2>1. CASE PastBuffer
    BY <1>1, <1>2, <1>3, <1>5, <2>1 DEF Copying, Taken
  <2>2. CASE ~PastBuffer
    <3>1. totalRead <= receivedSize /\ Taken = receivedSize
      BY <1>2, <1>3, <2>2 DEF Copying, Taken
    <3>2. QED
      BY <1>1, <1>3, <1>5, <3>1
  <2>3. QED
    BY <2>1, <2>2
<1>7. /\ Len(Pending) = Taken + Len(wire) /\ generic \in Messages /\ generic.size >= 2
      /\ \A k \in 1 .. generic.size : Pending[k] = <<generic, k - 1>>
      /\ Pending[1][1] = generic
  BY <1>2, <1>6, Ahead
<1>8. generic.size = L
  BY <1>5 DEF Message
<1>9. /\ m \in Messages /\ L >= 2 /\ Pending[1][1].size = L /\ m.size = L
      /\ \A k \in 1 .. L : Pending[k] = <<m, k - 1>>
  BY <1>5, <1>7, <1>8
<1> HIDE DEF m
<1>10. Len(Units(m)) = L /\ Units(m) \in Seq(UnitSet) /\ \A k \in 1 .. L : Units(m)[k] = <<m, k - 1>>
  BY <1>9, WholeUnits DEF Whole
<1>11. ASSUME NEW k \in 1 .. L PROVE keyboardMap'[k] = Pending[k]
  <2>1. k \in 1 .. Taken + Len(wire)
    BY <1>3, <1>6
  <2>2. Pending[k] = IF k <= receivedSize THEN buffer[(bufferPos + (k - 1)) % PAGE]
                     ELSE IF k <= Taken THEN keyboardMap[k]
                     ELSE wire[k - Taken]
    BY <2>1 DEF Pending
  <2>3. keyboardMap'[k] = IF k <= msgSize THEN buffer[(bufferPos + k - 1) % PAGE] ELSE keyboardMap[k]
    BY <1>1, <1>3
  <2>4. bufferPos + k - 1 = bufferPos + (k - 1)
    BY <1>3
  <2>5. k <= Taken /\ (k <= msgSize <=> k <= receivedSize)
    <3>1. CASE L > PAGE
      BY <1>3, <1>6, <3>1
    <3>2. CASE ~(L > PAGE)
      <4>1. L <= receivedSize
        BY <1>1, <1>2, <1>4, <3>2 DEF Copying
      <4>2. QED
        BY <1>3, <1>6, <3>2, <4>1
    <3>3. QED
      BY <3>1, <3>2
  <2>6. QED
    BY <2>2, <2>3, <2>4, <2>5
<1>12. keyboardMap' = Units(m)
  <2>1. DOMAIN Units(m) = 1 .. L
    BY <1>3, <1>10
  <2>2. keyboardMap' = [k \in 1 .. L |-> keyboardMap'[k]]
    BY <1>1, <1>3
  <2>3. Units(m) = [k \in 1 .. L |-> Units(m)[k]]
    BY <1>10, <2>1
  <2>4. \A k \in 1 .. L : keyboardMap'[k] = Units(m)[k]
    BY <1>9, <1>10, <1>11
  <2>5. QED
    BY <2>2, <2>3, <2>4
<1>13. Len(keyboardMap') = L /\ keyboardMap' \in Seq(UnitSet \cup {NoUnit})
  <2>1. Units(m) \in [1 .. L -> UnitSet \cup {NoUnit}]
    BY <1>3, <1>10
  <2>2. QED
    BY <1>10, <1>12, <2>1, <1>3, Tabled
<1>14. Copied'
  <2>1. nextSequenceNumber' = LAST
    BY <1>1 DEF Places, KEYBOARD, LAST
  <2>2. QED
    BY <1>12, <1>13, <2>1 DEF Copied, m
<1>15. ~PastBuffer'
  BY <1>1 DEF PastBuffer
<1>16. Whole(Pending') /\ buffer' = buffer /\ bufferPos' \in 0 .. PAGE - 1 /\ receivedSize' \in 0 .. PAGE
  <2>1. CASE ~(L > PAGE)
    <3>1. ~PastBuffer /\ L <= receivedSize
      BY <1>1, <1>2, <1>4, <2>1 DEF Copying
    <3>2. x11Client_ackMessage(generic.size) /\ generic.size <= receivedSize
      BY <1>1, <1>8, <2>1, <3>1
    <3>3. QED
      BY <1>1, <1>2, <1>6, <1>15, <3>1, <3>2, AckKeeps
  <2>2. CASE L > PAGE
    <3>1. Taken = L
      BY <1>1, <1>4, <2>2 DEF Taken
    <3>2. buffer' = buffer /\ bufferPos' = (bufferPos + receivedSize) % PAGE /\ receivedSize' = 0
      BY <1>1, <1>3, <2>2 DEF x11Client_ackMessage
    <3>3. bufferPos' \in 0 .. PAGE - 1 /\ receivedSize' \in 0 .. PAGE
      BY <1>3, <3>2
    <3>4. Taken' = 0 /\ wire' = wire
      BY <1>1, <1>15, <3>2 DEF Taken
    <3> DEFINE W == Len(wire)
    <3>5. Pending' = [k \in 1 .. 0 + W |-> IF k <= 0 THEN buffer'[(bufferPos' + (k - 1)) % PAGE]
                                          ELSE IF k <= 0 THEN keyboardMap'[k]
                                          ELSE wire[k - 0]]
      BY <3>2, <3>4 DEF Pending
    <3>6. ASSUME NEW k \in 1 .. W PROVE Pending'[k] = wire[k] /\ Pending[k + L] = wire[k]
      <4>1. k \in 1 .. 0 + W /\ ~(k <= 0) /\ k - 0 = k
        BY <1>3
      <4>2. Pending'[k] = wire[k]
        BY <3>5, <4>1
      <4>3. k + L \in 1 .. L + W /\ ~(k + L <= receivedSize) /\ ~(k + L <= L) /\ (k + L) - L = k
        BY <1>3, <2>2
      <4>4. Pending[k + L] = wire[(k + L) - L]
        BY <3>1, <4>3 DEF Pending
      <4>5. QED
        BY <4>2, <4>3, <4>4
    <3>7. Pending' \in [1 .. W -> UnitSet]
      BY <1>3, <3>5, <3>6
    <3>8. Pending' \in Seq(UnitSet) /\ Len(Pending') = W
      BY <1>3, <3>7, Tabled
    <3>9. Len(Pending) > 0 /\ Len(Pending') = Len(Pending) - Pending[1][1].size
      BY <1>3, <1>7, <1>9, <3>1, <3>8
    <3>10. \A k \in 1 .. Len(Pending') : Pending'[k] = Pending[k + Pending[1][1].size]
      BY <1>9, <3>6, <3>8
    <3>11. Whole(Pending')
      BY <1>2, <3>8, <3>9, <3>10, WholeRest
    <3>12. QED
      BY <3>2, <3>3, <3>11
  <2>3. QED
    BY <2>1, <2>2
<1>17. StreamTypes'
  BY <1>1, <1>2, <1>13, <1>16 DEF StreamTypes
<1>18. QED
  BY <1>1, <1>14, <1>16, <1>17 DEF Streaming, Connecting

-----------------------------------------------------------------------------
(***************************************************************************)
(* The steps of the stream.                                                *)
(***************************************************************************)

\* A step that leaves the stream alone.
LEMMA StreamUnmoved ==
  ASSUME Streaming, UNCHANGED <<wire, bufferVars, nextSequenceNumber, keyboardMap, totalRead>>,
         pc = "x11_keyboard" <=> pc' = "x11_keyboard", pc' \in Connecting => pc \in Connecting
  PROVE  Streaming'
<1>1. UNCHANGED <<wire, buffer, bufferPos, receivedSize, nextSequenceNumber, keyboardMap, totalRead>>
  BY DEF bufferVars
<1>2. PastBuffer' = PastBuffer
  BY <1>1 DEF PastBuffer
<1>3. Taken' = Taken
  BY <1>1, <1>2 DEF Taken
<1>4. Pending' = Pending
  BY <1>1, <1>3 DEF Pending
<1>5. StreamTypes' = StreamTypes /\ generic' = generic
  BY <1>1 DEF StreamTypes, generic
<1>6. Copying => Copying'
  BY <1>1, <1>2, <1>5 DEF Copying
<1>7. Copied => Copied'
  BY <1>1 DEF Copied
<1>8. QED
  BY <1>1, <1>4, <1>5, <1>6, <1>7 DEF Streaming

\* A failing set up forgets what it had.
LEMMA SetupFailsStream ==
  ASSUME NEW here, SetupFails(here)
  PROVE  Streaming'
<1>1. /\ pc' = "gbm_card" /\ wire' = <<>> /\ receivedSize' = 0 /\ bufferPos' = 0
      /\ buffer' = [k \in 0 .. PAGE - 1 |-> NoUnit] /\ keyboardMap' = <<>> /\ totalRead' = 0
  BY DEF SetupFails, GivesBack
<1>2. PAGE \in Nat \ {0}
  BY PageFact
<1>3. StreamTypes'
  BY <1>1, <1>2 DEF StreamTypes
<1>4. ~PastBuffer'
  BY <1>1 DEF PastBuffer
<1>5. Taken' = 0 /\ Len(wire') = 0
  BY <1>1, <1>4 DEF Taken
<1>6. Pending' \in [1 .. 0 -> UnitSet]
  <2>1. DOMAIN Pending' = 1 .. 0 + 0 /\ Pending' = [k \in 1 .. 0 + 0 |-> Pending'[k]]
    BY <1>5 DEF Pending
  <2>2. \A k \in 1 .. 0 + 0 : FALSE
    OBVIOUS
  <2>3. QED
    BY <2>1, <2>2
<1>7. Pending' \in Seq(UnitSet) /\ Len(Pending') = 0
  BY <1>6, Tabled
<1>8. Whole(Pending')
  BY <1>7 DEF Whole
<1>9. QED
  BY <1>1, <1>3, <1>8 DEF Streaming, Copied, Connecting

\* Nothing was sent.
LEMMA InitStream == Init => Streaming
<1> SUFFICES ASSUME Init PROVE Streaming
  OBVIOUS
<1>1. /\ pc = "start" /\ wire = <<>> /\ receivedSize = 0 /\ bufferPos = 0
      /\ buffer = [k \in 0 .. PAGE - 1 |-> NoUnit] /\ keyboardMap = <<>> /\ totalRead = 0
  BY DEF Init, X11Init
<1>2. PAGE \in Nat \ {0}
  BY PageFact
<1>3. StreamTypes
  BY <1>1, <1>2 DEF StreamTypes
<1>4. ~PastBuffer
  BY <1>1 DEF PastBuffer
<1>5. Taken = 0 /\ Len(wire) = 0
  BY <1>1, <1>4 DEF Taken
<1>6. Pending \in [1 .. 0 -> UnitSet]
  <2>1. DOMAIN Pending = 1 .. 0 + 0 /\ Pending = [k \in 1 .. 0 + 0 |-> Pending[k]]
    BY <1>5 DEF Pending
  <2>2. \A k \in 1 .. 0 + 0 : FALSE
    OBVIOUS
  <2>3. QED
    BY <2>1, <2>2
<1>7. Pending \in Seq(UnitSet) /\ Len(Pending) = 0
  BY <1>6, Tabled
<1>8. Whole(Pending)
  BY <1>7 DEF Whole
<1>9. QED
  BY <1>1, <1>3, <1>8 DEF Streaming, Copied, Connecting

\* A receive into the buffer.
LEMMA ReceiveStream ==
  ASSUME Streaming, NEW next, x11Client_receive(next), next \notin Connecting,
         pc # "x11_keyboard", next # "x11_keyboard"
  PROVE  Streaming'
<1>1. pc' = next /\ UNCHANGED <<nextSequenceNumber, keyboardMap>>
  BY DEF x11Client_receive
<1>2. ~PastBuffer /\ ~PastBuffer'
  BY <1>1 DEF PastBuffer
<1>3. StreamTypes' /\ Pending' = Pending
  BY <1>2, ReceiveKeeps DEF Streaming
<1>4. Copied'
  BY <1>1 DEF Streaming, Copied
<1>5. Whole(Pending')
  BY <1>3 DEF Streaming
<1>6. QED
  BY <1>1, <1>3, <1>4, <1>5 DEF Streaming

\* A message that was handled is left behind.
LEMMA AckStream ==
  ASSUME Streaming, x11Client_nextMessage > 0, x11Client_ackMessage(x11Client_nextMessage),
         UNCHANGED <<wire, keyboardMap, totalRead>>, pc # "x11_keyboard", pc' # "x11_keyboard",
         pc' \notin Connecting, keyboardMap # <<>> => UNCHANGED nextSequenceNumber
  PROVE  Streaming'
<1>1. ~PastBuffer /\ ~PastBuffer' /\ StreamTypes /\ Whole(Pending)
  BY DEF PastBuffer, Streaming
<1>2. /\ receivedSize >= 2 /\ x11Client_nextMessage = generic.size /\ generic.size <= receivedSize
  BY <1>1, NextMessageSays
<1>3. receivedSize > 0
  BY <1>1, <1>2, PageFact DEF StreamTypes
<1>4. /\ Whole(Pending') /\ buffer' = buffer
      /\ bufferPos' \in 0 .. PAGE - 1 /\ receivedSize' \in 0 .. PAGE
  BY <1>1, <1>2, <1>3, AckKeeps
<1>5. StreamTypes'
  BY <1>1, <1>4 DEF StreamTypes
<1>6. Copied'
  BY DEF Streaming, Copied
<1>7. QED
  BY <1>4, <1>5, <1>6 DEF Streaming

\* The server sends whole messages.
LEMMA SentStream ==
  ASSUME Streaming, UNCHANGED <<bufferVars, keyboardMap, totalRead>>, NEW t, Whole(t), wire' = wire \o t,
         pc # "x11_keyboard", pc' # "x11_keyboard", pc' \notin Connecting,
         keyboardMap # <<>> => UNCHANGED nextSequenceNumber
  PROVE  Streaming'
<1>1. ~PastBuffer /\ ~PastBuffer' /\ StreamTypes /\ Whole(Pending)
  BY DEF PastBuffer, Streaming
<1>2. StreamTypes' /\ Whole(Pending')
  BY <1>1, SentKeeps
<1>3. Copied'
  BY DEF Streaming, Copied
<1>4. QED
  BY <1>2, <1>3 DEF Streaming

\* The set up of the window.
LEMMA SetupStream ==
  ASSUME Streaming, Places, SendSetup \/ SetupReceive \/ SetupMessage
  PROVE  Streaming'
<1>1. CASE SendSetup
  <2>1. /\ pc = "x11_setup" /\ pc' = "x11_wait" /\ wire = <<>> /\ keyboardMap = <<>>
        /\ UNCHANGED <<bufferVars, keyboardMap, totalRead>>
    BY <1>1 DEF SendSetup, Streaming, Connecting
  <2>2. PICK keyboard \in KeyboardSizes, at \in 2 .. LAST, what \in {"none", "event", "error", "absent"} :
          wire' = Answers(keyboard, at, what)
    BY <1>1 DEF SendSetup
  <2>3. Whole(wire')
    BY <2>2, AnswersWhole
  <2>4. wire' = wire \o wire'
    BY <2>1, <2>3 DEF Whole
  <2>5. pc' \notin Connecting
    BY <2>1 DEF Connecting
  <2>6. QED
    BY <2>1, <2>3, <2>4, <2>5, SentStream
<1>2. CASE SetupReceive
  <2>1. pc = "x11_wait" /\ x11Client_receive("x11_wait") /\ "x11_wait" \notin Connecting
    BY <1>2 DEF SetupReceive, Connecting
  <2>2. QED
    BY <2>1, ReceiveStream
<1>3. CASE SetupMessage
  <2>1. pc = "x11_wait" /\ pc' \in {"x11_wait", "surface"}
    BY <1>3 DEF SetupMessage, Accepted
  <2>2. x11Client_ackMessage(x11Client_nextMessage) /\ UNCHANGED <<wire, keyboardMap, totalRead>>
    BY <1>3 DEF SetupMessage
  <2>3. x11Client_nextMessage > 0
    <3>1. x11Client_nextMessage \in Int
      BY <2>1, NextMessageSays DEF Streaming, PastBuffer
    <3>2. x11Client_nextMessage > 0 \/ (x11Client_nextMessage # 0 /\ ~(x11Client_nextMessage < 0))
      BY <1>3 DEF SetupMessage, Accepted, KEYBOARD, LAST
    <3>3. QED
      BY <3>1, <3>2
  <2>4. keyboardMap # <<>> => UNCHANGED nextSequenceNumber
    BY <1>3, <2>1 DEF SetupMessage, Streaming, Copied
  <2>5. pc' \notin Connecting
    BY <2>1 DEF Connecting
  <2>6. QED
    BY <2>1, <2>2, <2>3, <2>4, <2>5, AckStream
<1>4. QED
  BY <1>1, <1>2, <1>3

\* All of window_x11_init.
LEMMA X11InitStream ==
  ASSUME Streaming, Places, window_x11_init
  PROVE  Streaming'
<1>1. ASSUME UNCHANGED x11Vars, pc \in Connecting, pc' \in Connecting \cup {"gbm_card"}
      PROVE  Streaming'
  <2>1. pc # "x11_keyboard" /\ pc' # "x11_keyboard"
    BY <1>1 DEF Connecting
  <2>2. QED
    BY <1>1, <2>1, StreamUnmoved DEF x11Vars, bufferVars
<1>2. CASE egl_createContext("x11_display", "x11_context", "x11_auth", <<>>, "gbm_card") /\ UNCHANGED x11Vars
  BY <1>1, <1>2 DEF egl_createContext, Attempt, Gets, GivesBack, Connecting
<1>3. CASE (xauth_init \/ GivesBack("x11_authDone", xauth_deinit, "x11_setup")) /\ UNCHANGED x11Vars
  BY <1>1, <1>3 DEF xauth_init, Gets, GivesBack, Connecting
<1>4. CASE x11Client_init("x11_authDone", xauth_deinit \o egl_destroyContext, "gbm_card") /\ UNCHANGED x11Vars
  BY <1>1, <1>4 DEF x11Client_init, Attempt, Gets, GivesBack, Connecting
<1>5. CASE SetupFails("x11_setup") \/ SetupReceiveFails \/ SetupRefuses \/ MapKeyboardFails \/ ReadKeyboardFails
  BY <1>5, SetupFailsStream DEF SetupReceiveFails, SetupRefuses, MapKeyboardFails, ReadKeyboardFails
<1>6. QED
  BY <1>2, <1>3, <1>4, <1>5, SetupStream, MapKeeps, ReadKeeps, CopyKeeps DEF window_x11_init

\* All of window_x11_run.
LEMMA X11RunStream ==
  ASSUME Streaming, window_x11_run
  PROVE  Streaming'
<1>1. pc \in X11Running /\ pc' \in X11Running \cup {"done", "cleanup_game"}
  BY X11RunPlaces
<1>2. pc # "x11_keyboard" /\ pc' # "x11_keyboard" /\ pc' \notin Connecting
  BY <1>1 DEF X11Running, Connecting
<1>3. CASE PollReads
  <2>1. x11Client_receive("x11_message") /\ "x11_message" \notin Connecting
    BY <1>3 DEF PollReads, Connecting
  <2>2. QED
    BY <1>2, <2>1, ReceiveStream
<1>4. CASE RunMessage
  BY <1>2, <1>4, AckStream DEF RunMessage
<1>5. CASE RunStart
  BY <1>2, <1>5, StreamUnmoved DEF RunStart
<1>6. CASE UNCHANGED x11Vars
  BY <1>2, <1>6, StreamUnmoved DEF x11Vars, bufferVars
<1>7. PollDraws \/ RunDraw \/ PollEnds \/ RunSendFails \/ RunEnds \/ MessagesDone => UNCHANGED x11Vars
  BY DEF PollDraws, RunDraw, PollEnds, RunSendFails, RunEnds, MessagesDone
<1>8. QED
  BY <1>3, <1>4, <1>5, <1>6, <1>7 DEF window_x11_run

\* The server and the user.
LEMMA ServerStream ==
  ASSUME Streaming, ServerStep \/ Input
  PROVE  Streaming'
<1>1. pc \in {"x11_poll", "x11_draw", "x11_message"} /\ UNCHANGED <<pc, bufferVars, keyboardMap, totalRead, nextSequenceNumber>>
  BY DEF ServerStep, Input, Running, eglVars
<1>2. pc # "x11_keyboard" /\ pc' # "x11_keyboard" /\ pc' \notin Connecting
  BY <1>1 DEF Connecting
<1>3. ASSUME NEW type \in Types, NEW size \in Nat, size >= 2, type \in {"reply", "motion"} \/ size = 2
      PROVE  Whole(Units(Message(type, 0, size)))
  <2>1. Message(type, 0, size) \in Messages
    BY <1>3 DEF Message, Messages, HEADER
  <2>2. QED
    BY <2>1, WholeUnits
<1>4. \E t : Whole(t) /\ wire' = wire \o t
  <2>1. CASE ServerStep
    <3>1. Whole(Units(Message("reply", 0, HEADER))) /\ Whole(Units(Message("configure", 0, HEADER)))
          /\ Whole(Units(Message("error", 0, HEADER)))
      BY <1>3 DEF Types, HEADER
    <3>2. Whole(Answer(Head(requests)))
      BY <3>1, WholeNothing DEF Answer
    <3>3. wire' = wire \o Answer(Head(requests)) \/ wire' = wire \o Units(Message("error", 0, HEADER))
      BY <2>1 DEF ServerStep
    <3>4. QED
      BY <3>1, <3>2, <3>3
  <2>2. CASE Input
    <3>1. PICK m \in InputEvents : wire' = wire \o Units(m)
      BY <2>2 DEF Input
    <3>2. Whole(Units(m))
      <4>1. CASE m = Message("motion", 0, HEADER + 1)
        BY <1>3, <4>1 DEF Types, HEADER
      <4>2. CASE \E type \in {"button", "escape", "focusOut", "f11", "key", "delete"} : m = Message(type, 0, HEADER)
        BY <1>3, <4>2 DEF Types, HEADER
      <4>3. QED
        BY <4>1, <4>2 DEF InputEvents
    <3>3. QED
      BY <3>1, <3>2
  <2>3. QED
    BY <2>1, <2>2
<1>5. QED
  BY <1>1, <1>2, <1>4, SentStream

\* The steps that have nothing to do with the connection.
LEMMA ElsewhereStream ==
  ASSUME Streaming, UNCHANGED x11Vars,
         \/ egl_init("start", "x11_display", "failed")
         \/ window_gbm_init \/ SurfaceStep \/ Started \/ window_gbm_run \/ Cleanup
         \/ gl_init("game_shaders", "cleanup_eglSurface")
         \/ game_init("run", "cleanup_eglSurface")
  PROVE  Streaming'
<1> DEFINE Elsewhere == GbmStarting \cup Starting \cup GbmRunning \cup Ends \cup {"gbm_card", "gbm_connector", "surface"}
<1>1. ASSUME \/ pc \in Elsewhere /\ pc' \in Elsewhere \cup {"x11_run"}
             \/ UNCHANGED pc
             \/ pc = "start" /\ pc' \in {"x11_display", "failed"}
      PROVE  Streaming'
  <2>1. Elsewhere \cap (Connecting \cup {"x11_keyboard"}) = {}
    BY DEF GbmStarting, Starting, GbmRunning, Ends, Connecting
  <2> HIDE DEF Elsewhere
  <2>2. pc = "x11_keyboard" <=> pc' = "x11_keyboard"
    BY <1>1, <2>1
  <2>3. pc' \in Connecting => pc \in Connecting
    BY <1>1, <2>1 DEF Connecting
  <2>4. QED
    BY <2>2, <2>3, StreamUnmoved DEF x11Vars, bufferVars
<1>2. CASE egl_init("start", "x11_display", "failed")
  BY <1>1, <1>2 DEF egl_init, Attempt, Gets, GivesBack
<1>3. CASE window_gbm_init
  <2>1. CASE drm_init("gbm_library", "cleanup_egl") \/ gbm_init("gbm_display", "cleanup_egl")
    BY <1>1, <2>1 DEF drm_init, gbm_init, Attempt, Gets, GivesBack, GbmStarting, Ends
  <2>2. CASE egl_createContext("gbm_display", "gbm_context", "gbm_surface", gbm_deinit \o drm_deinit, "cleanup_egl")
    BY <1>1, <2>2 DEF egl_createContext, Attempt, Gets, GivesBack, GbmStarting, Ends
  <2>3. CASE Attempt("gbm_surface", {"gbmSurface"}, "surface",
                     egl_destroyContext \o gbm_deinit \o drm_deinit, "cleanup_egl")
    BY <1>1, <2>3 DEF Attempt, Gets, GivesBack, GbmStarting, Ends
  <2>4. QED
    BY <1>3, <2>1, <2>2, <2>3 DEF window_gbm_init
<1>4. CASE SurfaceStep \/ Started
  BY <1>1, <1>4 DEF SurfaceStep, Started, egl_createSurface, Attempt, Gets, GivesBack, Starting, GbmRunning, Ends
<1>5. CASE gl_init("game_shaders", "cleanup_eglSurface") \/ game_init("run", "cleanup_eglSurface")
  <2>1. pc \in Starting /\ pc' \in Starting \cup {"cleanup_eglSurface"}
    BY <1>5 DEF gl_init, game_init, shaders_init, vertexArrays_init, Attempt, Gets, GivesBack, Starting
  <2>2. QED
    BY <1>1, <2>1 DEF Ends
<1>6. CASE Cleanup
  <2>1. pc \in Ends /\ pc' \in Ends
    BY <1>6 DEF Cleanup, GivesBack, Ends
  <2>2. QED
    BY <1>1, <2>1
<1>7. CASE window_gbm_run
  <2>1. \/ pc \in GbmRunning /\ pc' \in GbmRunning \cup {"cleanup_game"}
        \/ UNCHANGED pc
    <3>1. CASE Swap("gbm_run", "gbm_lockFirst") \/ Swap("gbm_draw", "gbm_lock") \/ LockFirst \/ LockNext
      BY <3>1 DEF Swap, LockFirst, LockNext, Gets, GbmRunning
    <3>2. CASE setCrtc \/ drm_pageFlip \/ drm_awaitPageFlipEvent \/ ReleaseBuffer
      BY <3>2 DEF setCrtc, drm_pageFlip, drm_awaitPageFlipEvent, ReleaseBuffer, Gets, GbmRunning
    <3>3. CASE getFbId("gbm_fbFirst", bo, "gbm_crtc") \/ getFbId("gbm_fb", nextBo, "gbm_flip")
      BY <3>3 DEF getFbId, Gets, GbmRunning
    <3>4. CASE FlipDone
      BY <3>4 DEF FlipDone, eglVars
    <3>5. ASSUME NEW here \in GbmRunning, GbmFails(here) PROVE pc = here /\ pc' = "cleanup_game"
      BY <3>5 DEF GbmFails, GivesBack
    <3>6. QED
      BY <1>7, <3>1, <3>2, <3>3, <3>4, <3>5 DEF window_gbm_run, GbmRunning
  <2>2. QED
    BY <1>1, <2>1 DEF Ends
<1>8. QED
  BY <1>2, <1>3, <1>4, <1>5, <1>6, <1>7

\* Every step keeps the stream.
LEMMA NextStream == Streaming /\ Places /\ [Next]_vars => Streaming'
<1> SUFFICES ASSUME Streaming, Places, [Next]_vars PROVE Streaming'
  OBVIOUS
<1>1. CASE window_x11_init
  BY <1>1, X11InitStream
<1>2. CASE window_x11_run
  BY <1>2, X11RunStream
<1>3. CASE Server
  BY <1>3, ServerStream DEF Server
<1>4. CASE UNCHANGED vars
  <2>1. UNCHANGED <<pc, wire, bufferVars, nextSequenceNumber, keyboardMap, totalRead>>
    BY <1>4 DEF vars, eglVars, x11Vars, bufferVars
  <2>2. QED
    BY <2>1, StreamUnmoved
<1>5. CASE window_start /\ ~window_x11_init /\ ~window_x11_run
  <2>1. UNCHANGED x11Vars
    BY <1>5 DEF window_start, Plain, SurfaceStep, Started
  <2>2. QED
    BY <1>5, <2>1, ElsewhereStream DEF window_start
<1>6. QED
  BY <1>1, <1>2, <1>3, <1>4, <1>5 DEF Next, Ended

\* What the buffer holds follows what was handled.
LEMMA StreamingIntact == Streaming => StreamIntact
<1> SUFFICES ASSUME Streaming PROVE StreamIntact
  OBVIOUS
<1> DEFINE At(k) == buffer[(bufferPos + k) % PAGE]
           rs == receivedSize
<1>1. /\ StreamTypes /\ Whole(Pending) /\ PAGE \in Nat \ {0} /\ rs \in 0 .. PAGE /\ rs \in Nat
      /\ Len(wire) \in Nat /\ wire \in Seq(UnitSet)
  BY PageFact DEF Streaming, StreamTypes
<1>2. Taken \in Nat /\ rs <= Taken
  <2>1. CASE PastBuffer
    <3>1. Copying
      BY <2>1 DEF PastBuffer, Streaming
    <3>2. QED
      BY <1>1, <2>1, <3>1 DEF Copying, Taken, StreamTypes
  <2>2. CASE ~PastBuffer
    BY <1>1, <2>2 DEF Taken
  <2>3. QED
    BY <2>1, <2>2
<1>3. Len(Pending) = Taken + Len(wire)
  <2>1. DOMAIN Pending = 1 .. Taken + Len(wire) /\ Pending \in Seq(UnitSet)
    BY <1>1 DEF Pending, Whole
  <2>2. QED
    BY <1>1, <1>2, <2>1
<1>4. ASSUME NEW k \in 1 .. rs PROVE Pending[k] = At(k - 1) /\ k <= Len(Pending)
  <2>1. k \in 1 .. Taken + Len(wire) /\ k <= rs
    BY <1>1, <1>2
  <2>2. Pending[k] = buffer[(bufferPos + (k - 1)) % PAGE]
    BY <2>1 DEF Pending
  <2>3. QED
    BY <1>3, <2>1, <2>2
<1>5. rs > 0 => At(0)[2] = 0
  <2>1. SUFFICES ASSUME rs > 0 PROVE At(0)[2] = 0
    OBVIOUS
  <2>2. 1 \in 1 .. rs /\ 1 - 1 = 0
    BY <1>1, <2>1
  <2>3. Pending[1] = At(1 - 1) /\ 1 <= Len(Pending)
    BY <1>4, <2>2
  <2>4. Pending[1][2] = 0
    BY <1>1, <1>2, <1>3, <2>3 DEF Whole
  <2>5. QED
    BY <2>2, <2>3, <2>4
<1>6. ASSUME NEW k \in 0 .. rs - 2 PROVE Follows(At(k), At(k + 1))
  <2>1. k + 1 \in 1 .. rs /\ (k + 1) + 1 \in 1 .. rs /\ (k + 1) - 1 = k /\ ((k + 1) + 1) - 1 = k + 1
    BY <1>1
  <2>2. Pending[k + 1] = At((k + 1) - 1) /\ Pending[(k + 1) + 1] = At(((k + 1) + 1) - 1)
        /\ (k + 1) + 1 <= Len(Pending)
    BY <1>4, <2>1
  <2>3. k + 1 \in 1 .. Len(Pending) - 1
    BY <1>1, <1>2, <1>3, <2>1, <2>2
  <2>4. Follows(Pending[k + 1], Pending[(k + 1) + 1])
    BY <1>1, <2>3 DEF Whole
  <2>5. QED
    BY <2>1, <2>2, <2>4
<1>7. ASSUME rs > 0, wire # <<>>, pc # "x11_keyboard" PROVE Follows(At(rs - 1), wire[1])
  <2>1. ~PastBuffer
    BY <1>7 DEF PastBuffer
  <2>2. Len(wire) > 0
    BY <1>1, <1>7, EmptySeq
  <2>3. Taken = rs
    BY <2>1 DEF Taken
  <2>4. rs + 1 \in rs + 1 .. rs + Len(wire) /\ (rs + 1) - rs = 1 /\ rs \in 1 .. rs /\ rs \in 1 .. Len(Pending) - 1
    BY <1>1, <1>3, <1>7, <2>2, <2>3
  <2>5. Pending[rs + 1] = wire[(rs + 1) - rs]
    BY <1>1, <2>1, <2>4, PendingPlaces
  <2>6. Pending[rs] = At(rs - 1)
    BY <1>4, <2>4
  <2>7. Follows(Pending[rs], Pending[rs + 1])
    BY <1>1, <2>4 DEF Whole
  <2>8. QED
    BY <2>4, <2>5, <2>6, <2>7
<1>8. pc \in {"surface", "x11_run", "x11_poll"} /\ keyboardMap # <<>> =>
        /\ nextSequenceNumber = LAST
        /\ keyboardMap = Units(Message("reply", KEYBOARD, Len(keyboardMap)))
  BY DEF Streaming, Copied
<1>9. QED
  BY <1>1, <1>5, <1>6, <1>7, <1>8, Zenon DEF StreamIntact

\* However the server's bytes are cut and wherever the circular buffer wraps: what x11Client_receive
\* has in its buffer are the units of the messages in their order, none lost or torn, also after a
\* reply larger than the buffer, and the keyboard map is the reply, whole (x11Client.c, window_x11.c).
THEOREM StreamStaysIntact == Spec => []StreamIntact
<1>1. Init => WindowInv /\ Streaming
  BY InitHoldings, InitBuffers, InitStream DEF WindowInv
<1>2. WindowInv /\ Streaming /\ [Next]_vars => WindowInv' /\ Streaming'
  BY NextWindowInv, NextStream DEF WindowInv
<1>3. QED
  BY <1>1, <1>2, StreamingIntact, PTL DEF Spec
=============================================================================
