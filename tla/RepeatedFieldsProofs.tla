------------------------ MODULE RepeatedFieldsProofs -------------------------
(***************************************************************************)
(* Proofs about the repeated fields of FieldContainers.  Insert, delete    *)
(* and the two operations on slices are loops, which the model writes as   *)
(* recursive functions.  A loop over 0 .. n is followed by UpTo; that its  *)
(* function exists, by writing it down (Slid, Moved) or by Chain.          *)
(***************************************************************************)
EXTENDS FieldContainersProofs, FiniteSetTheorems

(* Induction over an interval, with the least index that is not in S.      *)
LEMMA UpTo ==
  ASSUME NEW n \in Nat, NEW S, 0 \in S, \A i \in 1 .. n : i - 1 \in S => i \in S
  PROVE  \A i \in 0 .. n : i \in S
<1> DEFINE bad == {i \in 0 .. n : i \notin S}
<1>1. SUFFICES ASSUME bad # {} PROVE FALSE
  OBVIOUS
<1>2. \E i \in bad : \A j \in bad : i <= j
  <2>1. bad \in SUBSET Nat
    OBVIOUS
  <2> HIDE DEF bad
  <2> QED
    BY <1>1, <2>1, FirstExists
<1>3. PICK i \in bad : \A j \in bad : i <= j
  BY <1>2
<1>4. i \in 1 .. n /\ i \notin S
  BY <1>3
<1>5. i - 1 \in 0 .. n /\ i - 1 \notin bad
  BY <1>3, <1>4
<1> QED
  BY <1>4, <1>5

(* What one turn of a loop after the other makes of base.                  *)
IsChain(h, n, base, turn) ==
  h[0] = base /\ \A i \in 1 .. n : h[i] = turn[i][h[i - 1]]

LEMMA Chain ==
  ASSUME NEW X, NEW base \in X, NEW n \in Nat, NEW turn \in [1 .. n -> [X -> X]]
  PROVE  \E h \in [0 .. n -> X] : IsChain(h, n, base, turn)
<1> DEFINE S == {k \in 0 .. n : \E h \in [0 .. k -> X] : IsChain(h, k, base, turn)}
<1>1. 0 \in S
  <2>1. [k \in 0 .. 0 |-> base] \in [0 .. 0 -> X]
    OBVIOUS
  <2>2. IsChain([k \in 0 .. 0 |-> base], 0, base, turn)
    BY DEF IsChain
  <2> QED
    BY <2>1, <2>2
<1>2. ASSUME NEW k \in 1 .. n, k - 1 \in S PROVE k \in S
  <2>1. PICK h \in [0 .. k - 1 -> X] : IsChain(h, k - 1, base, turn)
    BY <1>2
  <2> DEFINE g == [i \in 0 .. k |-> IF i = k THEN turn[k][h[k - 1]] ELSE h[i]]
  <2>2. k - 1 \in 0 .. k - 1 /\ turn[k] \in [X -> X]
    BY <1>2
  <2>3. turn[k][h[k - 1]] \in X
    BY <2>1, <2>2
  <2>4. g \in [0 .. k -> X]
    BY <2>1, <2>3
  <2>5. g[0] = base
    BY <2>1 DEF IsChain
  <2>6. ASSUME NEW i \in 1 .. k PROVE g[i] = turn[i][g[i - 1]]
    <3>1. i - 1 \in 0 .. k - 1 /\ g[i - 1] = h[i - 1]
      OBVIOUS
    <3>2. CASE i = k
      BY <3>1, <3>2
    <3>3. CASE i # k
      <4>1. i \in 1 .. k - 1
        BY <3>3
      <4>2. h[i] = turn[i][h[i - 1]]
        BY <2>1, <4>1 DEF IsChain
      <4> QED
        BY <3>1, <3>3, <4>2
    <3> QED
      BY <3>2, <3>3
  <2> HIDE DEF g
  <2>7. IsChain(g, k, base, turn)
    BY <2>5, <2>6 DEF IsChain
  <2> QED
    BY <2>4, <2>7
<1> HIDE DEF S
<1>3. n \in S
  <2>1. n \in 0 .. n
    OBVIOUS
  <2> QED
    BY <1>1, <1>2, <2>1, UpTo
<1> QED
  BY <1>3 DEF S

-----------------------------------------------------------------------------
(* Insert.  Slid: s with x after its first dst elements.                   *)
Slid(s, x, dst) ==
  [q \in 1 .. Len(s) + 1 |-> IF q <= dst THEN s[q] ELSE IF q = dst + 1 THEN x ELSE s[q - 1]]

LEMMA SlidTyped ==
  ASSUME NEW X, NEW s \in Seq(X), NEW x \in X, NEW dst \in 0 .. Len(s)
  PROVE  /\ Slid(s, x, dst) \in Seq(X)
         /\ Len(Slid(s, x, dst)) = Len(s) + 1
<1> DEFINE n == Len(s)
<1>1. n \in Nat /\ \A i \in 1 .. n : s[i] \in X
  BY LenProperties, ElementOfSeq
<1>2. ASSUME NEW q \in 1 .. n + 1
      PROVE  (IF q <= dst THEN s[q] ELSE IF q = dst + 1 THEN x ELSE s[q - 1]) \in X
  <2> HIDE DEF n
  <2>1. q <= dst => q \in 1 .. n
    BY <1>1 DEF n
  <2>2. ~(q <= dst) /\ q # dst + 1 => q - 1 \in 1 .. n
    BY <1>1 DEF n
  <2> QED
    BY <1>1, <2>1, <2>2
<1> HIDE DEF n
<1>3. Slid(s, x, dst) = [q \in 1 .. n + 1 |->
                          IF q <= dst THEN s[q] ELSE IF q = dst + 1 THEN x ELSE s[q - 1]]
  BY DEF Slid, n
<1>4. Slid(s, x, dst) \in [1 .. n + 1 -> X]
  BY <1>2, <1>3
<1>5. n + 1 \in Nat
  BY <1>1
<1> QED
  BY <1>4, <1>5, LenProperties DEF n

LEMMA SwapSlides ==
  ASSUME NEW X, NEW s \in Seq(X), NEW x \in X, NEW dst \in 0 .. Len(s) - 1
  PROVE  SwapElements(Slid(s, x, dst + 1), dst + 1, dst) = Slid(s, x, dst)
<1> DEFINE n == Len(s)
           t == Slid(s, x, dst + 1)
<1>1. n \in Nat /\ dst \in 0 .. n - 1
  BY LenProperties
<1> HIDE DEF n
<1>2. t = [q \in 1 .. n + 1 |->
             IF q <= dst + 1 THEN s[q] ELSE IF q = dst + 2 THEN x ELSE s[q - 1]]
  BY <1>1 DEF Slid, n
<1>3. t[dst + 2] = x /\ t[dst + 1] = s[dst + 1]
  BY <1>1, <1>2
<1>4. SwapElements(t, dst + 1, dst) = [t EXCEPT ![dst + 2] = s[dst + 1], ![dst + 1] = x]
  BY <1>1, <1>3 DEF SwapElements
<1>5. Slid(s, x, dst) = [q \in 1 .. n + 1 |->
                          IF q <= dst THEN s[q] ELSE IF q = dst + 1 THEN x ELSE s[q - 1]]
  BY DEF Slid, n
<1> HIDE DEF t
<1>6. [t EXCEPT ![dst + 2] = s[dst + 1], ![dst + 1] = x]
        = [q \in 1 .. n + 1 |-> IF q = dst + 1 THEN x ELSE IF q = dst + 2 THEN s[dst + 1] ELSE t[q]]
  BY <1>1, <1>2
<1>7. ASSUME NEW q \in 1 .. n + 1
      PROVE  (IF q = dst + 1 THEN x ELSE IF q = dst + 2 THEN s[dst + 1] ELSE t[q])
              = (IF q <= dst THEN s[q] ELSE IF q = dst + 1 THEN x ELSE s[q - 1])
  BY <1>1, <1>2
<1> QED
  BY <1>4, <1>5, <1>6, <1>7 DEF t

LEMMA AppendIsSlid ==
  ASSUME NEW X, NEW s \in Seq(X), NEW x \in X
  PROVE  Append(s, x) = Slid(s, x, Len(s))
<1> DEFINE n == Len(s)
<1>1. n \in Nat /\ DOMAIN s = 1 .. n
  BY LenProperties
<1>2. /\ DOMAIN Append(s, x) = 1 .. n + 1
      /\ \A q \in 1 .. n + 1 : Append(s, x)[q] = IF q <= n THEN s[q] ELSE x
  BY <1>1
<1>3. Append(s, x) = [q \in 1 .. n + 1 |-> Append(s, x)[q]]
  <2>1. Append(s, x) \in Seq(X)
    OBVIOUS
  <2>2. Append(s, x) \in [1 .. Len(Append(s, x)) -> X]
    BY <2>1, LenProperties
  <2> QED
    BY <1>2, <2>2
<1> HIDE DEF n
<1>4. \A q \in 1 .. n + 1 : (IF q <= n THEN s[q] ELSE x)
         = (IF q <= n THEN s[q] ELSE IF q = n + 1 THEN x ELSE s[q - 1])
  BY <1>1
<1> QED
  BY <1>2, <1>3, <1>4 DEF Slid, n

LEMMA ClampInRange ==
  ASSUME NEW i \in Int, NEW n \in Nat PROVE ClampIndex(i, n) \in 0 .. n
<1>1. FromEnd(i, n) \in Int
  BY DEF FromEnd
<1> QED
  BY <1>1 DEF ClampIndex

(* What insert makes of a repeated field.                                  *)
LEMMA InsertIs ==
  ASSUME NEW f \in Repeated, NEW s \in Seq(Contents), NEW i \in Int, NEW v \in PyValues,
         NewElement(f, v) # Refused
  PROVE  InsertInto(f, s, i, v) = Done(Slid(s, NewElement(f, v), ClampIndex(i, Len(s))))
<1> DEFINE n == Len(s)
           x == NewElement(f, v)
           slid[dst \in 0 .. n] == IF dst = n THEN AppendTo(f, s, v).to
                                   ELSE SwapElements(slid[dst + 1], dst + 1, dst)
           Loop(g) == g = [dst \in 0 .. n |-> IF dst = n THEN AppendTo(f, s, v).to
                                              ELSE SwapElements(g[dst + 1], dst + 1, dst)]
           closed == [dst \in 0 .. n |-> Slid(s, x, dst)]
<1>1. x \in Contents /\ n \in Nat
  BY LenProperties, FieldAssumption DEF NewElement, Cast, Fields
<1>2. AppendTo(f, s, v) = Done(Append(s, x))
  BY DEF AppendTo
<1>3. InsertInto(f, s, i, v) = Done(slid[ClampIndex(i, n)])
  BY <1>2 DEF InsertInto, Done
<1>4. slid = CHOOSE g : Loop(g)
  OBVIOUS
<1> HIDE DEF slid, x, n
<1>5. AppendTo(f, s, v).to = Slid(s, x, n)
  BY <1>1, <1>2, AppendIsSlid DEF Done, n
<1>6. \A dst \in 0 .. n - 1 : SwapElements(Slid(s, x, dst + 1), dst + 1, dst) = Slid(s, x, dst)
  BY <1>1, SwapSlides DEF n
<1>7. Loop(closed)
  <2>1. ASSUME NEW dst \in 0 .. n
        PROVE  closed[dst] = IF dst = n THEN AppendTo(f, s, v).to
                             ELSE SwapElements(closed[dst + 1], dst + 1, dst)
    <3>1. CASE dst = n
      BY <1>5, <3>1
    <3>2. CASE dst # n
      <4>1. dst \in 0 .. n - 1 /\ dst + 1 \in 0 .. n
        BY <1>1, <3>2
      <4> QED
        BY <1>6, <3>2, <4>1
    <3> QED
      BY <3>1, <3>2
  <2> HIDE DEF closed
  <2>2. closed = [dst \in 0 .. n |-> closed[dst]]
    BY DEF closed
  <2> QED
    BY <2>1, <2>2
<1>8. Loop(slid)
  <2> HIDE DEF Loop
  <2> QED
    BY <1>4, <1>7
<1>9. \A k \in 0 .. n : slid[n - k] = Slid(s, x, n - k)
  <2> DEFINE S == {k \in 0 .. n : slid[n - k] = Slid(s, x, n - k)}
  <2>1. 0 \in S
    <3>1. slid[n] = Slid(s, x, n)
      BY <1>1, <1>5, <1>8
    <3> QED
      BY <1>1, <3>1
  <2>2. ASSUME NEW k \in 1 .. n, k - 1 \in S PROVE k \in S
    <3> DEFINE d == n - k
    <3>1. d \in 0 .. n - 1 /\ n - (k - 1) = d + 1 /\ k \in 0 .. n
      BY <1>1
    <3>2. slid[d + 1] = Slid(s, x, d + 1)
      BY <2>2, <3>1
    <3>3. slid[d] = SwapElements(slid[d + 1], d + 1, d)
      BY <1>1, <1>8, <3>1
    <3>4. slid[d] = Slid(s, x, d)
      BY <1>6, <3>1, <3>2, <3>3
    <3> QED
      BY <3>1, <3>4
  <2> HIDE DEF S
  <2>3. \A k \in 0 .. n : k \in S
    BY <1>1, <2>1, <2>2, UpTo
  <2> QED
    BY <2>3 DEF S
<1>10. \A dst \in 0 .. n : slid[dst] = Slid(s, x, dst)
  <2> TAKE dst \in 0 .. n
  <2>1. n - dst \in 0 .. n /\ n - (n - dst) = dst
    BY <1>1
  <2> QED
    BY <1>9, <2>1
<1>11. ClampIndex(i, n) \in 0 .. n
  BY <1>1, ClampInRange
<1> QED
  BY <1>3, <1>10, <1>11 DEF x, n

(* Python's index at which the list takes the new element is the same.     *)
LEMMA ClampCounts ==
  ASSUME NEW i \in Int, NEW n \in Nat
  PROVE  Cardinality({j \in 0 .. n - 1 : j < IF i < 0 THEN i + n ELSE i}) = ClampIndex(i, n)
<1> DEFINE c == ClampIndex(i, n)
           e == FromEnd(i, n)
<1>1. e \in Int /\ c \in 0 .. n /\ c = (IF e < 0 THEN 0 ELSE IF e > n THEN n ELSE e)
  BY ClampInRange DEF FromEnd, ClampIndex
<1>2. {j \in 0 .. n - 1 : j < IF i < 0 THEN i + n ELSE i} = {j \in 0 .. n - 1 : j < e}
  BY DEF FromEnd
<1> HIDE DEF c, e
<1>3. {j \in 0 .. n - 1 : j < e} = 0 .. c - 1
  BY <1>1
<1>4. Cardinality(0 .. c - 1) = c
  <2>1. c - 1 \in Int /\ (c = 0 => 0 > c - 1) /\ (c # 0 => ~(0 > c - 1)) /\ c - 1 - 0 + 1 = c
    BY <1>1
  <2>2. Cardinality(0 .. c - 1) = IF 0 > c - 1 THEN 0 ELSE c - 1 - 0 + 1
    BY <2>1, FS_Interval
  <2> QED
    BY <2>1, <2>2
<1> QED
  BY <1>2, <1>3, <1>4 DEF c

LEMMA InsertAtIs ==
  ASSUME NEW s \in Seq(Contents), NEW x \in Contents, NEW i \in Int
  PROVE  ListInsertAt(s, i, x) = Slid(s, x, ClampIndex(i, Len(s)))
<1> DEFINE n == Len(s)
           at == ClampIndex(i, n)
           before == SubSeq(s, 1, at)
           after == SubSeq(s, at + 1, n)
           with == before \o <<x>>
           all == with \o after
<1>1. n \in Nat /\ at \in 0 .. n
  BY ClampInRange, LenProperties
<1>2. ListInsertAt(s, i, x) = all
  BY <1>1, ClampCounts DEF ListInsertAt
<1> HIDE DEF at
<1>3. /\ before \in Seq(Contents) /\ Len(before) = at
      /\ \A q \in 1 .. at : before[q] = s[q]
  BY <1>1
<1>4. /\ after \in Seq(Contents) /\ Len(after) = n - at
      /\ \A q \in 1 .. n - at : after[q] = s[at + q]
  BY <1>1
<1> HIDE DEF before, after, n
<1>5. /\ with \in Seq(Contents) /\ Len(with) = at + 1
      /\ \A q \in 1 .. at + 1 : with[q] = IF q <= at THEN s[q] ELSE x
  BY <1>1, <1>3
<1> HIDE DEF with
<1>6. all \in Seq(Contents) /\ Len(all) = n + 1
  <2>1. all \in Seq(Contents) /\ Len(all) = Len(with) + Len(after)
    BY <1>4, <1>5, ConcatProperties
  <2> QED
    BY <1>1, <1>4, <1>5, <2>1
<1>7. ASSUME NEW q \in 1 .. n + 1
      PROVE  all[q] = IF q <= at THEN s[q] ELSE IF q = at + 1 THEN x ELSE s[q - 1]
  <2>1. CASE q <= at + 1
    <3>1. q \in 1 .. at + 1
      BY <1>1, <2>1
    <3>2. all[q] = with[q]
      BY <1>4, <1>5, <3>1
    <3> QED
      BY <1>1, <1>5, <3>1, <3>2
  <2>2. CASE q > at + 1
    <3>1. q - (at + 1) \in 1 .. n - at /\ at + (q - (at + 1)) = q - 1
      BY <1>1, <2>2
    <3>2. all[q] = after[q - (at + 1)]
      BY <1>1, <1>4, <1>5, <2>2
    <3>3. after[q - (at + 1)] = s[at + (q - (at + 1))]
      BY <1>4, <3>1
    <3>4. all[q] = s[q - 1]
      BY <3>1, <3>2, <3>3
    <3>5. ~(q <= at) /\ q # at + 1
      BY <1>1, <2>2
    <3> HIDE DEF all
    <3> QED
      BY <3>4, <3>5
  <2> HIDE DEF all
  <2> QED
    BY <1>1, <2>1, <2>2
<1>8. /\ Slid(s, x, at) \in Seq(Contents) /\ Len(Slid(s, x, at)) = n + 1
      /\ \A q \in 1 .. n + 1 : Slid(s, x, at)[q]
           = IF q <= at THEN s[q] ELSE IF q = at + 1 THEN x ELSE s[q - 1]
  BY <1>1, SlidTyped DEF Slid, n
<1> HIDE DEF all
<1>9. all = Slid(s, x, at)
  BY <1>6, <1>7, <1>8, SeqEqual
<1> QED
  BY <1>2, <1>9 DEF at, n

-----------------------------------------------------------------------------
(* Delete.  Moved: s with the element of index at moved up to index dst.   *)
Moved(s, at, dst) ==
  [q \in 1 .. Len(s) |->
     IF q <= at \/ q > dst + 1 THEN s[q] ELSE IF q = dst + 1 THEN s[at + 1] ELSE s[q + 1]]

(* s without the l elements from index at on.                               *)
Cut(s, at, l) == SubSeq(s, 1, at) \o SubSeq(s, at + l + 1, Len(s))

LEMMA MovedTyped ==
  ASSUME NEW X, NEW s \in Seq(X), NEW at \in 0 .. Len(s) - 1, NEW dst \in 0 .. Len(s) - 1
  PROVE  Moved(s, at, dst) \in Seq(X) /\ Len(Moved(s, at, dst)) = Len(s)
<1> DEFINE n == Len(s)
           at_q(q) == IF q <= at \/ q > dst + 1 THEN s[q]
                      ELSE IF q = dst + 1 THEN s[at + 1] ELSE s[q + 1]
<1>1. n \in Nat /\ \A i \in 1 .. n : s[i] \in X
  BY LenProperties, ElementOfSeq
<1>2. Moved(s, at, dst) = [q \in 1 .. n |-> at_q(q)]
  BY DEF Moved
<1>3. at \in 0 .. n - 1 /\ dst \in 0 .. n - 1
  OBVIOUS
<1> HIDE DEF n
<1>4. ASSUME NEW q \in 1 .. n PROVE at_q(q) \in X
  <2>1. at + 1 \in 1 .. n /\ (q < dst + 1 => q + 1 \in 1 .. n)
    BY <1>1, <1>3
  <2> QED
    BY <1>1, <1>3, <2>1
<1> HIDE DEF at_q
<1>5. Moved(s, at, dst) \in [1 .. n -> X]
  BY <1>2, <1>4
<1> QED
  BY <1>1, <1>5, LenProperties DEF n

LEMMA SwapMoves ==
  ASSUME NEW X, NEW s \in Seq(X), NEW at \in 0 .. Len(s) - 1, NEW dst \in 0 .. Len(s) - 1,
         at < dst
  PROVE  SwapElements(Moved(s, at, dst - 1), dst - 1, dst) = Moved(s, at, dst)
<1> DEFINE n == Len(s)
           t == Moved(s, at, dst - 1)
<1>1. n \in Nat /\ at \in 0 .. n - 1 /\ dst \in 1 .. n - 1 /\ dst - 1 + 1 = dst
  BY LenProperties
<1> HIDE DEF n
<1>2. t = [q \in 1 .. n |-> IF q <= at \/ q > dst THEN s[q]
                            ELSE IF q = dst THEN s[at + 1] ELSE s[q + 1]]
  BY <1>1 DEF Moved, n
<1>3. t[dst] = s[at + 1] /\ t[dst + 1] = s[dst + 1]
  BY <1>1, <1>2
<1>4. SwapElements(t, dst - 1, dst) = [t EXCEPT ![dst] = s[dst + 1], ![dst + 1] = s[at + 1]]
  BY <1>1, <1>3 DEF SwapElements
<1>5. Moved(s, at, dst) = [q \in 1 .. n |-> IF q <= at \/ q > dst + 1 THEN s[q]
                             ELSE IF q = dst + 1 THEN s[at + 1] ELSE s[q + 1]]
  BY DEF Moved, n
<1> HIDE DEF t
<1>6. [t EXCEPT ![dst] = s[dst + 1], ![dst + 1] = s[at + 1]]
        = [q \in 1 .. n |-> IF q = dst + 1 THEN s[at + 1] ELSE IF q = dst THEN s[dst + 1]
                            ELSE t[q]]
  BY <1>1, <1>2
<1>7. ASSUME NEW q \in 1 .. n
      PROVE  (IF q = dst + 1 THEN s[at + 1] ELSE IF q = dst THEN s[dst + 1] ELSE t[q])
              = (IF q <= at \/ q > dst + 1 THEN s[q]
                 ELSE IF q = dst + 1 THEN s[at + 1] ELSE s[q + 1])
  BY <1>1, <1>2
<1> QED
  BY <1>4, <1>5, <1>6, <1>7 DEF t

LEMMA MovedIsSame ==
  ASSUME NEW X, NEW s \in Seq(X), NEW at \in 0 .. Len(s) - 1, NEW dst \in 0 .. at
  PROVE  Moved(s, at, dst) = s
<1>1. dst \in 0 .. Len(s) - 1
  BY LenProperties
<1>2. Moved(s, at, dst) \in Seq(X) /\ Len(Moved(s, at, dst)) = Len(s)
  BY <1>1, MovedTyped
<1>3. ASSUME NEW q \in 1 .. Len(s) PROVE Moved(s, at, dst)[q] = s[q]
  <2>1. q <= at \/ q > dst + 1 \/ (q = dst + 1 /\ q = at + 1)
    BY LenProperties
  <2> QED
    BY <2>1 DEF Moved
<1> QED
  BY <1>2, <1>3, SeqEqual

LEMMA CutIs ==
  ASSUME NEW X, NEW s \in Seq(X), NEW at \in 0 .. Len(s), NEW l \in 0 .. Len(s) - at
  PROVE  /\ Cut(s, at, l) \in Seq(X)
         /\ Len(Cut(s, at, l)) = Len(s) - l
         /\ \A q \in 1 .. Len(s) - l : Cut(s, at, l)[q] = s[IF q <= at THEN q ELSE q + l]
<1> DEFINE n == Len(s)
           before == SubSeq(s, 1, at)
           after == SubSeq(s, at + l + 1, n)
<1>1. n \in Nat /\ at \in 0 .. n /\ l \in 0 .. n - at
  BY LenProperties
<1>2. before \in Seq(X) /\ Len(before) = at /\ \A q \in 1 .. at : before[q] = s[q]
  BY <1>1
<1>3. /\ after \in Seq(X) /\ Len(after) = n - l - at
      /\ \A q \in 1 .. n - l - at : after[q] = s[at + l + q]
  BY <1>1
<1>4. Cut(s, at, l) = before \o after
  BY DEF Cut
<1> HIDE DEF before, after, n
<1>5. /\ Cut(s, at, l) \in Seq(X) /\ Len(Cut(s, at, l)) = Len(before) + Len(after)
      /\ \A q \in 1 .. Len(before) + Len(after) :
           Cut(s, at, l)[q] = IF q <= Len(before) THEN before[q] ELSE after[q - Len(before)]
  <2>1. before \in Seq(X) /\ after \in Seq(X)
    BY <1>2, <1>3
  <2>2. /\ before \o after \in Seq(X) /\ Len(before \o after) = Len(before) + Len(after)
        /\ \A q \in 1 .. Len(before) + Len(after) :
             (before \o after)[q] = IF q <= Len(before) THEN before[q]
                                    ELSE after[q - Len(before)]
    BY <2>1, ConcatProperties, Zenon
  <2> QED
    BY <1>4, <2>2
<1>6. Len(before) = at /\ Len(before) + Len(after) = n - l
  BY <1>1, <1>2, <1>3
<1>7. ASSUME NEW q \in 1 .. n - l
      PROVE  Cut(s, at, l)[q] = s[IF q <= at THEN q ELSE q + l]
  <2>1. Cut(s, at, l)[q] = IF q <= at THEN before[q] ELSE after[q - at]
    BY <1>5, <1>6
  <2>2. CASE q <= at
    BY <1>1, <1>2, <2>1, <2>2
  <2>3. CASE ~(q <= at)
    <3>1. q - at \in 1 .. n - l - at /\ at + l + (q - at) = q + l
      BY <1>1, <2>3
    <3> QED
      BY <1>3, <2>1, <2>3, <3>1
  <2> QED
    BY <2>2, <2>3
<1> QED
  BY <1>5, <1>6, <1>7 DEF n

LEMMA CutOne ==
  ASSUME NEW X, NEW s \in Seq(X), NEW at \in 0 .. Len(s) - 1
  PROVE  /\ Cut(s, at, 1) \in Seq(X)
         /\ Len(Cut(s, at, 1)) = Len(s) - 1
         /\ \A q \in 1 .. Len(s) - 1 : Cut(s, at, 1)[q] = s[IF q <= at THEN q ELSE q + 1]
<1>1. at \in 0 .. Len(s) /\ 1 \in 0 .. Len(s) - at
  BY LenProperties
<1> QED
  BY <1>1, CutIs

(* What delete makes of a repeated field.                                  *)
LEMMA DeleteIs ==
  ASSUME NEW X, NEW s \in Seq(X), NEW i \in Int, InRange(i, Len(s))
  PROVE  DeleteFrom(s, i) = Done(Cut(s, FromEnd(i, Len(s)), 1))
<1> DEFINE n == Len(s)
           at == FromEnd(i, n)
           slid[dst \in 0 .. n - 1] == IF dst <= at THEN s
                                       ELSE SwapElements(slid[dst - 1], dst - 1, dst)
           Loop(g) == g = [dst \in 0 .. n - 1 |-> IF dst <= at THEN s
                                                  ELSE SwapElements(g[dst - 1], dst - 1, dst)]
           closed == [dst \in 0 .. n - 1 |-> Moved(s, at, dst)]
<1>1. n \in Nat /\ at \in 0 .. n - 1
  BY LenProperties DEF InRange
<1>2. DeleteFrom(s, i) = Done(SubSeq(slid[n - 1], 1, n - 1))
  BY DEF DeleteFrom
<1>3. slid = CHOOSE g : Loop(g)
  OBVIOUS
<1> HIDE DEF slid, at, n
<1>4. \A dst \in 0 .. n - 1 : IF dst <= at THEN Moved(s, at, dst) = s
        ELSE SwapElements(Moved(s, at, dst - 1), dst - 1, dst) = Moved(s, at, dst)
  <2> TAKE dst \in 0 .. n - 1
  <2>1. dst <= at => dst \in 0 .. at
    BY <1>1
  <2>2. ~(dst <= at) => at < dst
    BY <1>1
  <2> QED
    BY <1>1, <2>1, <2>2, SwapMoves, MovedIsSame DEF n
<1>5. Loop(closed)
  <2>1. ASSUME NEW dst \in 0 .. n - 1
        PROVE  closed[dst] = IF dst <= at THEN s
                             ELSE SwapElements(closed[dst - 1], dst - 1, dst)
    <3>1. dst > at => dst - 1 \in 0 .. n - 1
      BY <1>1
    <3> QED
      BY <1>1, <1>4, <3>1
  <2> HIDE DEF closed
  <2>2. closed = [dst \in 0 .. n - 1 |-> closed[dst]]
    BY DEF closed
  <2> QED
    BY <2>1, <2>2
<1>6. Loop(slid)
  <2> HIDE DEF Loop
  <2> QED
    BY <1>3, <1>5
<1>7. \A dst \in 0 .. n - 1 : slid[dst] = Moved(s, at, dst)
  <2> DEFINE S == {dst \in 0 .. n - 1 : slid[dst] = Moved(s, at, dst)}
  <2>1. 0 \in S
    BY <1>1, <1>4, <1>6
  <2>2. ASSUME NEW dst \in 1 .. n - 1, dst - 1 \in S PROVE dst \in S
    <3>1. dst \in 0 .. n - 1 /\ slid[dst - 1] = Moved(s, at, dst - 1)
      BY <1>1, <2>2
    <3>2. slid[dst] = IF dst <= at THEN s ELSE SwapElements(slid[dst - 1], dst - 1, dst)
      BY <1>6, <3>1
    <3> QED
      BY <1>4, <3>1, <3>2
  <2> HIDE DEF S
  <2>3. n - 1 \in Nat
    BY <1>1
  <2>4. \A dst \in 0 .. n - 1 : dst \in S
    BY <2>1, <2>2, <2>3, UpTo
  <2> QED
    BY <2>4 DEF S
<1> DEFINE t == Moved(s, at, n - 1)
           r == SubSeq(t, 1, n - 1)
<1>8. slid[n - 1] = t
  BY <1>1, <1>7
<1>9. /\ t \in Seq(X) /\ Len(t) = n
      /\ \A q \in 1 .. n - 1 : t[q] = s[IF q <= at THEN q ELSE q + 1]
  BY <1>1, MovedTyped DEF Moved, n
<1> HIDE DEF t
<1>10. r \in Seq(X) /\ Len(r) = n - 1 /\ \A q \in 1 .. n - 1 : r[q] = t[q]
  BY <1>1, <1>9
<1> HIDE DEF r
<1>11. /\ Cut(s, at, 1) \in Seq(X) /\ Len(Cut(s, at, 1)) = n - 1
       /\ \A q \in 1 .. n - 1 : Cut(s, at, 1)[q] = s[IF q <= at THEN q ELSE q + 1]
  BY <1>1, CutOne DEF n
<1>12. r = Cut(s, at, 1)
  BY <1>9, <1>10, <1>11, SeqEqual
<1> QED
  BY <1>2, <1>8, <1>12 DEF r, at, n

-----------------------------------------------------------------------------
(* Slices: the position (from 1) of element i, and the values' casts.      *)
Place(slice, i) == slice.start + (i - 1) * slice.step + 1

(* The last of the elements of a slice is before its end.                  *)
LEMMA LastInSlice ==
  ASSUME NEW d \in Nat, NEW k \in Nat \ {0}, NEW i \in 1 .. d \div k + 1
  PROVE  (i - 1) * k \in 0 .. d
<1>1. d \div k \in Nat /\ (d \div k) * k <= d
  OBVIOUS
<1>2. i - 1 \in Nat /\ i - 1 <= d \div k
  BY <1>1
<1> DEFINE a == d \div k
           b == i - 1
<1>3. b * k <= a * k /\ b * k \in Nat
  <2> HIDE DEF a, b
  <2>1. a \in Nat /\ b \in Nat /\ b <= a
    BY <1>1, <1>2 DEF a, b
  <2> QED
    BY <2>1
<1> HIDE DEF a, b
<1>4. a * k <= d /\ a * k \in Int /\ b * k \in Int
  BY <1>1, <1>3 DEF a
<1> QED
  BY <1>3, <1>4 DEF b

LEMMA SliceTyped ==
  ASSUME NEW n \in Nat, NEW slice \in Slices(n)
  PROVE  /\ slice.start \in Int /\ slice.stop \in Int /\ slice.step \in Int \ {0}
         /\ slice.length \in Nat
         /\ \A i \in 1 .. slice.length : Place(slice, i) \in 1 .. n
         /\ \A i, j \in 1 .. slice.length : Place(slice, i) = Place(slice, j) => i = j
<1>1. PICK k \in Steps : \E a \in (IF k > 0 THEN 0 .. n ELSE -1 .. n - 1),
                            z \in (IF k > 0 THEN 0 .. n ELSE -1 .. n - 1) :
        slice = [start |-> a, stop |-> z, step |-> k, length |-> SliceLength(a, z, k)]
  BY DEF Slices
<1>2. PICK a \in (IF k > 0 THEN 0 .. n ELSE -1 .. n - 1),
           z \in (IF k > 0 THEN 0 .. n ELSE -1 .. n - 1) :
        slice = [start |-> a, stop |-> z, step |-> k, length |-> SliceLength(a, z, k)]
  BY <1>1
<1>3. k \in Int \ {0} /\ a \in Int /\ z \in Int
  BY <1>2, FieldAssumption
<1> DEFINE l == SliceLength(a, z, k)
<1>4. \A i \in 1 .. l : Place(slice, i) = a + (i - 1) * k + 1
  BY <1>2 DEF Place
<1>5. l \in Nat /\ \A i \in 1 .. l : a + (i - 1) * k + 1 \in 1 .. n
  <2>1. CASE k > 0 /\ a < z
    <3> DEFINE d == z - a - 1
    <3>1. l = d \div k + 1
      BY <2>1, <1>3 DEF SliceLength
    <3>2. d \in Nat /\ k \in Nat \ {0}
      BY <2>1, <1>3
    <3>3. l \in Nat
      BY <3>1, <3>2
    <3>4. ASSUME NEW i \in 1 .. l PROVE a + (i - 1) * k + 1 \in 1 .. n
      <4>1. (i - 1) * k \in 0 .. d
        BY <3>1, <3>2, LastInSlice
      <4> QED
        BY <4>1, <2>1, <1>2, <1>3
    <3> QED
      BY <3>3, <3>4
  <2>2. CASE k < 0 /\ z < a
    <3> DEFINE d == a - z - 1
    <3>1. l = d \div (-k) + 1
      BY <2>2, <1>3 DEF SliceLength
    <3>2. d \in Nat /\ -k \in Nat \ {0}
      BY <2>2, <1>3
    <3>3. l \in Nat
      BY <3>1, <3>2
    <3>4. ASSUME NEW i \in 1 .. l PROVE a + (i - 1) * k + 1 \in 1 .. n
      <4>1. (i - 1) * (-k) \in 0 .. d
        BY <3>1, <3>2, LastInSlice
      <4>2. (i - 1) * k = -((i - 1) * (-k))
        BY <1>3
      <4> QED
        BY <4>1, <4>2, <2>2, <1>2, <1>3
    <3> QED
      BY <3>3, <3>4
  <2>3. CASE ~(k > 0 /\ a < z) /\ ~(k < 0 /\ z < a)
    <3>1. l = 0
      BY <2>3 DEF SliceLength
    <3> QED
      BY <3>1
  <2> QED
    BY <2>1, <2>2, <2>3
<1>6. slice.length = l /\ slice.start = a /\ slice.stop = z /\ slice.step = k
  BY <1>2
<1> HIDE DEF l
<1>7. ASSUME NEW i \in 1 .. l, NEW j \in 1 .. l, a + (i - 1) * k + 1 = a + (j - 1) * k + 1
      PROVE  i = j
  <2>1. (i - 1) * k = (j - 1) * k
    BY <1>3, <1>7
  <2> QED
    BY <1>3, <2>1
<1>8. \A i, j \in 1 .. l : Place(slice, i) = Place(slice, j) => i = j
  BY <1>4, <1>7
<1>9. \A i \in 1 .. l : Place(slice, i) \in 1 .. n
  BY <1>4, <1>5
<1> QED
  BY <1>3, <1>5, <1>6, <1>8, <1>9

-----------------------------------------------------------------------------
(* What the operations make of a field: its elements, and how they ended.  *)
Outcomes == [to : Seq(Contents), ok : BOOLEAN]

LEMMA SetElementTyped ==
  ASSUME NEW f \in Repeated, NEW s \in Seq(Contents), NEW i \in Int, NEW v \in PyValues
  PROVE  LET done == SetElement(f, s, i, v)
         IN done \in Outcomes /\ Len(done.to) = Len(s) /\ (~done.ok => done.to = s)
<1> DEFINE n == Len(s)
           done == SetElement(f, s, i, v)
<1>1. n \in Nat /\ DOMAIN s = 1 .. n /\ s \in [1 .. n -> Contents]
  BY LenProperties
<1>2. Cast(f, v) \in Contents \cup {Refused}
  BY FieldAssumption DEF Cast, Fields
<1>3. CASE InRange(i, n) /\ Cast(f, v) # Refused
  <2> DEFINE to == [s EXCEPT ![FromEnd(i, n) + 1] = Cast(f, v)]
  <2>1. done = Done(to)
    BY <1>3 DEF SetElement
  <2>2. to \in [1 .. n -> Contents]
    BY <1>1, <1>2, <1>3
  <2>3. to \in Seq(Contents) /\ Len(to) = n
    BY <1>1, <2>2, LenProperties
  <2> HIDE DEF to
  <2> QED
    BY <2>1, <2>3 DEF Done, Outcomes
<1>4. CASE ~(InRange(i, n) /\ Cast(f, v) # Refused)
  <2>1. done = Throw(s)
    BY <1>4 DEF SetElement
  <2> QED
    BY <2>1 DEF Throw, Outcomes
<1> QED
  BY <1>3, <1>4

LEMMA SetElementIs ==
  ASSUME NEW f \in Repeated, NEW s \in Seq(Contents), NEW v \in PyValues,
         NEW i \in 0 .. Len(s) - 1
  PROVE  SetElement(f, s, i, v) = IF Cast(f, v) # Refused
                                  THEN Done([s EXCEPT ![i + 1] = Cast(f, v)]) ELSE Throw(s)
<1>1. InRange(i, Len(s)) /\ FromEnd(i, Len(s)) = i
  BY LenProperties DEF InRange, FromEnd
<1> QED
  BY <1>1 DEF SetElement

(* One turn of SetSlice, on what the turns before have made of the field.  *)
SetTurn(f, slice, values, i, r) ==
  IF ~r.ok THEN r
  ELSE IF i > Len(values) THEN Throw(r.to)
  ELSE SetElement(f, r.to, slice.start + (i - 1) * slice.step, values[i].value)

LEMMA SetTurnTyped ==
  ASSUME NEW f \in Repeated, NEW n \in Nat, NEW slice \in Slices(n), NEW values \in Seq(Item),
         NEW i \in 1 .. slice.length, NEW r \in Outcomes
  PROVE  SetTurn(f, slice, values, i, r) \in Outcomes
<1>1. r.to \in Seq(Contents) /\ r.ok \in BOOLEAN
  BY DEF Outcomes
<1>2. CASE ~r.ok
  BY <1>2 DEF SetTurn
<1>3. CASE r.ok /\ i > Len(values)
  BY <1>1, <1>3 DEF SetTurn, Throw, Outcomes
<1>4. CASE r.ok /\ ~(i > Len(values))
  <2>1. i \in 1 .. Len(values)
    <3>1. Len(values) \in Nat /\ i \in Int /\ i >= 1
      BY LenProperties, SliceTyped
    <3> QED
      BY <1>4, <3>1
  <2>2. values[i].value \in PyValues
    <3>1. values[i] \in Item
      BY <2>1, ElementOfSeq
    <3> QED
      BY <3>1 DEF Item
  <2>3. slice.start + (i - 1) * slice.step \in Int
    <3>1. slice.start \in Int /\ slice.step \in Int
      BY SliceTyped
    <3> QED
      BY <3>1
  <2> QED
    BY <1>1, <1>4, <2>2, <2>3, SetElementTyped DEF SetTurn
<1> QED
  BY <1>2, <1>3, <1>4

(* SetSlice is the last of a chain of turns.                               *)
LEMMA SetSliceChain ==
  ASSUME NEW f \in Repeated, NEW s \in Seq(Contents), NEW slice \in Slices(Len(s)),
         NEW values \in Seq(Item)
  PROVE  \E h \in [0 .. slice.length -> Outcomes] :
           /\ h[0] = Done(s)
           /\ \A i \in 1 .. slice.length : h[i] = SetTurn(f, slice, values, i, h[i - 1])
           /\ SetSlice(f, s, slice, values) = h[slice.length]
<1> DEFINE n == Len(s)
           l == slice.length
           turn == [i \in 1 .. l |-> [r \in Outcomes |-> SetTurn(f, slice, values, i, r)]]
           body(g, i) ==
             CASE i = 0 -> Done(s)
               [] i > 0 /\ ~g[i - 1].ok -> g[i - 1]
               [] i > Len(values) /\ g[i - 1].ok -> Throw(g[i - 1].to)
               [] OTHER -> SetElement(f, g[i - 1].to, slice.start + (i - 1) * slice.step,
                                      values[i].value)
           Loop(g) == g = [i \in 0 .. l |-> body(g, i)]
           set[i \in 0 .. l] ==
             CASE i = 0 -> Done(s)
               [] i > 0 /\ ~set[i - 1].ok -> set[i - 1]
               [] i > Len(values) /\ set[i - 1].ok -> Throw(set[i - 1].to)
               [] OTHER -> SetElement(f, set[i - 1].to, slice.start + (i - 1) * slice.step,
                                      values[i].value)
<1>1. n \in Nat /\ l \in Nat /\ Len(values) \in Nat
  BY LenProperties, SliceTyped
<1>2. SetSlice(f, s, slice, values) = set[l]
  BY DEF SetSlice
<1>3. set = CHOOSE g : Loop(g)
  OBVIOUS
<1> HIDE DEF set, l
<1>4. ASSUME NEW g, NEW i \in 1 .. l
      PROVE  body(g, i) = SetTurn(f, slice, values, i, g[i - 1])
  BY <1>1 DEF SetTurn
<1>5. ASSUME NEW g PROVE body(g, 0) = Done(s)
  BY <1>1
<1>6. Done(s) \in Outcomes
  BY DEF Done, Outcomes
<1>7. turn \in [1 .. l -> [Outcomes -> Outcomes]]
  BY <1>1, SetTurnTyped DEF l
<1>8. \A i \in 1 .. l, r \in Outcomes : turn[i][r] = SetTurn(f, slice, values, i, r)
  OBVIOUS
<1> HIDE DEF turn, body
<1>9. \E h \in [0 .. l -> Outcomes] : IsChain(h, l, Done(s), turn)
  BY <1>1, <1>6, <1>7, Chain
<1>10. PICK h \in [0 .. l -> Outcomes] : IsChain(h, l, Done(s), turn)
  BY <1>9
<1>11. ASSUME NEW i \in 1 .. l PROVE h[i] = SetTurn(f, slice, values, i, h[i - 1])
  <2>1. i - 1 \in 0 .. l
    BY <1>1
  <2> QED
    BY <1>8, <1>10, <2>1 DEF IsChain
<1>12. Loop(h)
  <2>1. ASSUME NEW i \in 0 .. l PROVE h[i] = body(h, i)
    BY <1>1, <1>4, <1>5, <1>10, <1>11 DEF IsChain
  <2> QED
    BY <2>1
<1>13. Loop(set)
  <2> HIDE DEF Loop
  <2> QED
    BY <1>3, <1>12
<1>14. set[0] = Done(s)
  BY <1>1, <1>5, <1>13
<1>15. \A i \in 1 .. l : set[i] = SetTurn(f, slice, values, i, set[i - 1])
  BY <1>1, <1>4, <1>13
<1>16. \A i \in 0 .. l : set[i] = h[i]
  <2> DEFINE S == {i \in 0 .. l : set[i] = h[i]}
  <2>1. 0 \in S
    BY <1>1, <1>10, <1>14 DEF IsChain
  <2>2. ASSUME NEW i \in 1 .. l, i - 1 \in S PROVE i \in S
    BY <1>1, <1>11, <1>15, <2>2
  <2> HIDE DEF S
  <2>3. \A i \in 0 .. l : i \in S
    BY <1>1, <2>1, <2>2, UpTo
  <2> QED
    BY <2>3 DEF S
<1>17. h[0] = Done(s) /\ SetSlice(f, s, slice, values) = h[l]
  BY <1>1, <1>2, <1>10, <1>16 DEF IsChain
<1> HIDE DEF Loop
<1> QED
  BY <1>11, <1>17 DEF l

(* The first i values of a slice can all be set.                           *)
Good(f, values, i)    == i <= Len(values) /\ Cast(f, values[i].value) # Refused
AllGood(f, values, i) == \A j \in 1 .. i : Good(f, values, j)

(* After i turns, the elements before the first bad value have been set.   *)
SetUpTo(f, s, slice, values, i, r) ==
  /\ Len(r.to) = Len(s)
  /\ r.ok <=> AllGood(f, values, i)
  /\ \A j \in 1 .. slice.length :
       r.to[Place(slice, j)] = IF j <= i /\ AllGood(f, values, j) THEN Cast(f, values[j].value)
                               ELSE s[Place(slice, j)]
  /\ \A q \in 1 .. Len(s) :
       (\A j \in 1 .. slice.length : q # Place(slice, j)) => r.to[q] = s[q]

LEMMA TurnSets ==
  ASSUME NEW f \in Repeated, NEW s \in Seq(Contents), NEW slice \in Slices(Len(s)),
         NEW values \in Seq(Item), NEW i \in 1 .. slice.length, NEW r \in Outcomes,
         SetUpTo(f, s, slice, values, i - 1, r)
  PROVE  SetUpTo(f, s, slice, values, i, SetTurn(f, slice, values, i, r))
<1> DEFINE n == Len(s)
           l == slice.length
           place(j) == Place(slice, j)
           done == SetTurn(f, slice, values, i, r)
<1> SUFFICES SetUpTo(f, s, slice, values, i, done)
  OBVIOUS
<1>1. /\ n \in Nat /\ l \in Nat /\ i \in 1 .. l /\ Len(values) \in Nat
      /\ \A j \in 1 .. l : place(j) \in 1 .. n
      /\ \A j, k \in 1 .. l : place(j) = place(k) => j = k
  BY SliceTyped, LenProperties
<1>2. AllGood(f, values, i) <=> AllGood(f, values, i - 1) /\ Good(f, values, i)
  BY <1>1 DEF AllGood
<1>3. \A j \in 1 .. l : j <= i => (j <= i - 1 \/ j = i)
  BY <1>1
<1>4. /\ r.to \in Seq(Contents) /\ Len(r.to) = n
      /\ r.ok <=> AllGood(f, values, i - 1)
      /\ \A j \in 1 .. l :
           r.to[place(j)] = IF j <= i - 1 /\ AllGood(f, values, j)
                            THEN Cast(f, values[j].value) ELSE s[place(j)]
      /\ \A q \in 1 .. n : (\A j \in 1 .. l : q # place(j)) => r.to[q] = s[q]
  BY DEF SetUpTo, Outcomes
<1>5. ASSUME ~AllGood(f, values, i), done.to = r.to, ~done.ok
      PROVE  SetUpTo(f, s, slice, values, i, done)
  <2>1. \A j \in 1 .. l : r.to[place(j)] = IF j <= i /\ AllGood(f, values, j)
                            THEN Cast(f, values[j].value) ELSE s[place(j)]
    BY <1>1, <1>3, <1>4, <1>5
  <2> HIDE DEF done
  <2> QED
    BY <1>4, <1>5, <2>1 DEF SetUpTo
<1>6. CASE ~r.ok
  BY <1>2, <1>4, <1>5, <1>6 DEF SetTurn
<1>7. CASE r.ok /\ i > Len(values)
  BY <1>1, <1>2, <1>4, <1>5, <1>7 DEF SetTurn, Throw, Good
<1>8. CASE r.ok /\ ~(i > Len(values))
  <2> DEFINE v == values[i].value
             index == slice.start + (i - 1) * slice.step
  <2>1. done = SetElement(f, r.to, index, v)
    BY <1>8 DEF SetTurn
  <2>2. v \in PyValues
    <3>1. i \in 1 .. Len(values)
      BY <1>1, <1>8
    <3>2. values[i] \in Item
      BY <3>1, ElementOfSeq
    <3> QED
      BY <3>2 DEF Item
  <2>3. index \in 0 .. n - 1 /\ index + 1 = place(i)
    <3>1. slice.start \in Int /\ slice.step \in Int
      BY SliceTyped
    <3>2. index \in Int /\ place(i) = index + 1
      BY <1>1, <3>1 DEF Place
    <3> HIDE DEF index, place
    <3> QED
      BY <1>1, <3>2
  <2> HIDE DEF index, v, done
  <2>4. /\ done \in Outcomes /\ Len(done.to) = n
        /\ ~done.ok => done.to = r.to
        /\ done.ok <=> Cast(f, v) # Refused
        /\ done.ok => done.to = [r.to EXCEPT ![index + 1] = Cast(f, v)]
    <3>1. /\ r.to \in Seq(Contents) /\ Len(r.to) = n /\ index \in Int
          /\ index \in 0 .. Len(r.to) - 1
      BY <1>1, <1>4, <2>3
    <3>2. done \in Outcomes /\ Len(done.to) = Len(r.to) /\ (~done.ok => done.to = r.to)
      BY <2>1, <2>2, <3>1, SetElementTyped
    <3>3. done = IF Cast(f, v) # Refused THEN Done([r.to EXCEPT ![index + 1] = Cast(f, v)])
                 ELSE Throw(r.to)
      BY <2>1, <2>2, <3>1, SetElementIs
    <3> QED
      BY <3>1, <3>2, <3>3 DEF Done, Throw
  <2>5. Good(f, values, i) <=> Cast(f, v) # Refused
    BY <1>1, <1>8 DEF Good, v
  <2>6. CASE ~done.ok
    BY <1>2, <1>5, <2>4, <2>5, <2>6
  <2>7. CASE done.ok
    <3>1. AllGood(f, values, i)
      BY <1>2, <1>4, <1>8, <2>4, <2>5, <2>7
    <3>2. DOMAIN r.to = 1 .. n /\ done.to = [r.to EXCEPT ![place(i)] = Cast(f, v)]
      BY <1>4, <2>3, <2>4, <2>7, LenProperties
    <3> HIDE DEF place
    <3>3. \A q \in 1 .. n : done.to[q] = IF q = place(i) THEN Cast(f, v) ELSE r.to[q]
      BY <3>2
    <3>4. ASSUME NEW j \in 1 .. l
          PROVE  done.to[place(j)] = IF j <= i /\ AllGood(f, values, j)
                                     THEN Cast(f, values[j].value) ELSE s[place(j)]
      <4>1. CASE j = i
        BY <1>1, <3>1, <3>3, <4>1 DEF v
      <4>2. CASE j # i
        <5>1. done.to[place(j)] = r.to[place(j)]
          BY <1>1, <3>3, <4>2
        <5>2. j <= i <=> j <= i - 1
          BY <1>1, <4>2
        <5> QED
          BY <1>4, <5>1, <5>2
      <4> QED
        BY <4>1, <4>2
    <3>5. ASSUME NEW q \in 1 .. n, \A j \in 1 .. l : q # place(j)
          PROVE  done.to[q] = s[q]
      BY <1>1, <1>4, <3>3, <3>5
    <3> QED
      BY <2>4, <2>7, <3>1, <3>4, <3>5 DEF SetUpTo, place
  <2> QED
    BY <2>6, <2>7
<1> QED
  BY <1>4, <1>6, <1>7, <1>8 DEF Outcomes

(* What assigning to a slice makes of a repeated field.                    *)
LEMMA SetSliceIs ==
  ASSUME NEW f \in Repeated, NEW s \in Seq(Contents), NEW slice \in Slices(Len(s)),
         NEW values \in Seq(Item)
  PROVE  LET done == SetSlice(f, s, slice, values)
         IN done \in Outcomes /\ SetUpTo(f, s, slice, values, slice.length, done)
<1> DEFINE l == slice.length
<1>1. l \in Nat
  BY SliceTyped, LenProperties
<1>2. PICK h \in [0 .. l -> Outcomes] :
        /\ h[0] = Done(s)
        /\ \A i \in 1 .. l : h[i] = SetTurn(f, slice, values, i, h[i - 1])
        /\ SetSlice(f, s, slice, values) = h[l]
  BY SetSliceChain
<1> DEFINE S == {i \in 0 .. l : SetUpTo(f, s, slice, values, i, h[i])}
<1>3. 0 \in S
  <2>1. \A j \in 1 .. l : ~(j <= 0)
    BY <1>1
  <2>2. AllGood(f, values, 0)
    BY DEF AllGood
  <2>3. SetUpTo(f, s, slice, values, 0, Done(s))
    BY <2>1, <2>2 DEF SetUpTo, Done
  <2> QED
    BY <1>1, <1>2, <2>3
<1>4. ASSUME NEW i \in 1 .. l, i - 1 \in S PROVE i \in S
  <2>1. i - 1 \in 0 .. l /\ i \in 0 .. l /\ h[i - 1] \in Outcomes
    BY <1>1, <1>4
  <2>2. SetUpTo(f, s, slice, values, i, SetTurn(f, slice, values, i, h[i - 1]))
    BY <1>4, <2>1, TurnSets
  <2> QED
    BY <1>2, <2>1, <2>2
<1> HIDE DEF S
<1>5. l \in S
  <2>1. \A i \in 0 .. l : i \in S
    BY <1>1, <1>3, <1>4, UpTo
  <2> QED
    BY <1>1, <2>1
<1> QED
  BY <1>1, <1>2, <1>5 DEF S

-----------------------------------------------------------------------------
(* A part of a part of s.                                                  *)
LEMMA CutAgain ==
  ASSUME NEW X, NEW s \in Seq(X), NEW at \in Nat, NEW l \in Nat, at + l + 1 <= Len(s)
  PROVE  Cut(Cut(s, at + 1, l), at, 1) = Cut(s, at, l + 1)
<1> DEFINE n == Len(s)
           a == at + 1
           k == l + 1
           t == Cut(s, a, l)
           u == Cut(t, at, 1)
           w == Cut(s, at, k)
<1>1. /\ n \in Nat /\ a \in 0 .. n /\ l \in 0 .. n - a
      /\ at \in 0 .. n /\ k \in 0 .. n - at
      /\ a = at + 1 /\ k = l + 1
  BY LenProperties
<1> HIDE DEF a, k
<1>2. /\ t \in Seq(X) /\ Len(t) = n - l
      /\ \A q \in 1 .. n - l : t[q] = s[IF q <= a THEN q ELSE q + l]
  <2>1. a \in 0 .. Len(s) /\ l \in 0 .. Len(s) - a
    BY <1>1
  <2> QED
    BY <2>1, CutIs
<1>3. /\ w \in Seq(X) /\ Len(w) = n - k
      /\ \A q \in 1 .. n - k : w[q] = s[IF q <= at THEN q ELSE q + k]
  <2>1. at \in 0 .. Len(s) /\ k \in 0 .. Len(s) - at
    BY <1>1
  <2> QED
    BY <2>1, CutIs
<1> HIDE DEF t, w, n
<1>4. at \in 0 .. Len(t) - 1 /\ Len(t) - 1 = n - k
  BY <1>1, <1>2
<1>5. /\ u \in Seq(X) /\ Len(u) = Len(t) - 1
      /\ \A q \in 1 .. Len(t) - 1 : u[q] = t[IF q <= at THEN q ELSE q + 1]
  <2>1. t \in Seq(X)
    BY <1>2
  <2> QED
    BY <1>4, <2>1, CutOne
<1> HIDE DEF u
<1>6. ASSUME NEW q \in 1 .. n - k PROVE u[q] = w[q]
  <2>1. q \in 1 .. Len(t) - 1 /\ q \in 1 .. n - l /\ q + 1 \in 1 .. n - l
    BY <1>1, <1>4
  <2>2. u[q] = t[IF q <= at THEN q ELSE q + 1]
    BY <1>5, <2>1
  <2>3. w[q] = s[IF q <= at THEN q ELSE q + k]
    BY <1>3
  <2>4. CASE q <= at
    <3>1. t[q] = s[q]
      BY <1>1, <1>2, <2>1, <2>4
    <3> QED
      BY <2>2, <2>3, <2>4, <3>1
  <2>5. CASE ~(q <= at)
    <3>1. ~(q + 1 <= a) /\ (q + 1) + l = q + k
      BY <1>1, <2>5
    <3>2. t[q + 1] = s[q + k]
      BY <1>2, <2>1, <3>1
    <3> QED
      BY <2>2, <2>3, <2>5, <3>2
  <2> QED
    BY <2>4, <2>5
<1>7. Len(u) = Len(w)
  BY <1>3, <1>4, <1>5
<1>8. u = w
  BY <1>3, <1>4, <1>5, <1>6, <1>7, SeqEqual
<1> QED
  BY <1>8 DEF a, k, t, u, w

LEMMA CutNothing ==
  ASSUME NEW X, NEW s \in Seq(X), NEW at \in 0 .. Len(s) PROVE Cut(s, at, 0) = s
<1>1. 0 \in 0 .. Len(s) - at /\ Len(s) - 0 = Len(s)
  BY LenProperties
<1>2. /\ Cut(s, at, 0) \in Seq(X) /\ Len(Cut(s, at, 0)) = Len(s)
      /\ \A q \in 1 .. Len(s) : Cut(s, at, 0)[q] = s[IF q <= at THEN q ELSE q + 0]
  BY <1>1, CutIs
<1>3. \A q \in 1 .. Len(s) : q + 0 = q
  BY LenProperties
<1> QED
  BY <1>2, <1>3, SeqEqual

LEMMA DeleteTyped ==
  ASSUME NEW s \in Seq(Contents), NEW i \in Int
  PROVE  LET done == DeleteFrom(s, i)
         IN /\ done \in Outcomes
            /\ done.ok <=> InRange(i, Len(s))
            /\ Len(done.to) = IF done.ok THEN Len(s) - 1 ELSE Len(s)
<1> DEFINE at == FromEnd(i, Len(s))
<1>1. CASE InRange(i, Len(s))
  <2>1. at \in 0 .. Len(s) - 1
    BY <1>1, LenProperties DEF InRange
  <2>2. DeleteFrom(s, i) = Done(Cut(s, at, 1))
    BY <1>1, DeleteIs
  <2> HIDE DEF at
  <2>3. Cut(s, at, 1) \in Seq(Contents) /\ Len(Cut(s, at, 1)) = Len(s) - 1
    BY <2>1, CutOne
  <2> QED
    BY <1>1, <2>2, <2>3 DEF Done, Outcomes
<1>2. CASE ~InRange(i, Len(s))
  BY <1>2 DEF DeleteFrom, Throw, Outcomes
<1> QED
  BY <1>1, <1>2

(* One turn of DelSlice.                                                   *)
DelTurn(slice, i, r) == IF ~r.ok THEN r ELSE DeleteFrom(r.to, DelSliceIndex(slice, i))

LEMMA DelTurnTyped ==
  ASSUME NEW n \in Nat, NEW slice \in Slices(n), NEW i \in 1 .. slice.length, NEW r \in Outcomes
  PROVE  LET done == DelTurn(slice, i, r)
         IN /\ done \in Outcomes
            /\ done.ok => r.ok /\ Len(done.to) = Len(r.to) - 1
            /\ Len(done.to) <= Len(r.to)
<1>1. DelSliceIndex(slice, i) \in Int
  BY SliceTyped DEF DelSliceIndex
<1>2. r.to \in Seq(Contents) /\ Len(r.to) \in Nat
  BY LenProperties DEF Outcomes
<1> QED
  BY <1>1, <1>2, DeleteTyped DEF DelTurn

LEMMA DelSliceChain ==
  ASSUME NEW s \in Seq(Contents), NEW slice \in Slices(Len(s))
  PROVE  \E h \in [0 .. slice.length -> Outcomes] :
           /\ h[0] = Done(s)
           /\ \A i \in 1 .. slice.length : h[i] = DelTurn(slice, i, h[i - 1])
           /\ DelSlice(s, slice) = IF slice.length = Len(s) THEN Done(<<>>) ELSE h[slice.length]
<1> DEFINE n == Len(s)
           l == slice.length
           turn == [i \in 1 .. l |-> [r \in Outcomes |-> DelTurn(slice, i, r)]]
           body(g, i) == CASE i = 0 -> Done(s)
                           [] i > 0 /\ ~g[i - 1].ok -> g[i - 1]
                           [] OTHER -> DeleteFrom(g[i - 1].to, DelSliceIndex(slice, i))
           Loop(g) == g = [i \in 0 .. l |-> body(g, i)]
           del[i \in 0 .. l] == CASE i = 0 -> Done(s)
                                  [] i > 0 /\ ~del[i - 1].ok -> del[i - 1]
                                  [] OTHER -> DeleteFrom(del[i - 1].to, DelSliceIndex(slice, i))
<1>1. n \in Nat /\ l \in Nat
  BY LenProperties, SliceTyped
<1>2. DelSlice(s, slice) = IF l = n THEN Done(<<>>) ELSE del[l]
  BY DEF DelSlice
<1>3. del = CHOOSE g : Loop(g)
  OBVIOUS
<1> HIDE DEF del, l
<1>4. ASSUME NEW g, NEW i \in 1 .. l PROVE body(g, i) = DelTurn(slice, i, g[i - 1])
  BY <1>1 DEF DelTurn
<1>5. ASSUME NEW g PROVE body(g, 0) = Done(s)
  OBVIOUS
<1>6. Done(s) \in Outcomes
  BY DEF Done, Outcomes
<1>7. turn \in [1 .. l -> [Outcomes -> Outcomes]]
  BY <1>1, DelTurnTyped DEF l
<1>8. \A i \in 1 .. l, r \in Outcomes : turn[i][r] = DelTurn(slice, i, r)
  OBVIOUS
<1> HIDE DEF turn, body
<1>9. \E h \in [0 .. l -> Outcomes] : IsChain(h, l, Done(s), turn)
  BY <1>1, <1>6, <1>7, Chain
<1>10. PICK h \in [0 .. l -> Outcomes] : IsChain(h, l, Done(s), turn)
  BY <1>9
<1>11. ASSUME NEW i \in 1 .. l PROVE h[i] = DelTurn(slice, i, h[i - 1])
  <2>1. i - 1 \in 0 .. l
    BY <1>1
  <2> QED
    BY <1>8, <1>10, <2>1 DEF IsChain
<1>12. Loop(h)
  <2>1. ASSUME NEW i \in 0 .. l PROVE h[i] = body(h, i)
    BY <1>1, <1>4, <1>5, <1>10, <1>11 DEF IsChain
  <2> QED
    BY <2>1
<1>13. Loop(del)
  <2> HIDE DEF Loop
  <2> QED
    BY <1>3, <1>12
<1>14. del[0] = Done(s)
  BY <1>1, <1>5, <1>13
<1>15. \A i \in 1 .. l : del[i] = DelTurn(slice, i, del[i - 1])
  BY <1>1, <1>4, <1>13
<1>16. \A i \in 0 .. l : del[i] = h[i]
  <2> DEFINE S == {i \in 0 .. l : del[i] = h[i]}
  <2>1. 0 \in S
    BY <1>1, <1>10, <1>14 DEF IsChain
  <2>2. ASSUME NEW i \in 1 .. l, i - 1 \in S PROVE i \in S
    BY <1>1, <1>11, <1>15, <2>2
  <2> HIDE DEF S
  <2>3. \A i \in 0 .. l : i \in S
    BY <1>1, <2>1, <2>2, UpTo
  <2> QED
    BY <2>3 DEF S
<1>17. h[0] = Done(s) /\ DelSlice(s, slice) = IF l = n THEN Done(<<>>) ELSE h[l]
  BY <1>1, <1>2, <1>10, <1>16 DEF IsChain
<1> HIDE DEF Loop
<1> QED
  BY <1>11, <1>17 DEF l

(* A slice that ends where its last element does is deleted from its end.  *)
LEMMA StepOne ==
  ASSUME NEW s \in Seq(Contents), NEW slice \in Slices(Len(s)), slice.step = 1,
         NEW h \in [0 .. slice.length -> Outcomes], h[0] = Done(s),
         \A i \in 1 .. slice.length : h[i] = DelTurn(slice, i, h[i - 1])
  PROVE  /\ slice.start \in 0 .. Len(s) /\ slice.length \in 0 .. Len(s) - slice.start
         /\ h[slice.length] = Done(Cut(s, slice.start, slice.length))
<1> DEFINE n == Len(s)
           a == slice.start
           z == slice.stop
           l == slice.length
<1>1. /\ n \in Nat /\ a \in 0 .. n /\ z \in 0 .. n
      /\ l = IF a < z THEN z - a ELSE 0
  <2>1. PICK k \in Steps :
          \E aa \in (IF k > 0 THEN 0 .. n ELSE -1 .. n - 1),
             zz \in (IF k > 0 THEN 0 .. n ELSE -1 .. n - 1) :
          slice = [start |-> aa, stop |-> zz, step |-> k, length |-> SliceLength(aa, zz, k)]
    BY DEF Slices
  <2>2. /\ k = 1 /\ a \in 0 .. n /\ z \in 0 .. n
        /\ l = SliceLength(a, z, 1)
    <3>1. k = 1
      BY <2>1
    <3> QED
      BY <2>1, <3>1
  <2>3. n \in Nat
    BY LenProperties
  <2> HIDE DEF a, z, l, n
  <2>4. a < z => z - a - 1 \in Nat /\ (z - a - 1) \div 1 = z - a - 1
    BY <2>2, <2>3
  <2> QED
    BY <2>2, <2>3, <2>4 DEF SliceLength
<1> HIDE DEF a, z, l, n
<1>2. ASSUME NEW i \in 1 .. l, h[i - 1] = Done(Cut(s, z - (i - 1), i - 1))
      PROVE  h[i] = Done(Cut(s, z - i, i))
  <2> DEFINE t == Cut(s, z - (i - 1), i - 1)
  <2>1. /\ i - 1 \in Nat /\ z - i \in Nat /\ (z - i) + (i - 1) + 1 <= n
        /\ (z - i) + 1 = z - (i - 1) /\ (i - 1) + 1 = i
    BY <1>1
  <2>2. t \in Seq(Contents) /\ Len(t) = n - (i - 1)
    <3> DEFINE c == z - (i - 1)
               d == i - 1
    <3>1. c \in 0 .. Len(s) /\ d \in 0 .. Len(s) - c
      BY <1>1, <2>1 DEF n
    <3> HIDE DEF c, d
    <3>2. Cut(s, c, d) \in Seq(Contents) /\ Len(Cut(s, c, d)) = Len(s) - d
      BY <3>1, CutIs
    <3> QED
      BY <3>2 DEF c, d, n
  <2>3. Cut(t, z - i, 1) = Cut(s, z - i, i)
    <3> DEFINE c == z - i
               d == i - 1
    <3>1. c \in Nat /\ d \in Nat /\ c + d + 1 <= Len(s)
      BY <2>1 DEF n
    <3> HIDE DEF c, d
    <3>2. Cut(Cut(s, c + 1, d), c, 1) = Cut(s, c, d + 1)
      BY <3>1, CutAgain
    <3> QED
      BY <2>1, <3>2 DEF c, d
  <2>4. DelSliceIndex(slice, i) = z - i
    <3>1. i * 1 = i
      BY <1>1
    <3> QED
      BY <3>1 DEF DelSliceIndex, z
  <2>5. InRange(z - i, Len(t)) /\ FromEnd(z - i, Len(t)) = z - i
    BY <1>1, <2>1, <2>2 DEF InRange, FromEnd
  <2> HIDE DEF t
  <2>6. DeleteFrom(t, z - i) = Done(Cut(t, z - i, 1))
    <3>1. z - i \in Int
      BY <1>1
    <3> QED
      BY <2>2, <2>5, <3>1, DeleteIs
  <2>7. h[i] = DelTurn(slice, i, h[i - 1])
    BY DEF l
  <2>8. h[i - 1] = Done(t)
    BY <1>2 DEF t
  <2>9. h[i - 1].ok /\ h[i - 1].to = t
    BY <2>8 DEF Done
  <2>10. h[i] = DeleteFrom(t, z - i)
    BY <2>4, <2>7, <2>9 DEF DelTurn
  <2> QED
    BY <2>3, <2>6, <2>10
<1> DEFINE S == {i \in 0 .. l : h[i] = Done(Cut(s, z - i, i))}
<1>3. 0 \in S
  <2>1. z \in 0 .. Len(s) /\ z - 0 = z
    BY <1>1 DEF n
  <2>2. Cut(s, z, 0) = s
    BY <2>1, CutNothing
  <2>3. 0 \in 0 .. l
    BY <1>1
  <2> QED
    BY <2>1, <2>2, <2>3
<1>4. ASSUME NEW i \in 1 .. l, i - 1 \in S PROVE i \in S
  BY <1>1, <1>2, <1>4
<1> HIDE DEF S
<1>5. h[l] = Done(Cut(s, z - l, l))
  <2>1. l \in Nat
    BY <1>1
  <2>2. \A i \in 0 .. l : i \in S
    BY <1>3, <1>4, <2>1, UpTo
  <2> QED
    BY <2>1, <2>2 DEF S
<1>6. l \in 0 .. n - a /\ a \in 0 .. Len(s) /\ z - l \in 0 .. Len(s)
  BY <1>1 DEF n
<1>7. Cut(s, z - l, l) = Cut(s, a, l)
  <2>1. CASE a < z
    <3>1. z - l = a
      BY <1>1, <2>1
    <3> QED
      BY <3>1
  <2>2. CASE ~(a < z)
    <3>1. l = 0
      BY <1>1, <2>2
    <3> QED
      BY <1>6, <3>1, CutNothing
  <2> QED
    BY <2>1, <2>2
<1> QED
  BY <1>5, <1>6, <1>7 DEF a, l, n

(* What deleting a slice makes of a repeated field.                        *)
LEMMA DelSliceIs ==
  ASSUME NEW s \in Seq(Contents), NEW slice \in Slices(Len(s))
  PROVE  LET done == DelSlice(s, slice)
         IN /\ done \in Outcomes
            /\ Len(done.to) <= Len(s)
            /\ done.ok => Len(done.to) = Len(s) - slice.length
            /\ slice.step = 1 => done = Done(Cut(s, slice.start, slice.length))
<1> DEFINE n == Len(s)
           l == slice.length
           done == DelSlice(s, slice)
<1>1. n \in Nat /\ l \in Nat
  BY SliceTyped, LenProperties
<1>2. PICK h \in [0 .. l -> Outcomes] :
        /\ h[0] = Done(s)
        /\ \A i \in 1 .. l : h[i] = DelTurn(slice, i, h[i - 1])
        /\ done = IF l = n THEN Done(<<>>) ELSE h[l]
  BY DelSliceChain
<1> DEFINE S == {i \in 0 .. l : /\ Len(h[i].to) <= n
                                /\ h[i].ok => Len(h[i].to) = n - i}
<1> HIDE DEF done
<1>3. 0 \in S
  BY <1>1, <1>2 DEF Done
<1>4. ASSUME NEW i \in 1 .. l, i - 1 \in S PROVE i \in S
  <2>1. i - 1 \in 0 .. l /\ i \in 0 .. l /\ h[i - 1] \in Outcomes
    BY <1>1, <1>4
  <2>2. /\ h[i] \in Outcomes
        /\ h[i].ok => h[i - 1].ok /\ Len(h[i].to) = Len(h[i - 1].to) - 1
        /\ Len(h[i].to) <= Len(h[i - 1].to)
    BY <1>1, <1>2, <2>1, DelTurnTyped
  <2>3. Len(h[i].to) \in Nat /\ Len(h[i - 1].to) \in Nat
    BY <2>1, <2>2, LenProperties DEF Outcomes
  <2> DEFINE now == Len(h[i].to)
             before == Len(h[i - 1].to)
  <2>4. /\ before <= n /\ (h[i - 1].ok => before = n - (i - 1))
        /\ i \in Int /\ n - (i - 1) = n - i + 1 /\ n - i \in Int
    <3>1. before <= n /\ (h[i - 1].ok => before = n - (i - 1))
      BY <1>4
    <3> HIDE DEF n, l, S, before
    <3>2. i \in Int
      BY <1>1
    <3>3. n - (i - 1) = n - i + 1 /\ n - i \in Int
      BY <1>1, <3>2
    <3> QED
      BY <3>1, <3>2, <3>3
  <2>5. now \in Nat /\ before \in Nat /\ now <= before /\ (h[i].ok => now = before - 1)
    BY <2>2, <2>3
  <2> HIDE DEF n, l, now, before
  <2>6. now <= n /\ (h[i].ok => now = n - i)
    BY <1>1, <2>2, <2>4, <2>5
  <2> QED
    BY <2>1, <2>6 DEF now
<1>5. l \in S
  <2> HIDE DEF S
  <2>1. \A i \in 0 .. l : i \in S
    BY <1>1, <1>3, <1>4, UpTo
  <2> QED
    BY <1>1, <2>1
<1>6. Done(<<>>) \in Outcomes /\ Len(Done(<<>>).to) = 0
  BY EmptySeq DEF Done, Outcomes
<1>7. /\ done \in Outcomes /\ Len(done.to) <= n
      /\ done.ok => Len(done.to) = n - l
  <2>1. CASE l = n
    BY <1>1, <1>2, <1>6, <2>1
  <2>2. CASE l # n
    <3>1. done = h[l] /\ l \in 0 .. l
      BY <1>1, <1>2, <2>2
    <3> QED
      BY <1>5, <3>1
  <2> QED
    BY <2>1, <2>2
<1>8. ASSUME slice.step = 1 PROVE done = Done(Cut(s, slice.start, l))
  <2>1. /\ slice.start \in 0 .. n /\ l \in 0 .. n - slice.start
        /\ h[l] = Done(Cut(s, slice.start, l))
    BY <1>2, <1>8, StepOne
  <2>2. CASE l = n
    <3>1. /\ Cut(s, slice.start, l) \in Seq(Contents)
          /\ Len(Cut(s, slice.start, l)) = n - l
      BY <2>1, CutIs
    <3>2. Len(Cut(s, slice.start, l)) = 0
      BY <1>1, <2>2, <3>1
    <3>3. Cut(s, slice.start, l) = <<>>
      BY <3>1, <3>2, EmptySeq
    <3> QED
      BY <1>2, <2>2, <3>3
  <2>3. CASE l # n
    BY <1>2, <2>1, <2>3
  <2> QED
    BY <2>2, <2>3
<1> QED
  BY <1>7, <1>8 DEF done

-----------------------------------------------------------------------------
(* What is added to a repeated field is contents, wherever it is put.      *)
LEMMA NewIsContents ==
  ASSUME NEW f \in Repeated, NEW v \in PyValues, NewElement(f, v) # Refused
  PROVE  NewElement(f, v) \in Contents
BY FieldAssumption DEF NewElement, Cast, Fields

LEMMA AppendTyped ==
  ASSUME NEW f \in Repeated, NEW s \in Seq(Contents), NEW v \in PyValues
  PROVE  AppendTo(f, s, v) \in Outcomes /\ (~AppendTo(f, s, v).ok => AppendTo(f, s, v).to = s)
<1>1. CASE NewElement(f, v) = Refused
  BY <1>1 DEF AppendTo, Throw, Outcomes
<1>2. CASE NewElement(f, v) # Refused
  <2> DEFINE x == NewElement(f, v)
  <2>1. AppendTo(f, s, v) = Done(Append(s, x))
    BY <1>2 DEF AppendTo
  <2>2. x \in Contents
    BY <1>2, NewIsContents
  <2> HIDE DEF x
  <2>3. Append(s, x) \in Seq(Contents)
    BY <2>2
  <2> QED
    BY <2>1, <2>3 DEF Done, Outcomes
<1> QED
  BY <1>1, <1>2

LEMMA InsertTyped ==
  ASSUME NEW f \in Repeated, NEW s \in Seq(Contents), NEW i \in Int, NEW v \in PyValues
  PROVE  /\ InsertInto(f, s, i, v) \in Outcomes
         /\ ~InsertInto(f, s, i, v).ok => InsertInto(f, s, i, v).to = s
<1>1. CASE NewElement(f, v) = Refused
  <2>1. AppendTo(f, s, v) = Throw(s)
    BY <1>1 DEF AppendTo
  <2>2. InsertInto(f, s, i, v) = Throw(s)
    BY <2>1 DEF InsertInto, Throw
  <2> QED
    BY <2>2 DEF Throw, Outcomes
<1>2. CASE NewElement(f, v) # Refused
  <2> DEFINE x == NewElement(f, v)
             at == ClampIndex(i, Len(s))
  <2>1. InsertInto(f, s, i, v) = Done(Slid(s, x, at))
    BY <1>2, InsertIs
  <2>2. x \in Contents /\ at \in 0 .. Len(s)
    BY <1>2, NewIsContents, ClampInRange, LenProperties
  <2> HIDE DEF x, at
  <2>3. Slid(s, x, at) \in Seq(Contents)
    BY <2>2, SlidTyped
  <2> QED
    BY <2>1, <2>3 DEF Done, Outcomes
<1> QED
  BY <1>1, <1>2

-----------------------------------------------------------------------------
ScalarsTypeOK ==
  /\ single \in [Singular -> Contents]
  /\ outcome \in {"running", "allocating", "returned", "raised"}

ListsTypeOK == list \in [Repeated -> Seq(Contents)]

FieldInv == MapInv /\ CallInv /\ ScalarsTypeOK /\ ListsTypeOK

(* The repeated and the singular fields, and the outcome, are well typed.  *)
RestTypeOK == ScalarsTypeOK /\ ListsTypeOK

LEMMA OneListTyped ==
  ASSUME ListsTypeOK, NEW f \in Repeated, NEW t \in Seq(Contents),
         \/ list' = [list EXCEPT ![f] = t]
         \/ list' = [g \in Repeated |-> IF g = f THEN t ELSE list[g]]
  PROVE  ListsTypeOK'
BY DEF ListsTypeOK

LEMMA SameLists ==
  ASSUME ListsTypeOK, list' = list \/ list' = [g \in Repeated |-> list[g]]
  PROVE  ListsTypeOK'
BY DEF ListsTypeOK

LEMMA EmptyMessageTyped ==
  ASSUME EmptyMessage PROVE ListsTypeOK' /\ single' \in [Singular -> Contents]
<1>1. list' = [f \in Repeated |-> <<>>] /\ single' \in [Singular -> Contents]
  BY FieldAssumption DEF EmptyMessage
<1> QED
  BY <1>1, EmptySeq DEF ListsTypeOK

LEMMA ScalarsKept ==
  ASSUME ScalarsTypeOK, single' = single \/ single' \in [Singular -> Contents],
         outcome' \in {"running", "allocating", "returned", "raised"}
  PROVE  ScalarsTypeOK'
BY DEF ScalarsTypeOK

LEMMA EndedTyped ==
  ASSUME ScalarsTypeOK, NEW ok \in BOOLEAN, EndedBy(ok)
  PROVE  outcome' \in {"running", "allocating", "returned", "raised"}
BY DEF EndedBy, ScalarsTypeOK

(* One method of a repeated field.                                         *)
LEMMA ListNextTyped ==
  ASSUME RestTypeOK, NEW f \in Repeated, ListNext(f) PROVE RestTypeOK'
<1> DEFINE s == list[f]
<1>1. s \in Seq(Contents)
  BY DEF RestTypeOK, ListsTypeOK
<1>2. ASSUME NEW done \in Outcomes, CallOnList(f, done) PROVE RestTypeOK'
  <2>1. /\ done.to \in Seq(Contents) /\ done.ok \in BOOLEAN
        /\ list' = [list EXCEPT ![f] = done.to] /\ EndedBy(done.ok) /\ single' = single
    BY <1>2 DEF CallOnList, Outcomes
  <2>2. outcome' \in {"running", "allocating", "returned", "raised"}
    BY <2>1, EndedTyped DEF RestTypeOK
  <2> QED
    BY <2>1, <2>2, OneListTyped, ScalarsKept DEF RestTypeOK
<1> HIDE DEF s
<1>3. ASSUME NEW v \in PyValues, ListAppend(f, v) PROVE RestTypeOK'
  BY <1>1, <1>2, <1>3, AppendTyped DEF ListAppend, s
<1>4. ASSUME NEW i \in Indices PROVE i \in Int
  BY <1>4, FieldAssumption
<1>5. ASSUME NEW i \in Indices, NEW v \in PyValues, ListInsert(f, i, v) PROVE RestTypeOK'
  BY <1>1, <1>2, <1>4, <1>5, InsertTyped DEF ListInsert, s
<1>6. ASSUME NEW i \in Indices, ListDelItem(f, i) PROVE RestTypeOK'
  BY <1>1, <1>2, <1>4, <1>6, DeleteTyped DEF ListDelItem, s
<1>7. ASSUME NEW i \in Indices, NEW v \in PyValues, ListSetItem(f, i, v) PROVE RestTypeOK'
  BY <1>1, <1>2, <1>4, <1>7, SetElementTyped DEF ListSetItem, s
<1>8. ASSUME NEW a \in Arguments, ListSetSlice(f, a) PROVE RestTypeOK'
  <2>1. PICK slice \in Slices(Len(s)) : CallOnList(f, SetSlice(f, s, slice, a.items))
    BY <1>8 DEF ListSetSlice, s
  <2>2. SetSlice(f, s, slice, a.items) \in Outcomes
    BY <1>1, SetSliceIs, FieldAssumption DEF SetUpTo
  <2> QED
    BY <1>2, <2>1, <2>2
<1>9. CASE ListDelSlice(f)
  <2>1. PICK slice \in Slices(Len(s)) : CallOnList(f, DelSlice(s, slice))
    BY <1>9 DEF ListDelSlice, s
  <2>2. DelSlice(s, slice) \in Outcomes
    BY <1>1, DelSliceIs
  <2> QED
    BY <1>2, <2>1, <2>2
<1>10. CASE ListAdd(f)
  <2>1. ASSUME NEW x \in Contents, CallOnList(f, Done(Append(s, x))) PROVE RestTypeOK'
    <3>1. Append(s, x) \in Seq(Contents)
      BY <1>1
    <3>2. Done(Append(s, x)) \in Outcomes
      BY <3>1 DEF Done, Outcomes
    <3> QED
      BY <1>2, <2>1, <3>2
  <2>2. Throw(s) \in Outcomes
    BY <1>1 DEF Throw, Outcomes
  <2> QED
    BY <1>2, <1>10, <2>1, <2>2 DEF ListAdd, s
<1>11. CASE ListClear(f)
  <2>1. Done(<<>>) \in Outcomes
    BY EmptySeq DEF Done, Outcomes
  <2> QED
    BY <1>2, <1>11, <2>1 DEF ListClear
<1> QED
  BY <1>3, <1>5, <1>6, <1>7, <1>8, <1>9, <1>10, <1>11 DEF ListNext

(* A call on a map, and a step on one, leave the other fields.             *)
LEMMA OthersKept ==
  ASSUME RestTypeOK, UNCHANGED <<single, list>>,
         outcome' \in {"running", "allocating", "returned", "raised"}
  PROVE  RestTypeOK'
BY SameLists, ScalarsKept DEF RestTypeOK

LEMMA MapNextTyped ==
  ASSUME RestTypeOK, NEW f \in Maps, MapNext(f) PROVE RestTypeOK'
<1>1. ASSUME NEW done, done.ok \in BOOLEAN, CallOnMap(f, done) PROVE RestTypeOK'
  <2>1. UNCHANGED <<single, list>> /\ EndedBy(done.ok)
    BY <1>1 DEF CallOnMap
  <2> QED
    BY <1>1, <2>1, EndedTyped, OthersKept DEF RestTypeOK
<1>2. ASSUME NEW jobs, Begin(jobs) PROVE RestTypeOK'
  BY <1>2, OthersKept DEF Begin, message
<1>3. ASSUME NEW k \in PyValues, MapGetItem(f, k) PROVE RestTypeOK'
  <2>1. FindMapPair(f, map[f], k).ok \in BOOLEAN
    BY DEF FindMapPair, Done
  <2> QED
    BY <1>1, <1>2, <1>3, <2>1 DEF MapGetItem
<1>4. ASSUME NEW k \in PyValues, NEW v \in PyValues, MapSetItem(f, k, v) PROVE RestTypeOK'
  <2>1. SetItem(f, map[f], k, v).ok \in BOOLEAN
    BY DEF SetItem, Done, Throw
  <2> QED
    BY <1>1, <1>2, <1>4, <2>1 DEF MapSetItem
<1>5. CASE MapClear(f)
  <2>1. CallOnMap(f, Done(<<>>))
    BY <1>5 DEF MapClear
  <2>2. Done(<<>>).ok \in BOOLEAN
    BY DEF Done
  <2> QED
    BY <1>1, <2>1, <2>2
<1> QED
  BY <1>3, <1>4, <1>5 DEF MapNext

(* The calls on the message: those that are over at once, and the starts.  *)
OtherCalls ==
  \/ \E f \in Repeated \cup Maps, a \in Arguments : Extend(f, a)
  \/ \E f \in Fields, v \in PyValues : ProtoSetField(f, v)
  \/ \E d \in Donors : ProtoCopyFrom(d) \/ PyProtoAllocateAndCopyMessage(d)
  \/ \E kwargs \in Keywords : ProtoInitFields(kwargs)
  \/ \E d \in Donors, kwargs \in Keywords : PyProtoAllocateMessage(d, kwargs)
  \/ Read

LEMMA OtherCallsTyped == ASSUME RestTypeOK, OtherCalls PROVE RestTypeOK'
<1>1. ASSUME NEW ok \in BOOLEAN, EndedBy(ok)
      PROVE  outcome' \in {"running", "allocating", "returned", "raised"}
  BY <1>1, EndedTyped DEF RestTypeOK
<1>2. ASSUME NEW jobs, Begin(jobs) PROVE RestTypeOK'
  BY <1>2, OthersKept DEF Begin, message
<1>3. ASSUME NEW f \in Repeated \cup Maps, NEW a \in Arguments, Extend(f, a) PROVE RestTypeOK'
  <2>1. CASE EndedBy(FALSE) /\ UNCHANGED <<message, call>>
    BY <1>1, <2>1, OthersKept DEF message
  <2> QED
    BY <1>2, <1>3, <2>1 DEF Extend
<1>4. ASSUME NEW f \in Fields, NEW v \in PyValues, ProtoSetField(f, v) PROVE RestTypeOK'
  <2>1. list' = list /\ \E ok \in BOOLEAN : EndedBy(ok)
    BY <1>4 DEF ProtoSetField, Assignable
  <2>2. \/ single' = single
        \/ Cast(f, v) # Refused /\ single' = [single EXCEPT ![f] = Cast(f, v)]
    BY <1>4 DEF ProtoSetField
  <2>3. Cast(f, v) # Refused => Cast(f, v) \in Contents
    BY FieldAssumption DEF Cast
  <2>4. single' \in [Singular -> Contents]
    BY <2>2, <2>3 DEF RestTypeOK, ScalarsTypeOK
  <2> QED
    BY <1>1, <2>1, <2>4, SameLists, ScalarsKept DEF RestTypeOK
<1>5. ASSUME NEW d \in Donors, TakesFields(d) \/ EmptyMessage \/ UNCHANGED message,
             NEW ok \in BOOLEAN, EndedBy(ok)
      PROVE  RestTypeOK'
  <2>1. CASE TakesFields(d)
    <3>1. d.single \in [Singular -> Contents] /\ d.list \in [Repeated -> Seq(Contents)]
      BY FieldAssumption
    <3>2. single' \in [Singular -> Contents] /\ ListsTypeOK'
      BY <2>1, <3>1 DEF TakesFields, ListsTypeOK
    <3> QED
      BY <1>1, <1>5, <3>2, ScalarsKept DEF RestTypeOK
  <2>2. CASE EmptyMessage
    BY <1>1, <1>5, <2>2, EmptyMessageTyped, ScalarsKept DEF RestTypeOK
  <2>3. CASE UNCHANGED message
    BY <1>1, <1>5, <2>3, OthersKept DEF message
  <2> QED
    BY <1>5, <2>1, <2>2, <2>3
<1>6. ASSUME NEW d \in Donors, ProtoCopyFrom(d) \/ PyProtoAllocateAndCopyMessage(d)
      PROVE  RestTypeOK'
  <2>1. EndedBy(CheckType(d) /\ d.serialize = "bytes")
    BY <1>6 DEF ProtoCopyFrom, PyProtoAllocateAndCopyMessage
  <2>2. TakesFields(d) \/ EmptyMessage \/ UNCHANGED message
    BY <1>6 DEF ProtoCopyFrom, PyProtoAllocateAndCopyMessage
  <2>3. (CheckType(d) /\ d.serialize = "bytes") \in BOOLEAN
    BY DEF CheckType
  <2> QED
    BY <1>5, <2>1, <2>2, <2>3
<1>7. ASSUME NEW kwargs \in Keywords, ProtoInitFields(kwargs) PROVE RestTypeOK'
  BY <1>2, <1>7 DEF ProtoInitFields
<1>8. ASSUME NEW d \in Donors, NEW kwargs \in Keywords, PyProtoAllocateMessage(d, kwargs)
      PROVE  RestTypeOK'
  <2>1. EmptyMessage /\ (outcome' = "allocating" \/ EndedBy(FALSE))
    BY <1>8 DEF PyProtoAllocateMessage
  <2> QED
    BY <1>1, <2>1, EmptyMessageTyped, ScalarsKept DEF RestTypeOK
<1>9. CASE Read
  BY <1>1, <1>9, OthersKept DEF Read, message
<1> QED
  BY <1>3, <1>4, <1>6, <1>7, <1>8, <1>9 DEF OtherCalls

-----------------------------------------------------------------------------
(* A step of a call in progress goes on, or abandons it.                   *)
LEMMA AbandonedTyped ==
  ASSUME RestTypeOK, NEW change, AbandonedBy(change), change => UNCHANGED <<single, list>>
  PROVE  RestTypeOK'
<1>1. outcome' = "raised"
  BY DEF AbandonedBy, Abandon
<1>2. CASE EmptyMessage
  BY <1>1, <1>2, EmptyMessageTyped, ScalarsKept DEF RestTypeOK
<1>3. CASE change
  BY <1>1, <1>3, OthersKept
<1> QED
  BY <1>2, <1>3 DEF AbandonedBy

LEMMA PairStepTyped ==
  ASSUME RestTypeOK, PairStep PROVE RestTypeOK'
<1>1. outcome \in {"running", "allocating", "returned", "raised"}
  BY DEF RestTypeOK, ScalarsTypeOK
<1>2. ASSUME outcome' = outcome, UNCHANGED <<single, list>> PROVE RestTypeOK'
  BY <1>1, <1>2, OthersKept
<1>3. CASE FindPair
  <2>1. PICK to : \/ AbandonedBy(ChangeMap1(to))
                  \/ outcome' = outcome /\ ChangeMap1(to)
    BY <1>3 DEF FindPair, Goes
  <2> QED
    BY <1>2, <2>1, AbandonedTyped DEF ChangeMap1
<1>4. CASE SearchPair \/ AddPair \/ GetValue
  BY <1>2, <1>4 DEF SearchPair, AddPair, GetValue, Goes, Continue, ChangeMap1, message
<1>5. CASE SetKey \/ SetValue
  <2>1. CASE AbandonedBy(UNCHANGED message)
    BY <2>1, AbandonedTyped DEF message
  <2>2. CASE outcome' = outcome /\ UNCHANGED <<single, list>>
    BY <1>2, <2>2
  <2> QED
    BY <1>5, <2>1, <2>2 DEF SetKey, SetValue, Goes, Continue, ChangeMap1, message
<1>6. CASE PythonRaises
  BY <1>6, AbandonedTyped DEF PythonRaises, message
<1> QED
  BY <1>3, <1>4, <1>5, <1>6 DEF PairStep

LEMMA StepTyped ==
  ASSUME FieldInv, Step PROVE RestTypeOK'
<1>0. RestTypeOK
  BY DEF FieldInv, RestTypeOK
<1>1. CASE Return
  BY <1>0, <1>1, EndedTyped, OthersKept DEF Return, message, RestTypeOK
<1> SUFFICES ASSUME UnknownField \/ InitSingular \/ InitContainer \/ NextElement
             PROVE  RestTypeOK'
  BY <1>1 DEF Step
<1>2. Job1 \in ToDo
  <2>1. todo # <<>>
    BY DEF UnknownField, InitSingular, InitContainer, NextElement, Busy
  <2>2. todo \in Seq(ToDo)
    BY DEF FieldInv, MapInv, MapTypeOK
  <2> QED
    BY <2>1, <2>2, HeadTailProperties DEF Job1
<1>3. outcome' \in {"running", "allocating", "returned", "raised"}
  <2>1. ASSUME NEW ok, NEW more, NEW change, NextOr(ok, more, change)
        PROVE  outcome' = outcome \/ outcome' = "raised"
    BY <2>1 DEF NextOr, Continue, AbandonedBy, Abandon
  <2>2. outcome' = outcome \/ outcome' = "raised"
    BY <2>1 DEF UnknownField, InitSingular, InitContainer, NextElement
  <2> QED
    BY <2>2 DEF FieldInv, ScalarsTypeOK
<1>4. CASE EmptyMessage
  BY <1>0, <1>3, <1>4, EmptyMessageTyped, ScalarsKept DEF RestTypeOK
<1>5. CASE UnknownField /\ ~EmptyMessage
  BY <1>0, <1>3, <1>5, OthersKept DEF UnknownField, NextOr, AbandonedBy, message
<1>6. CASE InitSingular /\ ~EmptyMessage
  <2> DEFINE f == Job1.field
             x == Cast(f, Job1.items[1].value)
  <2>1. UNCHANGED list /\ f \in Singular
    BY <1>6 DEF InitSingular, NextOr, AbandonedBy
  <2>2. \/ single' = single
        \/ Job1.type = "value" /\ x # Refused /\ single' = [single EXCEPT ![f] = x]
    BY <1>6 DEF InitSingular, NextOr, AbandonedBy
  <2>3. ASSUME Job1.type = "value", x # Refused PROVE x \in Contents
    <3>1. Job1.items \in Seq(Item) /\ Job1.items # <<>>
      BY <1>2, <2>3 DEF ToDo, Job
    <3>2. Len(Job1.items) \in Nat \ {0}
      BY <3>1, EmptySeq
    <3>3. Job1.items[1] \in Item
      BY <3>1, <3>2, ElementOfSeq
    <3> QED
      BY <2>1, <2>3, <3>3, FieldAssumption DEF Cast, Fields, Item
  <2> HIDE DEF f, x
  <2>4. single' \in [Singular -> Contents]
    BY <2>1, <2>2, <2>3 DEF FieldInv, ScalarsTypeOK
  <2> QED
    BY <1>0, <1>3, <2>1, <2>4, SameLists, ScalarsKept DEF RestTypeOK
<1>7. ASSUME NEW f, NEW t, f \in Repeated => t \in Seq(Contents), UNCHANGED single,
             list' = [g \in Repeated |-> IF g = f THEN t ELSE list[g]]
      PROVE  RestTypeOK'
  <2>1. ListsTypeOK'
    BY <1>0, <1>7 DEF RestTypeOK, ListsTypeOK
  <2> QED
    BY <1>0, <1>3, <1>7, <2>1, ScalarsKept DEF RestTypeOK
<1>8. CASE InitContainer /\ ~EmptyMessage
  <2>1. UNCHANGED single /\ list' = [g \in Repeated |-> IF g = Job1.field THEN <<>> ELSE list[g]]
    BY <1>8 DEF InitContainer, NextOr, AbandonedBy
  <2> QED
    BY <1>7, <2>1, EmptySeq
<1>9. CASE NextElement /\ ~EmptyMessage
  <2> DEFINE f == Job1.field
             e == Job1.items[1]
             done == IF f \in Maps THEN SetItem(f, map[f], e.key, e.value)
                     ELSE AppendTo(f, list[f], e.value)
             stored == /\ list' = [g \in Repeated |-> IF g = f THEN done.to ELSE list[g]]
                       /\ map' = [g \in Maps |-> IF g = f THEN done.to ELSE map[g]]
                       /\ UNCHANGED single
  <2>1. Job1.type = "element" /\ NextOr(done.ok, <<>>, stored)
    BY <1>9 DEF NextElement
  <2>2. stored
    <3> HIDE DEF done, stored
    <3> QED
      BY <1>9, <2>1 DEF NextOr, AbandonedBy
  <2>3. ASSUME f \in Repeated PROVE done.to \in Seq(Contents)
    <3>1. f \notin Maps
      BY <2>3, FieldAssumption
    <3>2. Job1.items \in Seq(Item) /\ Job1.items # <<>>
      BY <1>2, <2>1 DEF ToDo, Job
    <3>3. Len(Job1.items) \in Nat \ {0}
      BY <3>2, EmptySeq
    <3>4. e \in Item
      BY <3>2, <3>3, ElementOfSeq
    <3> HIDE DEF f, e
    <3>5. list[f] \in Seq(Contents) /\ e.value \in PyValues
      BY <2>3, <3>4 DEF FieldInv, ListsTypeOK, Item
    <3>6. AppendTo(f, list[f], e.value) \in Outcomes
      BY <2>3, <3>5, AppendTyped
    <3> QED
      BY <3>1, <3>6 DEF Outcomes
  <2> HIDE DEF done, f
  <2>4. list' = [g \in Repeated |-> IF g = f THEN done.to ELSE list[g]] /\ UNCHANGED single
    BY <2>2
  <2> QED
    BY <1>7, <2>3, <2>4
<1> QED
  BY <1>4, <1>5, <1>6, <1>8, <1>9

-----------------------------------------------------------------------------
LEMMA FieldNext == FieldInv /\ [Next]_vars => FieldInv'
<1> SUFFICES ASSUME FieldInv, [Next]_vars PROVE FieldInv'
  OBVIOUS
<1>1. MapInv' /\ CallInv'
  BY NextInv, CallNext DEF FieldInv
<1>2. RestTypeOK
  BY DEF FieldInv, RestTypeOK
<1>3. CASE UNCHANGED vars
  <2>1. UNCHANGED <<single, list, outcome>>
    BY <1>3 DEF vars, message
  <2>2. outcome' \in {"running", "allocating", "returned", "raised"}
    BY <1>2, <2>1 DEF RestTypeOK, ScalarsTypeOK
  <2>3. RestTypeOK'
    BY <1>2, <2>1, <2>2, OthersKept
  <2> QED
    BY <1>1, <2>3 DEF FieldInv, RestTypeOK
<1>4. CASE Next
  <2>1. ASSUME NEW f \in Repeated, ListNext(f) PROVE RestTypeOK'
    BY <1>2, <2>1, ListNextTyped
  <2>2. ASSUME NEW f \in Maps, MapNext(f) PROVE RestTypeOK'
    BY <1>2, <2>2, MapNextTyped
  <2>3. ASSUME Step PROVE RestTypeOK'
    BY <2>3, StepTyped
  <2>4. ASSUME PairStep PROVE RestTypeOK'
    BY <1>2, <2>4, PairStepTyped
  <2>5. \/ \E f \in Repeated : ListNext(f)
        \/ \E f \in Maps : MapNext(f)
        \/ OtherCalls
        \/ Step
        \/ PairStep
    BY <1>4 DEF Next, OtherCalls
  <2>6. RestTypeOK'
    BY <1>2, <2>1, <2>2, <2>3, <2>4, <2>5, OtherCallsTyped
  <2> QED
    BY <1>1, <2>6 DEF FieldInv, RestTypeOK
<1> QED
  BY <1>3, <1>4

LEMMA FieldInit == Init => FieldInv
<1> SUFFICES ASSUME Init PROVE FieldInv
  OBVIOUS
<1>1. list = [f \in Repeated |-> <<>>] /\ <<>> \in Seq(Contents)
  BY EmptySeq DEF Init
<1>2. ListsTypeOK
  BY <1>1 DEF ListsTypeOK
<1> QED
  BY <1>2, InitInv, FieldAssumption DEF Init, FieldInv, ScalarsTypeOK

LEMMA FieldInvariant == Spec => []FieldInv
BY FieldInit, FieldNext, PTL DEF Spec

(* The message and the call in progress keep their types: what conversions,*)
(* loops and copies put into a field is always contents.                   *)
THEOREM FieldsTyped == Spec => []TypeOK
<1>1. FieldInv => TypeOK
  <2> SUFFICES ASSUME FieldInv PROVE TypeOK
    OBVIOUS
  <2>1. todo \in Seq(ToDo) /\ ToDo \subseteq Job
    BY DEF FieldInv, MapInv, MapTypeOK, ToDo
  <2>2. todo \in Seq(Job)
    BY <2>1, SeqMonotonic
  <2> QED
    BY <2>2 DEF FieldInv, ScalarsTypeOK, ListsTypeOK, MapInv, MapTypeOK, PairTyped, TypeOK
<1> QED
  BY <1>1, FieldInvariant, PTL

(* Insert, an append and swaps, and Delete, swaps and RemoveLast, do what  *)
(* Python's list does, for fields of any length and any index.             *)
THEOREM InsertAndDelete == Spec => []ElementsLikeList
<1>1. FieldInv => ElementsLikeList
  <2> SUFFICES ASSUME FieldInv, NEW f \in Repeated, NEW i \in Indices
               PROVE  LET s == list[f]
                          at == IF i < 0 THEN Len(s) + i ELSE i
                          deleted == DeleteFrom(s, i)
                      IN /\ \A v \in PyValues : InsertInto(f, s, i, v).ok =>
                              InsertInto(f, s, i, v).to = ListInsertAt(s, i, NewElement(f, v))
                         /\ IF at \in 0 .. Len(s) - 1
                            THEN deleted = Done(SubSeq(s, 1, at) \o SubSeq(s, at + 2, Len(s)))
                            ELSE deleted = Throw(s)
    BY DEF ElementsLikeList
  <2> DEFINE s == list[f]
             n == Len(s)
             at == IF i < 0 THEN n + i ELSE i
  <2>1. s \in Seq(Contents) /\ i \in Int /\ n \in Nat
    BY FieldAssumption, LenProperties DEF FieldInv, ListsTypeOK
  <2>2. ASSUME NEW v \in PyValues, InsertInto(f, s, i, v).ok
        PROVE  InsertInto(f, s, i, v).to = ListInsertAt(s, i, NewElement(f, v))
    <3> DEFINE x == NewElement(f, v)
    <3>1. x # Refused
      BY <2>2 DEF InsertInto, AppendTo, Throw
    <3>2. x \in Contents
      BY <3>1, NewIsContents
    <3>3. InsertInto(f, s, i, v) = Done(Slid(s, x, ClampIndex(i, n)))
      BY <2>1, <3>1, InsertIs
    <3>4. ListInsertAt(s, i, x) = Slid(s, x, ClampIndex(i, n))
      BY <2>1, <3>2, InsertAtIs
    <3> HIDE DEF x
    <3>5. Done(Slid(s, x, ClampIndex(i, n))).to = Slid(s, x, ClampIndex(i, n))
      BY DEF Done
    <3> QED
      BY <3>3, <3>4, <3>5 DEF x
  <2>3. at = FromEnd(i, n)
    BY <2>1 DEF FromEnd
  <2> HIDE DEF s
  <2>4. CASE at \in 0 .. n - 1
    <3>1. DeleteFrom(s, i) = Done(Cut(s, at, 1))
      BY <2>1, <2>3, <2>4, DeleteIs DEF InRange
    <3>2. at + 1 + 1 = at + 2
      BY <2>4
    <3>3. Cut(s, at, 1) = SubSeq(s, 1, at) \o SubSeq(s, at + 2, n)
      BY <3>2 DEF Cut
    <3> QED
      BY <2>2, <2>4, <3>1, <3>3 DEF s
  <2>5. CASE at \notin 0 .. n - 1
    <3>1. DeleteFrom(s, i) = Throw(s)
      BY <2>3, <2>5 DEF DeleteFrom, InRange
    <3> QED
      BY <2>2, <2>5, <3>1 DEF s
  <2> QED
    BY <2>4, <2>5
<1> QED
  BY <1>1, FieldInvariant, PTL

(* Deleting a slice of consecutive elements removes these and no others;   *)
(* any other slice that goes through, as many as it has; and an assignment *)
(* to a slice is read back from it and leaves the rest.                    *)
THEOREM SlicesOfLists == Spec => []SlicesLikeList
<1>1. FieldInv => SlicesLikeList
  <2> SUFFICES ASSUME FieldInv, NEW f \in Repeated, NEW slice \in Slices(Len(list[f]))
               PROVE  LET s == list[f]
                          n == Len(s)
                          deleted == DelSlice(s, slice)
                      IN /\ slice.step = 1 =>
                              deleted = Done(SubSeq(s, 1, slice.start)
                                             \o SubSeq(s, slice.start + slice.length + 1, n))
                         /\ deleted.ok => Len(deleted.to) = n - slice.length
                         /\ \A a \in {b \in Arguments : b.type = "sequence"} :
                              LET set == SetSlice(f, s, slice, a.items)
                              IN set.ok =>
                                   /\ GetSlice(set.to, slice)
                                        = [i \in 1 .. slice.length |-> Cast(f, a.items[i].value)]
                                   /\ \A i \in 1 .. n :
                                        set.to[i] = s[i] \/ \E j \in 0 .. slice.length - 1 :
                                                              i = slice.start + j * slice.step + 1
    BY DEF SlicesLikeList
  <2> DEFINE s == list[f]
             n == Len(s)
             l == slice.length
  <2>1. s \in Seq(Contents) /\ n \in Nat
    BY LenProperties DEF FieldInv, ListsTypeOK
  <2>2. /\ DelSlice(s, slice).ok => Len(DelSlice(s, slice).to) = n - l
        /\ slice.step = 1 => DelSlice(s, slice) = Done(Cut(s, slice.start, l))
    BY <2>1, DelSliceIs
  <2>3. ASSUME NEW a \in Arguments, SetSlice(f, s, slice, a.items).ok
        PROVE  LET set == SetSlice(f, s, slice, a.items)
               IN /\ GetSlice(set.to, slice) = [i \in 1 .. l |-> Cast(f, a.items[i].value)]
                  /\ \A i \in 1 .. n : set.to[i] = s[i] \/ \E j \in 0 .. l - 1 :
                                                            i = slice.start + j * slice.step + 1
    <3> DEFINE set == SetSlice(f, s, slice, a.items)
    <3>1. a.items \in Seq(Item) /\ l \in Nat
      BY <2>1, SliceTyped, FieldAssumption
    <3>2. SetUpTo(f, s, slice, a.items, l, set)
      BY <2>1, <3>1, SetSliceIs
    <3> HIDE DEF set, s
    <3>3. AllGood(f, a.items, l)
      BY <2>3, <3>2 DEF SetUpTo, set
    <3>4. ASSUME NEW j \in 1 .. l PROVE set.to[Place(slice, j)] = Cast(f, a.items[j].value)
      <4>1. AllGood(f, a.items, j) /\ j <= l
        BY <3>1, <3>3 DEF AllGood
      <4> QED
        BY <3>2, <4>1 DEF SetUpTo
    <3>5. GetSlice(set.to, slice) = [i \in 1 .. l |-> Cast(f, a.items[i].value)]
      BY <3>4 DEF GetSlice, Place
    <3>6. ASSUME NEW i \in 1 .. n, set.to[i] # s[i]
          PROVE  \E j \in 0 .. l - 1 : i = slice.start + j * slice.step + 1
      <4>1. PICK j \in 1 .. l : i = Place(slice, j)
        BY <3>2, <3>6 DEF SetUpTo
      <4>2. j - 1 \in 0 .. l - 1
        BY <3>1
      <4> QED
        BY <4>1, <4>2 DEF Place
    <3> QED
      BY <3>5, <3>6 DEF set
  <2> QED
    BY <2>2, <2>3 DEF Cut
<1> QED
  BY <1>1, FieldInvariant, PTL

(* A call on one element that throws changes nothing, an assignment to a   *)
(* slice stops at the bad value, and a map keeps the entries it had.       *)
THEOREM FailedCalls == Spec => []FailuresKeepElements
<1>1. ASSUME FieldInv, NEW f \in Repeated, NEW i \in Indices, NEW v \in PyValues,
             NEW done \in {AppendTo(f, list[f], v), InsertInto(f, list[f], i, v),
                           SetElement(f, list[f], i, v)},
             ~done.ok
      PROVE  done.to = list[f]
  <2>1. list[f] \in Seq(Contents) /\ i \in Int
    BY <1>1, FieldAssumption DEF FieldInv, ListsTypeOK
  <2> QED
    BY <1>1, <2>1, AppendTyped, InsertTyped, SetElementTyped
<1>2. ASSUME FieldInv, NEW f \in Repeated, NEW a \in Arguments,
             NEW slice \in Slices(Len(list[f]))
      PROVE  LET set == SetSlice(f, list[f], slice, a.items)
                 bad == {i \in 1 .. slice.length :
                           i > Len(a.items) \/ Cast(f, a.items[i].value) = Refused}
             IN /\ set.ok <=> bad = {}
                /\ \A i \in 1 .. slice.length : (\E b \in bad : b <= i) =>
                     GetSlice(set.to, slice)[i] = GetSlice(list[f], slice)[i]
  <2> DEFINE s == list[f]
             l == slice.length
             set == SetSlice(f, s, slice, a.items)
             bad == {i \in 1 .. l : i > Len(a.items) \/ Cast(f, a.items[i].value) = Refused}
  <2>1. s \in Seq(Contents) /\ a.items \in Seq(Item) /\ l \in Nat /\ Len(a.items) \in Nat
    BY <1>2, SliceTyped, FieldAssumption, LenProperties DEF FieldInv, ListsTypeOK
  <2>2. SetUpTo(f, s, slice, a.items, l, set)
    BY <2>1, SetSliceIs
  <2>3. \A i \in 1 .. l : i \in bad <=> ~Good(f, a.items, i)
    BY <2>1 DEF Good
  <2> HIDE DEF s, set
  <2>4. bad \subseteq 1 .. l
    OBVIOUS
  <2> HIDE DEF bad
  <2>5. set.ok <=> bad = {}
    BY <2>2, <2>3, <2>4 DEF SetUpTo, AllGood
  <2>6. ASSUME NEW i \in 1 .. l, NEW b \in bad, b <= i
        PROVE  GetSlice(set.to, slice)[i] = GetSlice(s, slice)[i]
    <3>1. b \in 1 .. i /\ ~Good(f, a.items, b)
      BY <2>3, <2>4, <2>6
    <3>2. ~AllGood(f, a.items, i)
      BY <3>1 DEF AllGood
    <3>3. set.to[Place(slice, i)] = s[Place(slice, i)]
      BY <2>2, <3>2 DEF SetUpTo
    <3> QED
      BY <3>3 DEF GetSlice, Place
  <2> QED
    BY <2>5, <2>6 DEF bad, set, s
<1>3. ASSUME NEW f \in Maps, NEW k \in PyValues \ Calling,
             NEW v \in PyValues \ Calling, FieldInv, ~SetItem(f, map[f], k, v).ok
      PROVE  \/ SetItem(f, map[f], k, v).to = map[f]
             \/ \E x \in Contents :
                  SetItem(f, map[f], k, v).to = Append(map[f], [key |-> x, value |-> Default])
  <2> DEFINE m == map[f]
             found == FindMapPair(f, m, k)
  <2>1. SetItem(f, m, k, v).to = found.to
    BY <1>3 DEF SetItem, Done, Throw
  <2>2. \/ found.to = m
        \/ found.to = Append(m, [key |-> NewKey(f, k), value |-> Default])
    BY DEF FindMapPair, Done
  <2>3. NewKey(f, k) \in Contents
    BY FieldAssumption DEF NewKey
  <2> HIDE DEF found
  <2> QED
    BY <2>1, <2>2, <2>3
<1>4. FieldInv => FailuresKeepElements
  BY <1>1, <1>2, <1>3 DEF FailuresKeepElements
<1> QED
  BY <1>4, FieldInvariant, PTL
=============================================================================
