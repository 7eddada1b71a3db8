------------------------ MODULE TaskBrokerInvariant ------------------------
(***************************************************************************)
(* The inductive invariant of TaskBroker, for any number of runners,       *)
(* requests, slots and offers.                                             *)
(*                                                                         *)
(* Offers and requests stand in lists, and messages in queues; the broker  *)
(* visits its lists in loops.  The first part is about what the loops pick *)
(* out of a list; it argues from the least position at which they would go *)
(* wrong.  The second part is about what queues hold.  The third is the    *)
(* invariant: whoever made an offer, it is matched once, and a message on  *)
(* its way speaks of an offer of its runner that has come as far as the    *)
(* message says.  Ages is what no step undoes: it is why a message stays   *)
(* true while it is on its way, however late it arrives.                   *)
(***************************************************************************)
EXTENDS TaskBroker, FiniteSetTheorems, WellFoundedInduction, TLAPS

\* A set of numbers has a least member: what the induction below rests on.
LEMMA LeastMember ==
  ASSUME NEW T, T \subseteq Nat, T # {}
  PROVE  \E n \in T : \A m \in T : n <= m
<1>1. IsWellFoundedOn({p \in Nat \X Nat : p[1] < p[2]}, Nat)
  BY NatLessThanWellFounded, Zenon DEF OpToRel
<1>2. PICK n \in T : \A m \in T : <<m, n>> \notin {p \in Nat \X Nat : p[1] < p[2]}
  BY <1>1, WFMin
<1>3. ASSUME NEW m \in T, m < n PROVE FALSE
  <2>1. <<m, n>> \in Nat \X Nat /\ <<m, n>>[1] < <<m, n>>[2]
    BY <1>3
  <2>. QED
    BY <2>1, <1>2
<1>. QED
  BY <1>3

\* The loop that visits positions, up to the position n.
Picks(f, s, P, n) ==
  f = [i \in 0..n |-> IF i = 0 THEN <<>>
                      ELSE IF i \in P THEN Append(f[i - 1], s[i]) ELSE f[i - 1]]

LEMMA PicksExist ==
  ASSUME NEW s, NEW P, NEW n \in Nat
  PROVE  \E f : Picks(f, s, P, n)
<1>. DEFINE Without == {m \in Nat : ~ \E f : Picks(f, s, P, m)}
<1>1. SUFFICES ASSUME Without # {} PROVE FALSE
  OBVIOUS
<1>2. PICK m \in Without : \A k \in Without : m <= k
  BY <1>1, LeastMember
<1>3. CASE m = 0
  <2>1. Picks([i \in 0..0 |-> <<>>], s, P, 0)
    BY DEF Picks
  <2>. QED
    BY <1>3, <2>1
<1>4. CASE m # 0
  <2>1. m - 1 \in Nat /\ m - 1 \notin Without
    BY <1>2, <1>4
  <2>2. PICK f : Picks(f, s, P, m - 1)
    BY <2>1
  <2>. DEFINE last == IF m \in P THEN Append(f[m - 1], s[m]) ELSE f[m - 1]
              g == [i \in 0..m |-> IF i = m THEN last ELSE f[i]]
  <2>3. \A i \in 0..(m - 1) : g[i] = f[i]
    BY <1>4, <2>1
  <2>4. g[m] = last
    BY <2>1
  <2>5. \A i \in 0..(m - 1) : f[i] = IF i = 0 THEN <<>>
                    ELSE IF i \in P THEN Append(f[i - 1], s[i]) ELSE f[i - 1]
    BY <2>2 DEF Picks
  <2>6. \A i \in 0..m : g[i] = IF i = 0 THEN <<>>
                    ELSE IF i \in P THEN Append(g[i - 1], s[i]) ELSE g[i - 1]
    <3>. TAKE i \in 0..m
    <3>1. CASE i = m
      BY <3>1, <1>4, <2>1, <2>3, <2>4
    <3>2. CASE i # m
      <4>1. i \in 0..(m - 1) /\ (i # 0 => i - 1 \in 0..(m - 1))
        BY <3>2, <2>1
      <4>. QED
        BY <4>1, <2>3, <2>5
    <3>. QED
      BY <3>1, <3>2
  <2>7. DOMAIN g = 0..m /\ g = [i \in DOMAIN g |-> g[i]]
    OBVIOUS
  <2>8. Picks(g, s, P, m)
    <3>. HIDE DEF g
    <3>. QED
      BY <2>6, <2>7 DEF Picks
  <2>. QED
    BY <2>8
<1>. QED
  BY <1>3, <1>4

LEMMA ElementsAtPicks ==
  ASSUME NEW s, Len(s) \in Nat, NEW P
  PROVE  \E f : Picks(f, s, P, Len(s)) /\ ElementsAt(s, P) = f[Len(s)]
<1>. DEFINE f == CHOOSE f : Picks(f, s, P, Len(s))
<1>1. Picks(f, s, P, Len(s))
  BY PicksExist
<1>2. ElementsAt(s, P) = f[Len(s)]
  BY Zenon DEF ElementsAt, Picks
<1>. QED
  BY <1>1, <1>2

\* pos are the positions in P, up to the position n, of the elements of t, which
\* are elements of s.
Picked(t, pos, s, P, n) ==
  /\ pos \in [1..Len(t) -> P \cap 1..n]
  /\ \A k \in 1..Len(t) : t[k] = s[pos[k]]
  /\ \A k, l \in 1..Len(t) : pos[k] = pos[l] => k = l
  /\ \A i \in P \cap 1..n : \E k \in 1..Len(t) : pos[k] = i

LEMMA PicksArePicked ==
  ASSUME NEW S, NEW s \in Seq(S), NEW P, NEW f, Picks(f, s, P, Len(s))
  PROVE  \A n \in 0..Len(s) : f[n] \in Seq(S) /\ \E pos : Picked(f[n], pos, s, P, n)
<1>. DEFINE Good(n) == f[n] \in Seq(S) /\ \E pos : Picked(f[n], pos, s, P, n)
            Bad == {n \in 0..Len(s) : ~Good(n)}
<1>1. SUFFICES ASSUME Bad # {} PROVE FALSE
  OBVIOUS
<1>2. PICK n \in Bad : \A k \in Bad : n <= k
  <2>1. Bad \subseteq Nat
    OBVIOUS
  <2>. QED
    BY <1>1, <2>1, LeastMember
<1>3. n \in 0..Len(s)
  OBVIOUS
<1>4. f[n] = IF n = 0 THEN <<>>
             ELSE IF n \in P THEN Append(f[n - 1], s[n]) ELSE f[n - 1]
  BY <1>3 DEF Picks
<1>5. CASE n = 0
  <2>1. Picked(<<>>, [k \in 1..0 |-> 0], s, P, 0)
    BY DEF Picked
  <2>2. f[0] = <<>> /\ <<>> \in Seq(S)
    BY <1>4, <1>5
  <2>. QED
    BY <1>5, <2>1, <2>2
<1>6. CASE n # 0
  <2>1. n - 1 \in 0..Len(s) /\ n - 1 \notin Bad /\ n \in 1..Len(s)
    BY <1>2, <1>3, <1>6
  <2>2. f[n - 1] \in Seq(S)
    BY <2>1
  <2>3. PICK pos : Picked(f[n - 1], pos, s, P, n - 1)
    BY <2>1
  <2>4. CASE n \notin P
    <3>1. P \cap 1..n = P \cap 1..(n - 1)
      BY <2>1, <2>4
    <3>2. Picked(f[n], pos, s, P, n)
      BY <1>4, <1>6, <2>3, <2>4, <3>1 DEF Picked
    <3>. QED
      BY <1>2, <1>4, <1>6, <2>2, <2>4, <3>2
  <2>5. CASE n \in P
    <3>. DEFINE t == f[n - 1]
                u == f[n]
                new == [k \in 1..(Len(t) + 1) |-> IF k = Len(t) + 1 THEN n ELSE pos[k]]
    <3>1. u = Append(t, s[n]) /\ s[n] \in S
      BY <1>4, <1>6, <2>1, <2>5
    <3>2. /\ u \in Seq(S) /\ Len(t) \in Nat /\ Len(u) = Len(t) + 1
          /\ u[Len(t) + 1] = s[n]
          /\ \A k \in 1..Len(t) : u[k] = t[k]
      BY <2>2, <3>1
    <3>3. /\ \A k \in 1..Len(t) : new[k] = pos[k] /\ pos[k] \in P \cap 1..(n - 1)
          /\ new[Len(t) + 1] = n
          /\ new = [k \in 1..Len(u) |-> new[k]]
      <4>1. \A k \in 1..Len(t) : pos[k] \in P \cap 1..(n - 1)
        BY <2>3 DEF Picked
      <4>2. \A k \in 1..Len(t) : k \in 1..(Len(t) + 1) /\ k # Len(t) + 1
        BY <3>2
      <4>3. Len(t) + 1 \in 1..(Len(t) + 1)
        BY <3>2
      <4>. HIDE DEF t, u
      <4>. QED
        BY <3>2, <4>1, <4>2, <4>3
    <3>. HIDE DEF t, u, new
    <3>4. \A k \in 1..Len(t) : new[k] \in P /\ new[k] \in 1..n /\ new[k] # n
      <4>1. n \in Nat /\ \A i \in 1..(n - 1) : i \in 1..n /\ i # n
        BY <2>1
      <4>. QED
        BY <3>3, <4>1
    <3>5. \A k \in 1..Len(u) : k \in 1..Len(t) \/ k = Len(t) + 1
      BY <3>2
    <3>6. \A k \in 1..Len(t) : k \in 1..Len(u)
      BY <3>2
    <3>7. new \in [1..Len(u) -> P \cap 1..n]
      <4>1. \A k \in 1..Len(u) : new[k] \in P \cap 1..n
        <5>1. n \in P \cap 1..n
          BY <2>1, <2>5
        <5>2. new[Len(t) + 1] \in P \cap 1..n
          BY <3>3, <5>1
        <5>. QED
          BY <3>4, <3>5, <5>2
      <4>. QED
        BY <3>3, <4>1
    <3>8. \A k \in 1..Len(u) : u[k] = s[new[k]]
      <4>1. \A k \in 1..Len(t) : t[k] = s[pos[k]]
        BY <2>3 DEF Picked, t
      <4>. QED
        BY <3>2, <3>3, <3>5, <4>1
    <3>9. \A k, l \in 1..Len(u) : new[k] = new[l] => k = l
      <4>. SUFFICES ASSUME NEW k \in 1..Len(u), NEW l \in 1..Len(u), new[k] = new[l]
                    PROVE  k = l
        OBVIOUS
      <4>1. \A i, j \in 1..Len(t) : pos[i] = pos[j] => i = j
        BY <2>3 DEF Picked, t
      <4>. QED
        BY <3>3, <3>4, <3>5, <4>1
    <3>10. \A i \in P \cap 1..n : \E k \in 1..Len(u) : new[k] = i
      <4>. TAKE i \in P \cap 1..n
      <4>1. CASE i = n
        BY <3>2, <3>3, <4>1
      <4>2. CASE i # n
        <5>1. i \in P \cap 1..(n - 1)
          BY <2>1, <4>2
        <5>2. PICK k \in 1..Len(t) : pos[k] = i
          BY <2>3, <5>1 DEF Picked, t
        <5>. QED
          BY <3>3, <3>6, <5>2
      <4>. QED
        BY <4>1, <4>2
    <3>11. Picked(u, new, s, P, n)
      <4>. QED
        BY <3>7, <3>8, <3>9, <3>10 DEF Picked
    <3>. QED
      BY <1>2, <3>2, <3>11 DEF u
  <2>. QED
    BY <2>4, <2>5
<1>. QED
  BY <1>5, <1>6

\* The elements at some positions: each position has its element, and each element
\* its position.
LEMMA ElementsAtPicked ==
  ASSUME NEW S, NEW s \in Seq(S), NEW P
  PROVE  /\ ElementsAt(s, P) \in Seq(S)
         /\ \E pos : Picked(ElementsAt(s, P), pos, s, P, Len(s))
<1>1. Len(s) \in Nat
  OBVIOUS
<1>. QED
  BY <1>1, ElementsAtPicks, PicksArePicked

-----------------------------------------------------------------------------
(* Sequences *)

\* No element of s is there twice.
Once(s) == \A i, j \in 1..Len(s) : s[i] = s[j] => i = j

\* What filter() leaves.
LEMMA ElementsInProperties ==
  ASSUME NEW S, NEW s \in Seq(S), NEW T
  PROVE  /\ ElementsIn(s, T) \in Seq(S)
         /\ \A e : Contains(ElementsIn(s, T), e) <=> Contains(s, e) /\ e \in T
         /\ Once(s) => Once(ElementsIn(s, T))
<1>. DEFINE P == {i \in 1..Len(s) : s[i] \in T}
            t == ElementsAt(s, P)
<1>1. t \in Seq(S)
  BY ElementsAtPicked
<1>2. PICK pos : Picked(t, pos, s, P, Len(s))
  BY ElementsAtPicked
<1>3. Len(t) \in Nat /\ Len(s) \in Nat
  BY <1>1
<1>. HIDE DEF t
<1>4. /\ \A k \in 1..Len(t) : pos[k] \in 1..Len(s) /\ s[pos[k]] \in T /\ t[k] = s[pos[k]]
      /\ \A k, l \in 1..Len(t) : pos[k] = pos[l] => k = l
      /\ \A i \in 1..Len(s) : s[i] \in T => \E k \in 1..Len(t) : pos[k] = i
  BY <1>2 DEF Picked
<1>5. \A e : Contains(t, e) <=> Contains(s, e) /\ e \in T
  BY <1>4 DEF Contains
<1>6. ASSUME Once(s) PROVE Once(t)
  <2>. SUFFICES ASSUME NEW k \in 1..Len(t), NEW l \in 1..Len(t), t[k] = t[l]
                PROVE  k = l
    BY DEF Once
  <2>1. pos[k] \in 1..Len(s) /\ pos[l] \in 1..Len(s) /\ s[pos[k]] = s[pos[l]]
    BY <1>4
  <2>2. pos[k] = pos[l]
    BY <1>6, <2>1 DEF Once
  <2>. QED
    BY <1>4, <2>2
<1>. QED
  BY <1>1, <1>5, <1>6 DEF t, ElementsIn

\* The requests that may get an offer.
LEMMA UnmatchedProperties ==
  ASSUME NEW requests \in Seq(Request)
  PROVE  /\ Unmatched(requests) \in Seq(Request)
         /\ \A q : Contains(Unmatched(requests), q) => Contains(requests, q) /\ ~inProgress[q]
         /\ Once(Unmatched(requests))
<1>. DEFINE P == {i \in 1..Len(requests) :
                    /\ ~inProgress[requests[i]]
                    /\ \A j \in 1..(i - 1) : requests[j] # requests[i]}
            t == ElementsAt(requests, P)
<1>1. t \in Seq(Request)
  BY ElementsAtPicked
<1>2. PICK pos : Picked(t, pos, requests, P, Len(requests))
  BY ElementsAtPicked
<1>3. Len(t) \in Nat /\ Len(requests) \in Nat
  BY <1>1
<1>. HIDE DEF t
<1>4. /\ \A k \in 1..Len(t) : /\ pos[k] \in 1..Len(requests) /\ t[k] = requests[pos[k]]
                              /\ ~inProgress[t[k]]
                              /\ \A j \in 1..(pos[k] - 1) : requests[j] # t[k]
      /\ \A k, l \in 1..Len(t) : pos[k] = pos[l] => k = l
  BY <1>2 DEF Picked
<1>5. \A q : Contains(t, q) => Contains(requests, q) /\ ~inProgress[q]
  BY <1>4 DEF Contains
<1>6. Once(t)
  <2>. SUFFICES ASSUME NEW k \in 1..Len(t), NEW l \in 1..Len(t), t[k] = t[l]
                PROVE  k = l
    BY DEF Once
  <2>1. pos[k] \in Nat /\ pos[l] \in Nat /\ pos[k] >= 1 /\ pos[l] >= 1
    BY <1>3, <1>4
  <2>2. ~(pos[k] < pos[l]) /\ ~(pos[l] < pos[k])
    <3>1. pos[k] < pos[l] => pos[k] \in 1..(pos[l] - 1)
      BY <2>1
    <3>2. pos[l] < pos[k] => pos[l] \in 1..(pos[k] - 1)
      BY <2>1
    <3>. QED
      BY <1>4, <3>1, <3>2
  <2>. QED
    BY <1>4, <2>1, <2>2
<1>. QED
  BY <1>1, <1>5, <1>6 DEF t, Unmatched

\* The first of the elements that are equal to e goes.
LEMMA RemoveFirstProperties ==
  ASSUME NEW S, NEW s \in Seq(S), NEW e
  PROVE  /\ RemoveFirst(s, e) \in Seq(S)
         /\ \A x : Contains(RemoveFirst(s, e), x) => Contains(s, x)
         /\ \A x : Contains(s, x) /\ x # e => Contains(RemoveFirst(s, e), x)
         /\ Once(s) => Once(RemoveFirst(s, e)) /\ ~Contains(RemoveFirst(s, e), e)
<1>1. CASE ~ \E i \in 1..Len(s) : s[i] = e
  BY <1>1 DEF RemoveFirst, Contains
<1>2. CASE \E i \in 1..Len(s) : s[i] = e
  <2>. DEFINE I == {i \in 1..Len(s) : s[i] = e}
              i == Min(I)
              t == RemoveAt(s, i)
  <2>1. I # {} /\ I \subseteq Nat
    BY <1>2
  <2>2. \E x \in I : \A y \in I : x <= y
    BY <2>1, LeastMember
  <2>3. i \in I
    BY <2>2 DEF Min
  <2>4. i \in 1..Len(s) /\ s[i] = e
    BY <2>3
  <2>5. RemoveFirst(s, e) = t
    BY <1>2, <2>1, Zenon DEF RemoveFirst, SelectInSeq
  <2>. HIDE DEF i, I
  <2>6. /\ t \in Seq(S) /\ Len(s) \in Nat /\ Len(t) = Len(s) - 1
        /\ \A k \in 1..Len(t) : t[k] = IF k < i THEN s[k] ELSE s[k + 1]
    <3>1. SubSeq(s, 1, i - 1) \in Seq(S) /\ Len(SubSeq(s, 1, i - 1)) = i - 1
      BY <2>4
    <3>2. SubSeq(s, i + 1, Len(s)) \in Seq(S) /\ Len(SubSeq(s, i + 1, Len(s))) = Len(s) - i
      BY <2>4
    <3>3. \A k \in 1..(i - 1) : SubSeq(s, 1, i - 1)[k] = s[k]
      BY <2>4
    <3>4. \A k \in 1..(Len(s) - i) : SubSeq(s, i + 1, Len(s))[k] = s[k + i]
      BY <2>4
    <3>. DEFINE u == SubSeq(s, 1, i - 1)
                v == SubSeq(s, i + 1, Len(s))
    <3>5. t = u \o v /\ Len(s) \in Nat /\ i \in 1..Len(s)
      BY <2>4 DEF RemoveAt, t
    <3>. HIDE DEF u, v, t
    <3>6. u \in Seq(S) /\ v \in Seq(S) /\ Len(u) = i - 1 /\ Len(v) = Len(s) - i
      BY <3>1, <3>2 DEF u, v
    <3>7. t \in Seq(S) /\ Len(t) = Len(s) - 1
      BY <3>5, <3>6
    <3>8. /\ \A k \in 1..Len(u) : t[k] = u[k]
          /\ \A k \in (Len(u) + 1)..Len(t) : t[k] = v[k - Len(u)]
      BY <3>5, <3>6
    <3>. SUFFICES ASSUME NEW k \in 1..Len(t)
                  PROVE  t[k] = IF k < i THEN s[k] ELSE s[k + 1]
      BY <3>5, <3>7
    <3>9. CASE k < i
      <4>1. k \in 1..(i - 1) /\ t[k] = u[k]
        BY <3>5, <3>9, <3>6, <3>8
      <4>. QED
        BY <3>3, <3>9, <4>1 DEF u
    <3>10. CASE ~(k < i)
      <4>1. k - (i - 1) \in 1..(Len(s) - i) /\ t[k] = v[k - (i - 1)]
        BY <3>5, <3>7, <3>10, <3>6, <3>8
      <4>2. (k - (i - 1)) + i = k + 1
        BY <3>5, <3>7
      <4>. QED
        BY <3>4, <3>10, <4>1, <4>2 DEF v
    <3>. QED
      BY <3>9, <3>10
  <2>. HIDE DEF t
  <2>7. \A x : Contains(t, x) => Contains(s, x)
    BY <2>4, <2>6 DEF Contains
  <2>8. ASSUME NEW x, Contains(s, x), x # e PROVE Contains(t, x)
    <3>1. PICK k \in 1..Len(s) : s[k] = x
      BY <2>8 DEF Contains
    <3>2. k # i
      BY <2>4, <2>8, <3>1
    <3>3. CASE k < i
      <4>1. k \in 1..Len(t) /\ t[k] = x
        BY <2>4, <2>6, <3>1, <3>3
      <4>. QED
        BY <4>1 DEF Contains
    <3>4. CASE k > i
      <4>1. k - 1 \in 1..Len(t) /\ ~(k - 1 < i) /\ (k - 1) + 1 = k
        BY <2>4, <2>6, <3>1, <3>4
      <4>2. t[k - 1] = x
        BY <2>6, <3>1, <4>1
      <4>. QED
        BY <4>1, <4>2 DEF Contains
    <3>. QED
      BY <2>4, <3>2, <3>3, <3>4
  <2>9. ASSUME Once(s) PROVE Once(t) /\ ~Contains(t, e)
    <3>. DEFINE at(k) == IF k < i THEN k ELSE k + 1
    <3>1. \A k \in 1..Len(t) : at(k) \in 1..Len(s) /\ at(k) # i /\ t[k] = s[at(k)]
      BY <2>4, <2>6
    <3>2. \A k, l \in 1..Len(t) : at(k) = at(l) => k = l
      BY <2>4, <2>6
    <3>. HIDE DEF at
    <3>3. Once(t)
      BY <2>9, <3>1, <3>2 DEF Once
    <3>4. ~Contains(t, e)
      BY <2>4, <2>9, <3>1 DEF Once, Contains
    <3>. QED
      BY <3>3, <3>4
  <2>. QED
    BY <2>5, <2>6, <2>7, <2>8, <2>9
<1>. QED
  BY <1>1, <1>2

\* What a sequence holds, and how that changes.
LEMMA Elements ==
  ASSUME NEW S, NEW s \in Seq(S)
  PROVE  /\ ToSet(s) = {s[i] : i \in 1..Len(s)} /\ ToSet(s) \subseteq S
         /\ \A e : Contains(s, e) <=> e \in ToSet(s)
  BY DEF ToSet, Contains

LEMMA FewElements ==
  /\ ToSet(<<>>) = {}
  /\ \A S : \A e \in S : <<e>> \in Seq(S) /\ ToSet(<<e>>) = {e}
  BY DEF ToSet

LEMMA ConcatElements ==
  ASSUME NEW S, NEW s \in Seq(S), NEW t \in Seq(S)
  PROVE  s \o t \in Seq(S) /\ ToSet(s \o t) = ToSet(s) \cup ToSet(t)
<1>. DEFINE u == s \o t
<1>1. /\ u \in Seq(S) /\ Len(u) = Len(s) + Len(t) /\ Len(s) \in Nat /\ Len(t) \in Nat
      /\ \A i \in 1..Len(s) : u[i] = s[i]
      /\ \A i \in 1..Len(t) : u[i + Len(s)] = t[i]
  OBVIOUS
<1>. HIDE DEF u
<1>2. ASSUME NEW i \in 1..Len(u) PROVE u[i] \in ToSet(s) \cup ToSet(t)
  <2>1. CASE i \in 1..Len(s)
    BY <1>1, <2>1, Elements
  <2>2. CASE i \notin 1..Len(s)
    <3>1. i - Len(s) \in 1..Len(t) /\ (i - Len(s)) + Len(s) = i
      BY <1>1, <2>2
    <3>2. u[i] = t[i - Len(s)]
      BY <1>1, <3>1
    <3>. QED
      BY <3>1, <3>2, Elements
  <2>. QED
    BY <2>1, <2>2
<1>3. \A i \in 1..Len(s) : i \in 1..Len(u) /\ u[i] = s[i]
  BY <1>1
<1>4. \A i \in 1..Len(t) : i + Len(s) \in 1..Len(u) /\ u[i + Len(s)] = t[i]
  BY <1>1
<1>5. ToSet(s) = {s[i] : i \in 1..Len(s)} /\ ToSet(t) = {t[i] : i \in 1..Len(t)}
  BY Elements
<1>6. ToSet(u) = {u[i] : i \in 1..Len(u)}
  BY <1>1, Elements
<1>7. ToSet(u) = ToSet(s) \cup ToSet(t)
  <2>1. ToSet(u) \subseteq ToSet(s) \cup ToSet(t)
    BY <1>2, <1>6
  <2>2. ToSet(s) \subseteq ToSet(u)
    BY <1>3, <1>5, <1>6
  <2>3. ToSet(t) \subseteq ToSet(u)
    BY <1>4, <1>5, <1>6
  <2>. QED
    BY <2>1, <2>2, <2>3
<1>. QED
  BY <1>1, <1>7 DEF u

LEMMA AppendElements ==
  ASSUME NEW S, NEW s \in Seq(S), NEW e \in S
  PROVE  /\ Append(s, e) \in Seq(S)
         /\ ToSet(Append(s, e)) = ToSet(s) \cup {e}
         /\ \A x : Contains(Append(s, e), x) <=> Contains(s, x) \/ x = e
         /\ Once(s) /\ e \notin ToSet(s) => Once(Append(s, e))
<1>. DEFINE u == Append(s, e)
<1>1. /\ u \in Seq(S) /\ Len(u) = Len(s) + 1 /\ Len(s) \in Nat
      /\ \A i \in 1..Len(s) : i \in 1..Len(u) /\ u[i] = s[i]
      /\ u[Len(s) + 1] = e
  OBVIOUS
<1>. HIDE DEF u
<1>2. /\ Len(s) + 1 \in 1..Len(u)
      /\ \A i \in 1..Len(u) : i \in 1..Len(s) \/ i = Len(s) + 1
  BY <1>1
<1>3. ToSet(s) = {s[i] : i \in 1..Len(s)} /\ ToSet(u) = {u[i] : i \in 1..Len(u)}
  BY <1>1, Elements
<1>4. ToSet(u) = ToSet(s) \cup {e}
  BY <1>1, <1>2, <1>3
<1>5. Once(s) /\ e \notin ToSet(s) => Once(u)
  BY <1>1, <1>2, <1>3 DEF Once
<1>6. \A x : Contains(u, x) <=> Contains(s, x) \/ x = e
  <2>1. \A x : Contains(u, x) <=> x \in ToSet(u)
    BY <1>1, Elements
  <2>2. \A x : Contains(s, x) <=> x \in ToSet(s)
    BY Elements
  <2>. QED
    BY <1>4, <2>1, <2>2
<1>. QED
  BY <1>1, <1>4, <1>5, <1>6 DEF u

\* The messages of M that are in the queue are there once.
OncePer(queue, M) == \A i, j \in 1..Len(queue) : queue[i] \in M /\ queue[i] = queue[j] => i = j

LEMMA TailElements ==
  ASSUME NEW S, NEW s \in Seq(S), s # <<>>, NEW M
  PROVE  /\ Head(s) \in S /\ Tail(s) \in Seq(S)
         /\ ToSet(s) = {Head(s)} \cup ToSet(Tail(s))
         /\ OncePer(s, M) => /\ OncePer(Tail(s), M)
                             /\ Head(s) \in M => Head(s) \notin ToSet(Tail(s))
<1>. DEFINE t == Tail(s)
<1>1. /\ t \in Seq(S) /\ Len(t) = Len(s) - 1 /\ Len(s) \in Nat /\ Len(s) > 0
      /\ Head(s) = s[1] /\ 1 \in 1..Len(s) /\ s[1] \in S
      /\ \A i \in 1..Len(t) : t[i] = s[i + 1]
  OBVIOUS
<1>. HIDE DEF t
<1>2. /\ \A i \in 1..Len(t) : i + 1 \in 1..Len(s) /\ i + 1 # 1
      /\ \A i \in 1..Len(s) : i = 1 \/ (i - 1 \in 1..Len(t) /\ (i - 1) + 1 = i)
      /\ \A i, j \in 1..Len(t) : i + 1 = j + 1 => i = j
  BY <1>1
<1>3. ToSet(s) = {s[i] : i \in 1..Len(s)} /\ ToSet(t) = {t[i] : i \in 1..Len(t)}
  BY <1>1, Elements
<1>4. ToSet(s) = {Head(s)} \cup ToSet(t)
  <2>1. \A i \in 1..Len(s) : s[i] = Head(s) \/ s[i] \in ToSet(t)
    <3>. TAKE i \in 1..Len(s)
    <3>1. CASE i # 1
      <4>1. t[i - 1] = s[i]
        BY <1>1, <1>2, <3>1
      <4>. QED
        BY <1>2, <1>3, <3>1, <4>1
    <3>. QED
      BY <1>1, <3>1
  <2>2. \A i \in 1..Len(t) : t[i] \in ToSet(s)
    BY <1>1, <1>2, <1>3
  <2>. QED
    BY <1>1, <1>3, <2>1, <2>2
<1>5. ASSUME OncePer(s, M) PROVE OncePer(t, M)
  <2>. SUFFICES ASSUME NEW i \in 1..Len(t), NEW j \in 1..Len(t), t[i] \in M, t[i] = t[j]
                PROVE  i = j
    BY DEF OncePer
  <2>1. s[i + 1] \in M /\ s[i + 1] = s[j + 1]
    BY <1>1
  <2>2. i + 1 = j + 1
    BY <1>2, <1>5, <2>1 DEF OncePer
  <2>. QED
    BY <1>2, <2>2
<1>6. ASSUME OncePer(s, M), Head(s) \in M, Head(s) \in ToSet(t) PROVE FALSE
  <2>1. PICK i \in 1..Len(t) : t[i] = Head(s)
    BY <1>3, <1>6
  <2>2. s[i + 1] = s[1] /\ s[1] \in M
    BY <1>1, <1>6, <2>1
  <2>. QED
    BY <1>1, <1>2, <1>6, <2>2 DEF OncePer
<1>. QED
  BY <1>1, <1>4, <1>5, <1>6 DEF t

LEMMA ConcatOncePer ==
  ASSUME NEW S, NEW s \in Seq(S), NEW t \in Seq(S), NEW M,
         OncePer(s, M), OncePer(t, M), ToSet(s) \cap ToSet(t) \cap M = {}
  PROVE  OncePer(s \o t, M)
<1>. DEFINE u == s \o t
<1>1. /\ u \in Seq(S) /\ Len(u) = Len(s) + Len(t) /\ Len(s) \in Nat /\ Len(t) \in Nat
      /\ \A i \in 1..Len(s) : u[i] = s[i]
      /\ \A i \in (Len(s) + 1)..Len(u) : u[i] = t[i - Len(s)]
  OBVIOUS
<1>. HIDE DEF u
<1>2. /\ \A i \in 1..Len(u) : i \in 1..Len(s) \/ i \in (Len(s) + 1)..Len(u)
      /\ \A i \in (Len(s) + 1)..Len(u) : i - Len(s) \in 1..Len(t)
      /\ \A i, j \in (Len(s) + 1)..Len(u) : i - Len(s) = j - Len(s) => i = j
  BY <1>1
<1>3. ToSet(s) = {s[i] : i \in 1..Len(s)} /\ ToSet(t) = {t[i] : i \in 1..Len(t)}
  BY Elements
<1>. SUFFICES ASSUME NEW i \in 1..Len(u), NEW j \in 1..Len(u), u[i] \in M, u[i] = u[j]
              PROVE  i = j
  BY DEF OncePer, u
<1>4. CASE i \in 1..Len(s) /\ j \in 1..Len(s)
  BY <1>1, <1>4 DEF OncePer
<1>5. CASE i \in (Len(s) + 1)..Len(u) /\ j \in (Len(s) + 1)..Len(u)
  <2>1. t[i - Len(s)] \in M /\ t[i - Len(s)] = t[j - Len(s)]
    BY <1>1, <1>5
  <2>2. i - Len(s) = j - Len(s)
    BY <1>2, <1>5, <2>1 DEF OncePer
  <2>. QED
    BY <1>2, <1>5, <2>2
<1>6. CASE i \in 1..Len(s) /\ j \in (Len(s) + 1)..Len(u)
  <2>1. u[i] \in ToSet(s) /\ u[j] \in ToSet(t)
    BY <1>1, <1>2, <1>3, <1>6
  <2>. QED
    BY <2>1
<1>7. CASE j \in 1..Len(s) /\ i \in (Len(s) + 1)..Len(u)
  <2>1. u[j] \in ToSet(s) /\ u[i] \in ToSet(t)
    BY <1>1, <1>2, <1>3, <1>7
  <2>. QED
    BY <2>1
<1>. QED
  BY <1>2, <1>4, <1>5, <1>6, <1>7

\* A part of a sequence without repetitions has none, and the parts are apart.
LEMMA SplitOnce ==
  ASSUME NEW S, NEW s \in Seq(S), Once(s), NEW n \in 0..Len(s)
  PROVE  LET front == SubSeq(s, 1, n)
             rest  == SubSeq(s, n + 1, Len(s))
         IN /\ front \in Seq(S) /\ rest \in Seq(S)
            /\ Len(front) = n /\ \A i \in 1..n : front[i] = s[i]
            /\ Once(front) /\ Once(rest)
            /\ ToSet(front) \subseteq ToSet(s) /\ ToSet(rest) \subseteq ToSet(s)
            /\ ToSet(front) \cap ToSet(rest) = {}
<1>. DEFINE front == SubSeq(s, 1, n)
            rest  == SubSeq(s, n + 1, Len(s))
<1>1. /\ front \in Seq(S) /\ Len(front) = n /\ n \in Nat /\ Len(s) \in Nat /\ n <= Len(s)
      /\ \A i \in 1..n : front[i] = s[i]
  OBVIOUS
<1>2. /\ rest \in Seq(S) /\ Len(rest) = Len(s) - n
      /\ \A i \in 1..(Len(s) - n) : rest[i] = s[i + n]
  OBVIOUS
<1>. HIDE DEF front, rest
<1>3. /\ \A i \in 1..n : i \in 1..Len(s)
      /\ \A i \in 1..Len(rest) : i + n \in 1..Len(s) /\ i + n \notin 1..n
      /\ \A i, j \in 1..Len(rest) : i + n = j + n => i = j
  BY <1>1, <1>2
<1>4. /\ ToSet(s) = {s[i] : i \in 1..Len(s)}
      /\ ToSet(front) = {front[i] : i \in 1..n}
      /\ ToSet(rest) = {rest[i] : i \in 1..Len(rest)}
  <2>1. ToSet(s) = {s[i] : i \in 1..Len(s)}
    BY Elements
  <2>2. ToSet(front) = {front[i] : i \in 1..n}
    BY <1>1, Elements
  <2>3. ToSet(rest) = {rest[i] : i \in 1..Len(rest)}
    BY <1>2, Elements
  <2>. QED
    BY <2>1, <2>2, <2>3
<1>5. Once(front)
  BY <1>1, <1>3 DEF Once
<1>6. Once(rest)
  <2>. SUFFICES ASSUME NEW i \in 1..Len(rest), NEW j \in 1..Len(rest), rest[i] = rest[j]
                PROVE  i = j
    BY DEF Once
  <2>1. s[i + n] = s[j + n]
    BY <1>2
  <2>. QED
    BY <1>3, <2>1 DEF Once
<1>7. ToSet(front) \subseteq ToSet(s)
  BY <1>1, <1>3, <1>4
<1>8. ToSet(rest) \subseteq ToSet(s)
  BY <1>2, <1>3, <1>4
<1>9. ASSUME NEW e, e \in ToSet(front), e \in ToSet(rest) PROVE FALSE
  <2>1. PICK i \in 1..n : front[i] = e
    BY <1>4, <1>9
  <2>2. PICK j \in 1..Len(rest) : rest[j] = e
    BY <1>4, <1>9
  <2>3. s[i] = s[j + n]
    BY <1>1, <1>2, <2>1, <2>2
  <2>4. i = j + n
    BY <1>3, <2>3 DEF Once
  <2>. QED
    BY <1>3, <2>4
<1>. QED
  BY <1>1, <1>2, <1>5, <1>6, <1>7, <1>8, <1>9 DEF front, rest

-----------------------------------------------------------------------------
(* The invariant *)

Answering == {"taskaccepted", "taskrejected", "taskdeferred"}
Ending == {"taskdone", "taskerror"}

\* An offer has a maker from when it is made, and stands in the runner's list until
\* it is taken; a task has been taken, matched and accepted.
MadeInv ==
  \A o \in Offer :
    /\ maker[o] = None <=> o > made
    /\ handshake[o] = "none" => status[o] = "none"
    /\ handshake[o] # "none" => matched[o] \in Request /\ maker[o] \in Runner
    /\ o \in tasks \cup taskTimer \cup taskAcceptRejects =>
         handshake[o] = "closed" /\ status[o] # "none"
    /\ \A r \in Runner : o \in openOffers[r] => maker[o] = r /\ status[o] = "none"

\* The broker lists offers of the runners it knows, each once, and takes no offer
\* twice: one that has been matched has left the list.
ListInv ==
  /\ Once(offers)
  /\ \A o \in ToSet(offers) : handshake[o] = "none" /\ maker[o] \in knownRunners

\* A message from runner r speaks of an offer that r has made, and only of a task
\* that the broker has asked for.
FromOK(m, r, mk, hs, st) ==
  /\ m.type \in {"info", "taskoffer"} \cup Answering \cup Ending
  /\ m.type # "info" => m.offer \in Offer /\ mk[m.offer] = r
  /\ m.type \in Answering \cup Ending => hs[m.offer] # "none"
  /\ m.type = "taskaccepted" => st[m.offer] # "none"
  /\ m.type \in Ending => st[m.offer] \in {"ended", "dropped"}
  /\ m.type = "taskdone" => st[m.offer] = "ended"

\* A message to runner r speaks of an offer of r that was taken; it is cancelled or
\* gets its settings only after r has accepted it.
ToOK(m, r, mk, hs, st) ==
  /\ m.type \in {"taskofferaccept", "taskcancel", "tasksettings"} =>
       m.offer \in Offer /\ mk[m.offer] = r /\ hs[m.offer] # "none"
  /\ m.type \in {"taskcancel", "tasksettings"} => st[m.offer] # "none"

MessageInv ==
  \A r \in Runner :
    /\ \A m \in ToSet(toBroker[r]) : FromOK(m, r, maker, handshake, status)
    /\ \A m \in ToSet(toRunner[r]) : ToOK(m, r, maker, handshake, status)

Offering == {m \in Messages : m.type = "taskoffer"}

\* An offer arrives once, and nobody has taken it before.
OfferedInv ==
  \A r \in Runner :
    /\ OncePer(toBroker[r], Offering)
    /\ \A m \in ToSet(toBroker[r]) \cap Offering :
         handshake[m.offer] = "none" /\ m.offer \notin ToSet(offers)

BrokerInv == TypeOK /\ MadeInv /\ ListInv /\ MessageInv /\ OfferedInv

\* What a step may not undo: an offer keeps its maker, what was taken was taken, and
\* what is over is over.
Ages ==
  \A o \in Offer :
    /\ maker[o] # None => maker'[o] = maker[o]
    /\ handshake[o] # "none" => handshake'[o] # "none"
    /\ status[o] # "none" => status'[o] # "none"
    /\ status[o] \in {"ended", "dropped"} => status'[o] = status[o]

USE DEF brokerVars, requesterVars, runnerVars, linkVars

LEMMA MessageTypes ==
  /\ \A type \in MessageType, o \in Offer : Message(type, o) \in Messages
  /\ \A type \in MessageType : Signal(type) \in Messages
  /\ \A type, o : Message(type, o).type = type /\ Message(type, o).offer = o
  /\ \A type : Signal(type).type = type
  /\ \A m \in Messages : m = Message(m.type, m.offer)
  BY BrokerAssumption DEF Messages, Message, Signal, Offer

\* What was true of a message is true as long as it is on its way.
LEMMA MessagesAge ==
  ASSUME TypeOK, Ages, NEW r \in Runner, NEW m
  PROVE  /\ FromOK(m, r, maker, handshake, status)
              => FromOK(m, r, maker', handshake', status')
         /\ ToOK(m, r, maker, handshake, status)
              => ToOK(m, r, maker', handshake', status')
<1>1. None # r
  BY BrokerAssumption
<1>2. ASSUME FromOK(m, r, maker, handshake, status)
      PROVE  FromOK(m, r, maker', handshake', status')
  <2>1. m.type # "info" =>
          /\ m.offer \in Offer /\ maker'[m.offer] = r
          /\ handshake[m.offer] # "none" => handshake'[m.offer] # "none"
          /\ status[m.offer] # "none" => status'[m.offer] # "none"
          /\ status[m.offer] \in {"ended", "dropped"} => status'[m.offer] = status[m.offer]
    BY <1>1, <1>2 DEF FromOK, Ages
  <2>2. "info" \notin Answering \cup Ending \cup {"taskaccepted", "taskdone"}
    BY DEF Answering, Ending
  <2>. QED
    BY <1>2, <2>1, <2>2 DEF FromOK
<1>3. ASSUME ToOK(m, r, maker, handshake, status)
      PROVE  ToOK(m, r, maker', handshake', status')
  <2>1. m.type \in {"taskofferaccept", "taskcancel", "tasksettings"} =>
          /\ m.offer \in Offer /\ maker'[m.offer] = r
          /\ handshake'[m.offer] # "none"
          /\ status[m.offer] # "none" => status'[m.offer] # "none"
    BY <1>1, <1>3 DEF ToOK, Ages
  <2>. QED
    BY <1>3, <2>1 DEF ToOK
<1>. QED
  BY <1>2, <1>3

LEMMA MessagesKept ==
  ASSUME TypeOK, MessageInv, Ages,
         \A r \in Runner :
           /\ \A m \in ToSet(toBroker'[r]) :
                \/ m \in ToSet(toBroker[r])
                \/ FromOK(m, r, maker, handshake, status)
                \/ FromOK(m, r, maker', handshake', status')
           /\ \A m \in ToSet(toRunner'[r]) :
                \/ m \in ToSet(toRunner[r])
                \/ ToOK(m, r, maker, handshake, status)
                \/ ToOK(m, r, maker', handshake', status')
  PROVE  MessageInv'
  BY MessagesAge DEF MessageInv

LEMMA OfferedKept ==
  ASSUME OfferedInv, MessageInv,
         ToSet(offers') \subseteq ToSet(offers),
         \A o \in Offer : handshake[o] = "none" => handshake'[o] = "none" \/ o \in ToSet(offers),
         \A r \in Runner :
           /\ OncePer(toBroker'[r], Offering)
           /\ \A m \in ToSet(toBroker'[r]) \cap Offering : m \in ToSet(toBroker[r])
  PROVE  OfferedInv'
<1>1. \A r \in Runner : \A m \in ToSet(toBroker[r]) \cap Offering : m.offer \in Offer
  BY DEF MessageInv, FromOK, Offering
<1>. QED
  BY <1>1 DEF OfferedInv

-----------------------------------------------------------------------------
(* Connections *)

LEMMA Sent ==
  ASSUME TypeOK, NEW r \in Runner, NEW ms \in Seq(Messages), Send(r, ms)
  PROVE  /\ toRunner' \in [Runner -> Seq(Messages)]
         /\ \A x \in Runner : x # r => toRunner'[x] = toRunner[x]
         /\ ToSet(toRunner'[r]) \subseteq ToSet(toRunner[r]) \cup ToSet(ms)
         /\ link[r] = "open" => toRunner'[r] = toRunner[r] \o ms
  BY ConcatElements DEF TypeOK, Send

LEMMA Replied ==
  ASSUME TypeOK, NEW r \in Runner, NEW ms \in Seq(Messages), Reply(r, ms)
  PROVE  /\ toBroker' \in [Runner -> Seq(Messages)]
         /\ \A x \in Runner : x # r => toBroker'[x] = toBroker[x]
         /\ ToSet(toBroker'[r]) \subseteq ToSet(toBroker[r]) \cup ToSet(ms)
         /\ \A M : OncePer(toBroker[r], M) /\ OncePer(ms, M)
                   /\ ToSet(toBroker[r]) \cap ToSet(ms) \cap M = {}
                   => OncePer(toBroker'[r], M)
         /\ toBroker'[r] = IF link[r] = "open" THEN toBroker[r] \o ms ELSE toBroker[r]
  BY ConcatElements, ConcatOncePer DEF TypeOK, Reply

LEMMA Popped ==
  ASSUME TypeOK, NEW r \in Runner, toBroker[r] # <<>>, PopFromRunner(r)
  PROVE  /\ toBroker' \in [Runner -> Seq(Messages)]
         /\ Head(toBroker[r]) \in Messages
         /\ Head(toBroker[r]) \in ToSet(toBroker[r])
         /\ \A x \in Runner : ToSet(toBroker'[x]) \subseteq ToSet(toBroker[x])
         /\ \A x \in Runner : \A M : OncePer(toBroker[x], M) => OncePer(toBroker'[x], M)
         /\ \A M : OncePer(toBroker[r], M) /\ Head(toBroker[r]) \in M
                   => Head(toBroker[r]) \notin ToSet(toBroker'[r])
<1>1. toBroker[r] \in Seq(Messages)
  BY DEF TypeOK
<1>2. /\ toBroker' = [toBroker EXCEPT ![r] = Tail(@)]
      /\ toBroker \in [Runner -> Seq(Messages)]
  BY DEF PopFromRunner, TypeOK
<1>3. toBroker'[r] = Tail(toBroker[r]) /\ \A x \in Runner : x # r => toBroker'[x] = toBroker[x]
  BY <1>2
<1>. QED
  BY <1>1, <1>2, <1>3, TailElements

LEMMA PoppedToRunner ==
  ASSUME TypeOK, NEW r \in Runner, toRunner[r] # <<>>, PopFromBroker(r)
  PROVE  /\ toRunner' \in [Runner -> Seq(Messages)]
         /\ Head(toRunner[r]) \in Messages
         /\ Head(toRunner[r]) \in ToSet(toRunner[r])
         /\ toRunner'[r] = Tail(toRunner[r])
         /\ \A x \in Runner : x # r => toRunner'[x] = toRunner[x]
         /\ \A x \in Runner : ToSet(toRunner'[x]) \subseteq ToSet(toRunner[x])
<1>1. toRunner[r] \in Seq(Messages)
  BY DEF TypeOK
<1>2. /\ toRunner' = [toRunner EXCEPT ![r] = Tail(@)]
      /\ toRunner \in [Runner -> Seq(Messages)]
  BY DEF PopFromBroker, TypeOK
<1>3. toRunner'[r] = Tail(toRunner[r]) /\ \A x \in Runner : x # r => toRunner'[x] = toRunner[x]
  BY <1>2
<1>. QED
  BY <1>1, <1>2, <1>3, TailElements

-----------------------------------------------------------------------------
(* Matching *)

\* What settleTasks() does: the offers in T are taken, offer o for request pick[o],
\* and accepts are the messages to their runners.
Settles(requests, offered, T, pick, accepts) ==
  /\ T \subseteq ToSet(offered) /\ pick \in [T -> Request]
  /\ \A o \in T : pick[o] \in ToSet(requests) /\ ~inProgress[pick[o]]
  /\ \A o1, o2 \in T : pick[o1] = pick[o2] => o1 = o2
  /\ offers' \in Seq(Offer) /\ Once(offers')
  /\ ToSet(offers') \subseteq ToSet(offered) \ T
  /\ inProgress' = [q \in Request |-> inProgress[q] \/ \E o \in T : pick[o] = q]
  /\ handshake' = [o \in Offer |-> IF o \in T THEN "open" ELSE handshake[o]]
  /\ matched' = [o \in Offer |-> IF o \in T THEN pick[o] ELSE matched[o]]
  /\ accepts \in [Runner -> Seq(Messages)]
  /\ toRunner' = [r \in Runner |-> toRunner[r] \o accepts[r]]
  /\ \A r \in Runner : \A m \in ToSet(accepts[r]) :
       /\ m.type = "taskofferaccept" /\ m.offer \in T
       /\ maker[m.offer] = r /\ link[r] = "open"

LEMMA SettleTasksSettles ==
  ASSUME TypeOK, NEW requests \in Seq(Request), NEW offered \in Seq(Offer),
         Once(offered), SettleTasks(requests, offered)
  PROVE  \E T, pick, accepts : Settles(requests, offered, T, pick, accepts)
<1>1. PICK expired \in SUBSET {o \in ToSet(offered) : maker[o] \notin Launcher} :
        LET live  == ElementsIn(offered, Offer \ expired)
            free  == Unmatched(requests)
            n     == IF Len(live) < Len(free) THEN Len(live) ELSE Len(free)
            taken == SubSeq(live, 1, n)
            AcceptsTo(r) == ElementsIn(taken, {o \in Offer : maker[o] = r /\ link[r] = "open"})
        IN /\ offers' = SubSeq(live, n + 1, Len(live))
           /\ inProgress' = [q \in Request |-> inProgress[q] \/ \E i \in 1..n : free[i] = q]
           /\ handshake' = [o \in Offer |-> IF Contains(taken, o) THEN "open" ELSE handshake[o]]
           /\ matched' = [o \in Offer |-> IF Contains(taken, o)
                                          THEN free[CHOOSE i \in 1..n : taken[i] = o]
                                          ELSE matched[o]]
           /\ toRunner' = [r \in Runner |->
                toRunner[r] \o [i \in DOMAIN AcceptsTo(r) |->
                                  Message("taskofferaccept", AcceptsTo(r)[i])]]
  BY Zenon DEF SettleTasks
<1>. DEFINE live  == ElementsIn(offered, Offer \ expired)
            free  == Unmatched(requests)
            n     == IF Len(live) < Len(free) THEN Len(live) ELSE Len(free)
            taken == SubSeq(live, 1, n)
            rest  == SubSeq(live, n + 1, Len(live))
            AcceptsTo(r) == ElementsIn(taken, {o \in Offer : maker[o] = r /\ link[r] = "open"})
            at(o) == CHOOSE i \in 1..n : taken[i] = o
            T == ToSet(taken)
            pick == [o \in T |-> free[at(o)]]
            accepts == [r \in Runner |-> [i \in DOMAIN AcceptsTo(r) |->
                                            Message("taskofferaccept", AcceptsTo(r)[i])]]
<1>2. /\ live \in Seq(Offer) /\ Once(live) /\ ToSet(live) \subseteq ToSet(offered)
      /\ Len(live) \in Nat
  <2>1. live \in Seq(Offer) /\ Once(live)
    BY ElementsInProperties
  <2>2. \A o : Contains(live, o) => Contains(offered, o)
    BY ElementsInProperties
  <2>. HIDE DEF live
  <2>. QED
    BY <2>1, <2>2, Elements
<1>3. /\ free \in Seq(Request) /\ Once(free) /\ Len(free) \in Nat
      /\ \A i \in 1..Len(free) : free[i] \in ToSet(requests) /\ ~inProgress[free[i]]
  <2>1. free \in Seq(Request) /\ Once(free)
    BY UnmatchedProperties
  <2>2. \A q : Contains(free, q) => Contains(requests, q) /\ ~inProgress[q]
    BY UnmatchedProperties
  <2>. HIDE DEF free
  <2>. QED
    BY <2>1, <2>2, Elements DEF Contains
<1>. HIDE DEF live, free
<1>4. n \in Nat /\ n \in 0..Len(live) /\ \A i \in 1..n : i \in 1..Len(free) /\ i \in 1..Len(live)
  BY <1>2, <1>3
<1>. HIDE DEF n
<1>5. /\ taken \in Seq(Offer) /\ rest \in Seq(Offer) /\ Len(taken) = n
      /\ Once(taken) /\ Once(rest)
      /\ T \subseteq ToSet(live) /\ ToSet(rest) \subseteq ToSet(live)
      /\ T \cap ToSet(rest) = {}
  BY <1>2, <1>4, SplitOnce
<1>. HIDE DEF taken, rest
<1>6. T = {taken[i] : i \in 1..n} /\ T \subseteq Offer /\ \A o : Contains(taken, o) <=> o \in T
  BY <1>5, Elements
<1>. HIDE DEF T
<1>7. \A o \in T : at(o) \in 1..n /\ taken[at(o)] = o
  BY <1>6
<1>8. \A i \in 1..n : taken[i] \in T /\ at(taken[i]) = i
  <2>. TAKE i \in 1..n
  <2>1. taken[i] \in T
    BY <1>6
  <2>2. at(taken[i]) \in 1..n /\ taken[at(taken[i])] = taken[i]
    BY <1>7, <2>1
  <2>. HIDE DEF at
  <2>. QED
    BY <1>5, <2>1, <2>2 DEF Once
<1>. HIDE DEF at
<1>9. \A o \in T : pick[o] = free[at(o)]
  OBVIOUS
<1>10. /\ pick \in [T -> Request]
       /\ \A o \in T : pick[o] \in ToSet(requests) /\ ~inProgress[pick[o]]
  BY <1>3, <1>4, <1>7
<1>11. \A o1, o2 \in T : pick[o1] = pick[o2] => o1 = o2
  <2>. SUFFICES ASSUME NEW o1 \in T, NEW o2 \in T, pick[o1] = pick[o2] PROVE o1 = o2
    OBVIOUS
  <2>1. at(o1) = at(o2)
    BY <1>3, <1>4, <1>7, <1>9 DEF Once
  <2>. QED
    BY <1>7, <2>1
<1>12. \A q : (\E i \in 1..n : free[i] = q) <=> (\E o \in T : pick[o] = q)
  BY <1>7, <1>8, <1>9
<1>13. ASSUME NEW r \in Runner
       PROVE  /\ accepts[r] \in Seq(Messages)
              /\ \A m \in ToSet(accepts[r]) :
                   /\ m.type = "taskofferaccept" /\ m.offer \in T
                   /\ maker[m.offer] = r /\ link[r] = "open"
  <2>. DEFINE s == AcceptsTo(r)
  <2>1. s \in Seq(Offer) /\ \A o : Contains(s, o) => o \in T /\ maker[o] = r /\ link[r] = "open"
    BY <1>5, <1>6, ElementsInProperties
  <2>2. accepts[r] = [i \in DOMAIN s |-> Message("taskofferaccept", s[i])]
    OBVIOUS
  <2>. HIDE DEF s, accepts, AcceptsTo
  <2>3. DOMAIN s = 1..Len(s) /\ Len(s) \in Nat /\ \A i \in 1..Len(s) : s[i] \in Offer
    BY <2>1
  <2>4. \A i \in 1..Len(s) : Message("taskofferaccept", s[i]) \in Messages
    BY <2>3, MessageTypes DEF MessageType
  <2>5. accepts[r] \in Seq(Messages)
    BY <2>2, <2>3, <2>4
  <2>6. Len(accepts[r]) = Len(s)
    BY <2>2, <2>3, <2>5
  <2>7. ASSUME NEW m \in ToSet(accepts[r])
        PROVE  /\ m.type = "taskofferaccept" /\ m.offer \in T
               /\ maker[m.offer] = r /\ link[r] = "open"
    <3>1. ToSet(accepts[r]) = {accepts[r][i] : i \in 1..Len(s)}
      BY <2>5, <2>6, Elements
    <3>2. \A i \in 1..Len(s) : accepts[r][i] = Message("taskofferaccept", s[i])
      BY <2>2, <2>3
    <3>3. PICK i \in 1..Len(s) : m = Message("taskofferaccept", s[i])
      BY <3>1, <3>2
    <3>4. Contains(s, s[i])
      BY DEF Contains
    <3>. QED
      BY <2>1, <3>3, <3>4, MessageTypes
  <2>. QED
    BY <2>5, <2>7
<1>14. accepts \in [Runner -> Seq(Messages)]
  BY <1>13
<1>15. toRunner' = [r \in Runner |-> toRunner[r] \o accepts[r]]
  BY <1>1 DEF live, free, n, taken
<1>16. offers' = rest
  BY <1>1 DEF live, free, n, taken, rest
<1>17. handshake' = [o \in Offer |-> IF o \in T THEN "open" ELSE handshake[o]]
  <2>1. handshake' = [o \in Offer |-> IF Contains(taken, o) THEN "open" ELSE handshake[o]]
    BY <1>1 DEF live, free, n, taken
  <2>. QED
    BY <1>6, <2>1
<1>18. matched' = [o \in Offer |-> IF o \in T THEN pick[o] ELSE matched[o]]
  <2>1. matched' = [o \in Offer |-> IF Contains(taken, o) THEN free[at(o)] ELSE matched[o]]
    BY <1>1 DEF live, free, n, taken, at
  <2>. HIDE DEF pick
  <2>. QED
    BY <1>6, <1>9, <2>1
<1>19. inProgress' = [q \in Request |-> inProgress[q] \/ \E o \in T : pick[o] = q]
  <2>1. inProgress' = [q \in Request |-> inProgress[q] \/ \E i \in 1..n : free[i] = q]
    BY <1>1 DEF live, free, n
  <2>. HIDE DEF pick
  <2>. QED
    BY <1>12, <2>1, Zenon
<1>. HIDE DEF pick, accepts
<1>20. Settles(requests, offered, T, pick, accepts)
  BY <1>2, <1>5, <1>10, <1>11, <1>13, <1>14, <1>15, <1>16, <1>17, <1>18, <1>19 DEF Settles
<1>. QED
  BY <1>20

-----------------------------------------------------------------------------
(* Offering *)

\* What sendOffers() does: n new offers are made, and no old one comes back.
Offers(r, ms, n) ==
  /\ n \in Nat /\ made + n <= MaxOffers /\ made' = made + n
  /\ n # 0 => canSendOffers[r]
  /\ maker' = [o \in Offer |-> IF o \in (made + 1)..(made + n) THEN r ELSE maker[o]]
  /\ openOffers' \in [Runner -> SUBSET Offer]
  /\ openOffers'[r] \subseteq openOffers[r] \cup (made + 1)..(made + n)
  /\ \A x \in Runner : x # r => openOffers'[x] = openOffers[x]
  /\ toBroker' \in [Runner -> Seq(Messages)]
  /\ \A x \in Runner : x # r => toBroker'[x] = toBroker[x]
  /\ \A m \in ToSet(toBroker'[r]) :
       \/ m \in ToSet(toBroker[r]) \cup ToSet(ms)
       \/ \E i \in 1..n : m = Message("taskoffer", made + i)
  /\ toBroker'[r] =
       IF link[r] = "open"
       THEN toBroker[r] \o (ms \o [i \in 1..n |-> Message("taskoffer", made + i)])
       ELSE toBroker[r]

LEMMA SendOffersOffers ==
  ASSUME TypeOK, NEW r \in Runner, NEW ms \in Seq(Messages), NEW running \in Nat,
         SendOffersAfter(r, ms, running)
  PROVE  \E n : /\ Offers(r, ms, n)
                /\ OncePer(ms, Offering) /\ ToSet(ms) \cap Offering = {}
                   /\ OncePer(toBroker[r], Offering)
                   /\ (\A m \in ToSet(toBroker[r]) \cap Offering : m.offer <= made)
                   => OncePer(toBroker'[r], Offering)
<1>1. PICK stale \in SUBSET (IF r \in Launcher THEN {} ELSE openOffers[r]) :
        LET open == openOffers[r] \ stale
            room == SlotsOf(r) - (Cardinality(open) + running)
            n    == IF ~canSendOffers[r] \/ room < 0 THEN 0
                    ELSE IF room < MaxOffers - made THEN room ELSE MaxOffers - made
        IN /\ openOffers' = [openOffers EXCEPT ![r] = open \union (made + 1)..(made + n)]
           /\ maker' = [o \in Offer |-> IF o \in (made + 1)..(made + n) THEN r ELSE maker[o]]
           /\ made' = made + n
           /\ Reply(r, ms \o [i \in 1..n |-> Message("taskoffer", made + i)])
  BY Zenon DEF SendOffersAfter
<1>. DEFINE open == openOffers[r] \ stale
            room == SlotsOf(r) - (Cardinality(open) + running)
            n    == IF ~canSendOffers[r] \/ room < 0 THEN 0
                    ELSE IF room < MaxOffers - made THEN room ELSE MaxOffers - made
            new  == [i \in 1..n |-> Message("taskoffer", made + i)]
<1>2. Cardinality(open) \in Nat
  <2>1. open \subseteq 1..MaxOffers /\ IsFiniteSet(1..MaxOffers)
    BY BrokerAssumption, FS_Interval DEF TypeOK, Offer
  <2>. QED
    BY <2>1, FS_Subset, FS_CardinalityType
<1>3. SlotsOf(r) \in Nat /\ made \in 0..MaxOffers /\ MaxOffers \in Nat
  BY BrokerAssumption DEF SlotsOf, TypeOK
<1>4. n \in Nat /\ made + n <= MaxOffers /\ (n # 0 => canSendOffers[r])
  <2>. DEFINE c == Cardinality(open)
  <2>1. c \in Nat
    BY <1>2
  <2>. HIDE DEF c
  <2>2. room = SlotsOf(r) - (c + running)
    BY DEF c
  <2>. HIDE DEF room
  <2>. QED
    BY <1>3, <2>1, <2>2
<1>5. /\ openOffers' = [openOffers EXCEPT ![r] = open \union (made + 1)..(made + n)]
      /\ maker' = [o \in Offer |-> IF o \in (made + 1)..(made + n) THEN r ELSE maker[o]]
      /\ made' = made + n
      /\ Reply(r, ms \o new)
  BY <1>1
<1>. HIDE DEF n
<1>6. (made + 1)..(made + n) \subseteq Offer
  BY <1>3, <1>4 DEF Offer
<1>7. /\ openOffers' \in [Runner -> SUBSET Offer]
      /\ openOffers'[r] \subseteq openOffers[r] \cup (made + 1)..(made + n)
      /\ \A x \in Runner : x # r => openOffers'[x] = openOffers[x]
  <2>1. openOffers \in [Runner -> SUBSET Offer]
    BY DEF TypeOK
  <2>. QED
    BY <1>5, <1>6, <2>1
<1>8. \A i \in 1..n : made + i \in Offer /\ Message("taskoffer", made + i) \in Messages
  <2>1. \A i \in 1..n : made + i \in Offer
    BY <1>3, <1>4 DEF Offer
  <2>. QED
    BY <2>1, MessageTypes DEF MessageType
<1>9. /\ new \in Seq(Messages) /\ Len(new) = n
      /\ \A i \in 1..n : new[i] = Message("taskoffer", made + i)
  BY <1>4, <1>8
<1>. HIDE DEF new
<1>10. ToSet(new) = {Message("taskoffer", made + i) : i \in 1..n}
  BY <1>9, Elements
<1>11. ms \o new \in Seq(Messages) /\ ToSet(ms \o new) = ToSet(ms) \cup ToSet(new)
  BY <1>9, ConcatElements
<1>12. Offers(r, ms, n)
  <2>1. /\ toBroker' \in [Runner -> Seq(Messages)]
        /\ \A x \in Runner : x # r => toBroker'[x] = toBroker[x]
        /\ ToSet(toBroker'[r]) \subseteq ToSet(toBroker[r]) \cup ToSet(ms \o new)
        /\ toBroker'[r] = IF link[r] = "open" THEN toBroker[r] \o (ms \o new) ELSE toBroker[r]
    BY <1>5, <1>11, Replied
  <2>2. \A m \in ToSet(toBroker'[r]) :
          \/ m \in ToSet(toBroker[r]) \cup ToSet(ms)
          \/ \E i \in 1..n : m = Message("taskoffer", made + i)
    BY <1>10, <1>11, <2>1
  <2>3. toBroker'[r] =
          IF link[r] = "open"
          THEN toBroker[r] \o (ms \o [i \in 1..n |-> Message("taskoffer", made + i)])
          ELSE toBroker[r]
    BY <2>1 DEF new
  <2>. QED
    BY <1>4, <1>5, <1>7, <2>1, <2>2, <2>3, Zenon DEF Offers
<1>13. ASSUME OncePer(ms, Offering), ToSet(ms) \cap Offering = {}, OncePer(toBroker[r], Offering),
              \A m \in ToSet(toBroker[r]) \cap Offering : m.offer <= made
       PROVE  OncePer(toBroker'[r], Offering)
  <2>1. OncePer(new, Offering)
    <3>1. \A i, j \in 1..n : Message("taskoffer", made + i) = Message("taskoffer", made + j)
                             => i = j
      <4>. TAKE i, j \in 1..n
      <4>1. Message("taskoffer", made + i) = Message("taskoffer", made + j)
              => made + i = made + j
        BY MessageTypes
      <4>. QED
        BY <1>3, <1>4, <4>1
    <3>. QED
      BY <1>9, <3>1 DEF OncePer
  <2>2. OncePer(ms \o new, Offering)
    BY <1>9, <1>13, <2>1, ConcatOncePer
  <2>3. ToSet(toBroker[r]) \cap ToSet(new) \cap Offering = {}
    <3>1. \A i \in 1..n : Message("taskoffer", made + i).offer = made + i
      BY MessageTypes
    <3>2. \A i \in 1..n : ~(made + i <= made)
      BY <1>3, <1>4
    <3>. QED
      BY <1>10, <1>13, <3>1, <3>2
  <2>4. ToSet(toBroker[r]) \cap ToSet(ms \o new) \cap Offering = {}
    BY <1>11, <1>13, <2>3
  <2>. QED
    BY <1>5, <1>11, <1>13, <2>2, <2>4, Replied
<1>. QED
  BY <1>12, <1>13

\* A runner has finitely many tasks.
LEMMA RunningTasksFinite ==
  ASSUME NEW S, S \subseteq Offer
  PROVE  IsFiniteSet(S) /\ Cardinality(S) \in Nat
<1>1. IsFiniteSet(Offer)
  BY BrokerAssumption, FS_Interval DEF Offer
<1>. QED
  BY <1>1, FS_Subset, FS_CardinalityType

-----------------------------------------------------------------------------
(* Answers and messages about tasks *)

LEMMA Answered ==
  ASSUME TypeOK, NEW ended, NEW a \in {"done", "error", "canceled"}, Answer(ended, a)
  PROVE  /\ reply' \in [Request -> {"unasked", "asked", "done", "error", "canceled", "expired"}]
         /\ taskAcceptRejects' = taskAcceptRejects \ ended
  BY DEF TypeOK, Answer

LEMMA Signals ==
  ASSUME NEW type \in {"runnerregistered", "drain", "close"}
  PROVE  /\ Signal(type) \in Messages /\ <<Signal(type)>> \in Seq(Messages)
         /\ ToSet(<<Signal(type)>>) = {Signal(type)}
         /\ \A r, mk, hs, st : ToOK(Signal(type), r, mk, hs, st)
<1>1. Signal(type) \in Messages /\ Signal(type).type = type
  BY MessageTypes DEF MessageType
<1>2. <<Signal(type)>> \in Seq(Messages) /\ ToSet(<<Signal(type)>>) = {Signal(type)}
  BY <1>1, FewElements
<1>. QED
  BY <1>1, <1>2 DEF ToOK

LEMMA TaskMessages ==
  ASSUME TypeOK, MadeInv, NEW o \in Offer, status[o] # "none",
         NEW type \in {"taskcancel", "tasksettings"}
  PROVE  /\ maker[o] \in Runner
         /\ <<Message(type, o)>> \in Seq(Messages)
         /\ \A m \in ToSet(<<Message(type, o)>>) : ToOK(m, maker[o], maker, handshake, status)
         /\ <<>> \in Seq(Messages) /\ ToSet(<<>>) = {}
<1>1. Message(type, o) \in Messages /\ Message(type, o).offer = o
  BY MessageTypes DEF MessageType
<1>2. ToSet(<<Message(type, o)>>) = {Message(type, o)} /\ <<Message(type, o)>> \in Seq(Messages)
  BY <1>1, FewElements
<1>3. handshake[o] # "none" /\ maker[o] \in Runner
  BY DEF MadeInv
<1>4. ToSet(<<>>) = {}
  BY FewElements
<1>. QED
  BY <1>1, <1>2, <1>3, <1>4 DEF ToOK

\* What the runners say of tasks.
LEMMA Replies ==
  ASSUME NEW type \in Answering \cup Ending, NEW o \in Offer
  PROVE  /\ Message(type, o) \in Messages /\ <<Message(type, o)>> \in Seq(Messages)
         /\ ToSet(<<Message(type, o)>>) = {Message(type, o)}
         /\ Message(type, o).type = type /\ Message(type, o).offer = o
         /\ OncePer(<<Message(type, o)>>, Offering)
         /\ ToSet(<<Message(type, o)>>) \cap Offering = {}
<1>1. /\ Message(type, o) \in Messages
      /\ Message(type, o).type = type /\ Message(type, o).offer = o
  BY MessageTypes DEF MessageType, Answering, Ending
<1>2. ToSet(<<Message(type, o)>>) = {Message(type, o)} /\ <<Message(type, o)>> \in Seq(Messages)
  BY <1>1, FewElements
<1>3. OncePer(<<Message(type, o)>>, Offering)
  BY DEF OncePer
<1>4. type # "taskoffer"
  BY DEF Answering, Ending
<1>. QED
  BY <1>1, <1>2, <1>3, <1>4 DEF Offering

\* What the broker knows of the message it handles.
LEMMA Received ==
  ASSUME TypeOK, MessageInv, NEW r \in Runner, NEW type, FromRunner(r, type), PopFromRunner(r)
  PROVE  /\ r \in knownRunners
         /\ FromOK(Head(toBroker[r]), r, maker, handshake, status)
         /\ Head(toBroker[r]).type = type
         /\ Head(toBroker[r]) \in ToSet(toBroker[r])
         /\ toBroker' \in [Runner -> Seq(Messages)]
         /\ \A x \in Runner : ToSet(toBroker'[x]) \subseteq ToSet(toBroker[x])
         /\ \A x \in Runner : \A M : OncePer(toBroker[x], M) => OncePer(toBroker'[x], M)
<1>1. r \in knownRunners /\ toBroker[r] # <<>> /\ Head(toBroker[r]).type = type
  BY DEF FromRunner, Takes
<1>2. Head(toBroker[r]) \in ToSet(toBroker[r])
  BY <1>1, Popped
<1>. QED
  BY <1>1, <1>2, Popped DEF MessageInv

\* What a runner knows of the message it handles.
LEMMA ReceivedByRunner ==
  ASSUME TypeOK, MessageInv, NEW r \in Runner, NEW type, FromBroker(r, type), PopFromBroker(r)
  PROVE  /\ ToOK(Head(toRunner[r]), r, maker, handshake, status)
         /\ Head(toRunner[r]).type = type /\ Head(toRunner[r]) \in Messages
         /\ toRunner[r] # <<>>
         /\ toRunner' \in [Runner -> Seq(Messages)]
         /\ toRunner'[r] = Tail(toRunner[r])
         /\ \A x \in Runner : x # r => toRunner'[x] = toRunner[x]
         /\ \A x \in Runner : ToSet(toRunner'[x]) \subseteq ToSet(toRunner[x])
<1>1. toRunner[r] # <<>> /\ Head(toRunner[r]).type = type
  BY DEF FromBroker, Takes
<1>2. Head(toRunner[r]) \in ToSet(toRunner[r])
  BY <1>1, PoppedToRunner
<1>. QED
  BY <1>1, <1>2, PoppedToRunner DEF MessageInv

LEMMA InitInv == Init => BrokerInv
<1>. SUFFICES ASSUME Init PROVE BrokerInv
  OBVIOUS
<1>1. TypeOK
  <2>1. /\ offers \in Seq(Offer) /\ pending \in Seq(Request)
        /\ toRunner \in [Runner -> Seq(Messages)] /\ toBroker \in [Runner -> Seq(Messages)]
    BY DEF Init
  <2>2. made \in 0..MaxOffers
    BY BrokerAssumption DEF Init
  <2>. QED
    BY <2>1, <2>2 DEF Init, TypeOK
<1>2. MadeInv
  BY BrokerAssumption DEF Init, MadeInv, Offer
<1>3. ListInv
  BY FewElements DEF Init, ListInv, Once
<1>4. MessageInv /\ OfferedInv
  <2>1. \A r \in Runner : toBroker[r] = <<>> /\ toRunner[r] = <<>>
    BY DEF Init
  <2>2. ToSet(<<>>) = {}
    BY FewElements
  <2>. QED
    BY <2>1, <2>2 DEF MessageInv, OfferedInv, OncePer
<1>. QED
  BY <1>1, <1>2, <1>3, <1>4 DEF BrokerInv

-----------------------------------------------------------------------------
(* The requester *)

LEMMA CancelTaskKeeps ==
  ASSUME BrokerInv, NEW o \in Offer, CancelTask(o)
  PROVE  BrokerInv' /\ Ages
<1>1. TypeOK /\ MadeInv /\ ListInv /\ MessageInv /\ OfferedInv
  BY DEF BrokerInv
<1>2. /\ reply' \in [Request -> {"unasked", "asked", "done", "error", "canceled", "expired"}]
      /\ taskAcceptRejects' = taskAcceptRejects \ {o}
      /\ toRunner' \in [Runner -> Seq(Messages)]
      /\ \A x \in Runner : \A m \in ToSet(toRunner'[x]) :
           m \in ToSet(toRunner[x]) \/ ToOK(m, x, maker, handshake, status)
  <2>1. status[o] # "none"
    BY <1>1 DEF CancelTask, MadeInv
  <2>. DEFINE ms == IF o \in tasks THEN <<Message("taskcancel", o)>> ELSE <<>>
  <2>2. /\ maker[o] \in Runner /\ ms \in Seq(Messages)
        /\ \A m \in ToSet(ms) : ToOK(m, maker[o], maker, handshake, status)
    BY <1>1, <2>1, TaskMessages
  <2>3. Send(maker[o], ms)
    BY DEF CancelTask
  <2>. HIDE DEF ms
  <2>4. Answer({o}, "canceled")
    BY DEF CancelTask
  <2>5. /\ reply' \in [Request -> {"unasked", "asked", "done", "error", "canceled", "expired"}]
        /\ taskAcceptRejects' = taskAcceptRejects \ {o}
    BY <1>1, <2>4, Answered
  <2>6. /\ toRunner' \in [Runner -> Seq(Messages)]
        /\ \A x \in Runner : x # maker[o] => toRunner'[x] = toRunner[x]
        /\ ToSet(toRunner'[maker[o]]) \subseteq ToSet(toRunner[maker[o]]) \cup ToSet(ms)
    BY <1>1, <2>2, <2>3, Sent
  <2>. QED
    BY <2>2, <2>5, <2>6
<1>3. TypeOK'
  BY <1>1, <1>2 DEF CancelTask, TypeOK
<1>4. Ages
  BY <1>1, <1>2 DEF CancelTask, Ages
<1>5. MadeInv'
  BY <1>1, <1>2 DEF CancelTask, MadeInv
<1>6. ListInv'
  BY <1>1, <1>2 DEF CancelTask, ListInv
<1>7. MessageInv'
  BY <1>1, <1>2, <1>4, MessagesKept DEF CancelTask
<1>8. OfferedInv'
  BY <1>1, <1>2, OfferedKept DEF CancelTask, OfferedInv
<1>. QED
  BY <1>3, <1>4, <1>5, <1>6, <1>7, <1>8 DEF BrokerInv

LEMMA TaskTimeoutKeeps ==
  ASSUME BrokerInv, NEW o \in Offer, TaskTimeout(o)
  PROVE  BrokerInv' /\ Ages
<1>1. TypeOK /\ MadeInv /\ ListInv /\ MessageInv /\ OfferedInv
  BY DEF BrokerInv
<1>2. /\ reply' \in [Request -> {"unasked", "asked", "done", "error", "canceled", "expired"}]
      /\ taskAcceptRejects' = taskAcceptRejects \ {o}
      /\ toRunner' \in [Runner -> Seq(Messages)]
      /\ \A x \in Runner : \A m \in ToSet(toRunner'[x]) :
           m \in ToSet(toRunner[x]) \/ ToOK(m, x, maker, handshake, status)
  <2>1. status[o] # "none"
    BY <1>1 DEF TaskTimeout, MadeInv
  <2>. DEFINE ms == IF Mode = "external" THEN <<Message("taskcancel", o)>> ELSE <<>>
  <2>2. /\ maker[o] \in Runner /\ ms \in Seq(Messages)
        /\ \A m \in ToSet(ms) : ToOK(m, maker[o], maker, handshake, status)
    BY <1>1, <2>1, TaskMessages
  <2>3. Send(maker[o], ms)
    BY DEF TaskTimeout
  <2>. HIDE DEF ms
  <2>4. Answer({o}, "error")
    BY DEF TaskTimeout
  <2>5. /\ reply' \in [Request -> {"unasked", "asked", "done", "error", "canceled", "expired"}]
        /\ taskAcceptRejects' = taskAcceptRejects \ {o}
    BY <1>1, <2>4, Answered
  <2>6. /\ toRunner' \in [Runner -> Seq(Messages)]
        /\ \A x \in Runner : x # maker[o] => toRunner'[x] = toRunner[x]
        /\ ToSet(toRunner'[maker[o]]) \subseteq ToSet(toRunner[maker[o]]) \cup ToSet(ms)
    BY <1>1, <2>2, <2>3, Sent
  <2>. QED
    BY <2>2, <2>5, <2>6
<1>3. TypeOK'
  BY <1>1, <1>2 DEF TaskTimeout, TypeOK
<1>4. Ages
  BY <1>1, <1>2 DEF TaskTimeout, Ages
<1>5. MadeInv'
  BY <1>1, <1>2 DEF TaskTimeout, MadeInv
<1>6. ListInv'
  BY <1>1, <1>2 DEF TaskTimeout, ListInv
<1>7. MessageInv'
  BY <1>1, <1>2, <1>4, MessagesKept DEF TaskTimeout
<1>8. OfferedInv'
  BY <1>1, <1>2, OfferedKept DEF TaskTimeout, OfferedInv
<1>. QED
  BY <1>3, <1>4, <1>5, <1>6, <1>7, <1>8 DEF BrokerInv

LEMMA RequestTimeoutKeeps ==
  ASSUME BrokerInv, NEW q \in Request, RequestTimeout(q)
  PROVE  BrokerInv' /\ Ages
<1>1. TypeOK /\ MadeInv /\ ListInv /\ MessageInv /\ OfferedInv
  BY DEF BrokerInv
<1>2. pending' \in Seq(Request)
  BY <1>1, RemoveFirstProperties DEF RequestTimeout, TypeOK
<1>3. TypeOK'
  BY <1>1, <1>2 DEF RequestTimeout, TypeOK
<1>4. Ages
  BY <1>1, <1>2 DEF RequestTimeout, Ages
<1>5. MadeInv'
  BY <1>1, <1>2 DEF RequestTimeout, MadeInv
<1>6. ListInv'
  BY <1>1, <1>2 DEF RequestTimeout, ListInv
<1>7. MessageInv'
  BY <1>1, <1>2, <1>4, MessagesKept DEF RequestTimeout
<1>8. OfferedInv'
  BY <1>1, <1>2, OfferedKept DEF RequestTimeout, OfferedInv
<1>. QED
  BY <1>3, <1>4, <1>5, <1>6, <1>7, <1>8 DEF BrokerInv

LEMMA AcceptTimeoutKeeps ==
  ASSUME BrokerInv, NEW o \in Offer, AcceptTimeout(o)
  PROVE  BrokerInv' /\ Ages
<1>1. TypeOK /\ MadeInv /\ ListInv /\ MessageInv /\ OfferedInv
  BY DEF BrokerInv
<1>2. TypeOK'
  BY <1>1 DEF AcceptTimeout, CloseHandshake, Retry, TypeOK
<1>3. Ages
  BY <1>1 DEF AcceptTimeout, CloseHandshake, Retry, Ages
<1>4. MadeInv'
  BY <1>1 DEF AcceptTimeout, CloseHandshake, Retry, MadeInv
<1>5. ListInv'
  BY <1>1 DEF AcceptTimeout, CloseHandshake, Retry, ListInv
<1>6. MessageInv'
  BY <1>1, <1>3, MessagesKept DEF AcceptTimeout, CloseHandshake, Retry
<1>7. OfferedInv'
  BY <1>1, OfferedKept DEF AcceptTimeout, CloseHandshake, Retry, OfferedInv
<1>. QED
  BY <1>2, <1>3, <1>4, <1>5, <1>6, <1>7 DEF BrokerInv

\* No offer is taken twice: those in T have never been taken.
LEMMA StartTaskSettles ==
  ASSUME BrokerInv, NEW q \in Request, StartTask(q), ~isDraining
  PROVE  \E T, pick, accepts :
           /\ Settles(Append(pending, q), offers, T, pick, accepts)
           /\ T \subseteq Offer /\ \A o \in T : handshake[o] = "none" /\ maker[o] # None
<1>1. TypeOK /\ ListInv
  BY DEF BrokerInv
<1>2. PICK T, pick, accepts : Settles(Append(pending, q), offers, T, pick, accepts)
  <2>1. SettleTasks(Append(pending, q), offers)
    BY DEF StartTask
  <2>2. Append(pending, q) \in Seq(Request) /\ offers \in Seq(Offer) /\ Once(offers)
    BY <1>1 DEF TypeOK, ListInv
  <2>. QED
    BY <1>1, <2>1, <2>2, SettleTasksSettles
<1>3. T \subseteq ToSet(offers) /\ ToSet(offers) \subseteq Offer
  BY <1>1, <1>2, Elements DEF Settles, TypeOK
<1>4. None \notin knownRunners
  BY <1>1, BrokerAssumption DEF TypeOK
<1>. QED
  BY <1>1, <1>2, <1>3, <1>4 DEF ListInv

LEMMA StartTaskKeeps ==
  ASSUME BrokerInv, NEW q \in Request, StartTask(q), ~isDraining
  PROVE  BrokerInv' /\ Ages
<1>1. TypeOK /\ MadeInv /\ ListInv /\ MessageInv /\ OfferedInv
  BY DEF BrokerInv
<1>2. PICK T, pick, accepts :
        /\ Settles(Append(pending, q), offers, T, pick, accepts)
        /\ T \subseteq Offer /\ \A o \in T : handshake[o] = "none" /\ maker[o] # None
  BY StartTaskSettles
<1>3. /\ T \subseteq Offer /\ \A o \in T : handshake[o] = "none" /\ maker[o] # None
      /\ pick \in [T -> Request]
  BY <1>2 DEF Settles
<1>4. /\ offers' \in Seq(Offer) /\ Once(offers')
      /\ ToSet(offers') \subseteq ToSet(offers) \ T
      /\ inProgress' \in [Request -> BOOLEAN]
      /\ handshake' = [o \in Offer |-> IF o \in T THEN "open" ELSE handshake[o]]
      /\ matched' = [o \in Offer |-> IF o \in T THEN pick[o] ELSE matched[o]]
  BY <1>2 DEF Settles
<1>5. /\ toRunner' \in [Runner -> Seq(Messages)]
      /\ \A x \in Runner : \A m \in ToSet(toRunner'[x]) :
           m \in ToSet(toRunner[x]) \/ ToOK(m, x, maker, handshake', status)
  <2>1. /\ accepts \in [Runner -> Seq(Messages)]
        /\ toRunner' = [x \in Runner |-> toRunner[x] \o accepts[x]]
        /\ \A x \in Runner : \A m \in ToSet(accepts[x]) :
             m.type = "taskofferaccept" /\ m.offer \in T /\ maker[m.offer] = x
    BY <1>2 DEF Settles
  <2>2. \A x \in Runner : toRunner[x] \in Seq(Messages) /\ accepts[x] \in Seq(Messages)
    BY <1>1, <2>1 DEF TypeOK
  <2>3. \A x \in Runner : /\ toRunner'[x] \in Seq(Messages)
                          /\ ToSet(toRunner'[x]) = ToSet(toRunner[x]) \cup ToSet(accepts[x])
    BY <2>1, <2>2, ConcatElements
  <2>4. \A x \in Runner : \A m \in ToSet(accepts[x]) : ToOK(m, x, maker, handshake', status)
    BY <1>3, <1>4, <2>1 DEF ToOK
  <2>. QED
    BY <2>1, <2>3, <2>4
<1>6. /\ pending' \in Seq(Request)
      /\ \A x \in Runner : ToSet(toBroker'[x]) = ToSet(toBroker[x])
  <2>1. pending' = Append(pending, q) /\ toBroker' = toBroker
    BY DEF StartTask
  <2>. QED
    BY <1>1, <2>1 DEF TypeOK
<1>7. TypeOK'
  BY <1>1, <1>3, <1>4, <1>5, <1>6 DEF StartTask, TypeOK
<1>8. Ages
  BY <1>3, <1>4 DEF StartTask, Ages
<1>9. MadeInv'
  <2>1. \A o \in T : pick[o] \in Request /\ maker[o] \in Runner
    BY <1>1, <1>3 DEF TypeOK
  <2>2. \A o \in Offer : handshake[o] = "closed" => handshake'[o] = "closed"
    BY <1>3, <1>4
  <2>3. UNCHANGED <<maker, made, status, openOffers, tasks, taskTimer, taskAcceptRejects>>
    BY DEF StartTask
  <2>4. ASSUME NEW o \in Offer
        PROVE  /\ handshake'[o] = "none" => handshake[o] = "none"
               /\ handshake'[o] # "none" => matched'[o] \in Request /\ maker[o] \in Runner
    BY <1>1, <1>3, <1>4, <2>1 DEF MadeInv
  <2>. QED
    BY <1>1, <2>2, <2>3, <2>4 DEF MadeInv
<1>10. ListInv'
  <2>1. ToSet(offers') \subseteq Offer
    BY <1>4, Elements
  <2>2. UNCHANGED <<maker, knownRunners>>
    BY DEF StartTask
  <2>. QED
    BY <1>1, <1>4, <2>1, <2>2 DEF ListInv
<1>11. MessageInv'
  <2>1. UNCHANGED <<maker, status>>
    BY DEF StartTask
  <2>. QED
    BY <1>1, <1>8, <1>5, <1>6, <2>1, MessagesKept
<1>12. OfferedInv'
  <2>1. T \subseteq ToSet(offers)
    BY <1>2 DEF Settles
  <2>. QED
    BY <1>1, <1>4, <2>1, OfferedKept DEF StartTask, OfferedInv
<1>. QED
  BY <1>7, <1>8, <1>9, <1>10, <1>11, <1>12 DEF BrokerInv

-----------------------------------------------------------------------------
(* Messages of the runners *)

LEMMA RegisterRunnerKeeps ==
  ASSUME BrokerInv, NEW r \in Runner, RegisterRunner(r)
  PROVE  BrokerInv' /\ Ages
<1>1. TypeOK /\ MadeInv /\ ListInv /\ MessageInv /\ OfferedInv
  BY DEF BrokerInv
<1>2. /\ toBroker' \in [Runner -> Seq(Messages)]
      /\ \A x \in Runner : ToSet(toBroker'[x]) \subseteq ToSet(toBroker[x])
      /\ \A x \in Runner : \A M : OncePer(toBroker[x], M) => OncePer(toBroker'[x], M)
      /\ toRunner' \in [Runner -> Seq(Messages)]
      /\ \A x \in Runner : \A m \in ToSet(toRunner'[x]) :
           m \in ToSet(toRunner[x]) \/ ToOK(m, x, maker, handshake, status)
  <2>1. toBroker[r] # <<>> /\ PopFromRunner(r) /\ Send(r, <<Signal("runnerregistered")>>)
    BY DEF RegisterRunner, Takes
  <2>2. /\ <<Signal("runnerregistered")>> \in Seq(Messages)
        /\ \A m \in ToSet(<<Signal("runnerregistered")>>) :
             ToOK(m, r, maker, handshake, status)
    BY Signals
  <2>3. /\ toRunner' \in [Runner -> Seq(Messages)]
        /\ \A x \in Runner : x # r => toRunner'[x] = toRunner[x]
        /\ ToSet(toRunner'[r]) \subseteq ToSet(toRunner[r]) \cup ToSet(<<Signal("runnerregistered")>>)
    BY <1>1, <2>1, <2>2, Sent
  <2>4. \A x \in Runner : \A m \in ToSet(toRunner'[x]) :
           m \in ToSet(toRunner[x]) \/ ToOK(m, x, maker, handshake, status)
    BY <2>2, <2>3
  <2>. QED
    BY <1>1, <2>1, <2>3, <2>4, Popped
<1>3. TypeOK'
  BY <1>1, <1>2 DEF RegisterRunner, TypeOK
<1>4. Ages
  BY <1>1, <1>2 DEF RegisterRunner, Ages
<1>5. MadeInv'
  BY <1>1, <1>2 DEF RegisterRunner, MadeInv
<1>6. ListInv'
  BY <1>1, <1>2 DEF RegisterRunner, ListInv
<1>7. MessageInv'
  BY <1>1, <1>2, <1>4, MessagesKept DEF RegisterRunner
<1>8. OfferedInv'
  BY <1>1, <1>2, OfferedKept DEF RegisterRunner, OfferedInv
<1>. QED
  BY <1>3, <1>4, <1>5, <1>6, <1>7, <1>8 DEF BrokerInv

\* The offer that arrives is new to the broker.
LEMMA OfferReceived ==
  ASSUME BrokerInv, NEW r \in Runner, TaskOffered(r), NEW new, new = Head(toBroker[r]).offer
  PROVE  /\ new \in Offer /\ r \in knownRunners
         /\ handshake[new] = "none" /\ maker[new] = r /\ new \notin ToSet(offers)
         /\ Head(toBroker[r]) \in Offering
         /\ Append(offers, new) \in Seq(Offer) /\ Once(Append(offers, new))
         /\ ToSet(Append(offers, new)) = ToSet(offers) \cup {new}
<1>1. TypeOK /\ ListInv /\ MessageInv /\ OfferedInv
  BY DEF BrokerInv
<1>2. FromRunner(r, "taskoffer") /\ PopFromRunner(r)
  BY DEF TaskOffered
<1>3. Head(toBroker[r]) \in Messages
  BY <1>1, <1>2, Popped DEF FromRunner, Takes
<1>4. Head(toBroker[r]).type = "taskoffer" /\ Head(toBroker[r]) \in ToSet(toBroker[r])
  BY <1>1, <1>2, Received
<1>5. FromOK(Head(toBroker[r]), r, maker, handshake, status) /\ r \in knownRunners
  BY <1>1, <1>2, Received
<1>6. /\ new \in Offer /\ r \in knownRunners
      /\ handshake[new] = "none" /\ maker[new] = r /\ new \notin ToSet(offers)
      /\ Head(toBroker[r]) \in Offering
  BY <1>1, <1>3, <1>4, <1>5 DEF FromOK, OfferedInv, Offering
<1>7. offers \in Seq(Offer) /\ Once(offers)
  BY <1>1 DEF TypeOK, ListInv
<1>. QED
  BY <1>6, <1>7, AppendElements

LEMMA TaskOfferedSettles ==
  ASSUME BrokerInv, NEW r \in Runner, TaskOffered(r), NEW new, new = Head(toBroker[r]).offer
  PROVE  \E T, pick, accepts :
           /\ Settles(pending, Append(offers, new), T, pick, accepts)
           /\ T \subseteq Offer /\ \A o \in T : handshake[o] = "none" /\ maker[o] # None
<1>1. TypeOK /\ ListInv
  BY DEF BrokerInv
<1>. DEFINE offered == Append(offers, new)
<1>2. /\ new \in Offer /\ r \in knownRunners /\ handshake[new] = "none" /\ maker[new] = r
      /\ offered \in Seq(Offer) /\ Once(offered) /\ ToSet(offered) = ToSet(offers) \cup {new}
      /\ SettleTasks(pending, offered)
  BY OfferReceived DEF TaskOffered
<1>. HIDE DEF offered
<1>3. PICK T, pick, accepts : Settles(pending, offered, T, pick, accepts)
  <2>1. pending \in Seq(Request)
    BY <1>1 DEF TypeOK
  <2>. QED
    BY <1>1, <1>2, <2>1, SettleTasksSettles
<1>4. T \subseteq ToSet(offers) \cup {new} /\ ToSet(offers) \subseteq Offer
  BY <1>1, <1>2, <1>3, Elements DEF Settles, TypeOK
<1>5. None \notin knownRunners
  BY <1>1, BrokerAssumption DEF TypeOK
<1>. QED
  BY <1>1, <1>2, <1>3, <1>4, <1>5 DEF ListInv, offered

LEMMA TaskOfferedKeeps ==
  ASSUME BrokerInv, NEW r \in Runner, TaskOffered(r)
  PROVE  BrokerInv' /\ Ages
<1>1. TypeOK /\ MadeInv /\ ListInv /\ MessageInv /\ OfferedInv
  BY DEF BrokerInv
<1>. DEFINE new == Head(toBroker[r]).offer
            offered == Append(offers, new)
<1>2. /\ new \in Offer /\ r \in knownRunners
      /\ handshake[new] = "none" /\ maker[new] = r /\ new \notin ToSet(offers)
      /\ Head(toBroker[r]) \in Offering /\ Head(toBroker[r]).offer = new
  BY OfferReceived
<1>3. offered \in Seq(Offer) /\ Once(offered) /\ ToSet(offered) = ToSet(offers) \cup {new}
  BY OfferReceived
<1>4. PICK T, pick, accepts :
        /\ Settles(pending, offered, T, pick, accepts)
        /\ T \subseteq Offer /\ \A o \in T : handshake[o] = "none" /\ maker[o] # None
  BY TaskOfferedSettles
<1>5. /\ T \subseteq Offer /\ \A o \in T : handshake[o] = "none" /\ maker[o] # None
      /\ pick \in [T -> Request]
  BY <1>4 DEF Settles
<1>6. /\ offers' \in Seq(Offer) /\ Once(offers')
      /\ ToSet(offers') \subseteq ToSet(offered) \ T
      /\ inProgress' \in [Request -> BOOLEAN]
      /\ handshake' = [o \in Offer |-> IF o \in T THEN "open" ELSE handshake[o]]
      /\ matched' = [o \in Offer |-> IF o \in T THEN pick[o] ELSE matched[o]]
  BY <1>4 DEF Settles
<1>7. /\ toRunner' \in [Runner -> Seq(Messages)]
      /\ \A x \in Runner : \A m \in ToSet(toRunner'[x]) :
           m \in ToSet(toRunner[x]) \/ ToOK(m, x, maker, handshake', status)
  <2>1. /\ accepts \in [Runner -> Seq(Messages)]
        /\ toRunner' = [x \in Runner |-> toRunner[x] \o accepts[x]]
        /\ \A x \in Runner : \A m \in ToSet(accepts[x]) :
             m.type = "taskofferaccept" /\ m.offer \in T /\ maker[m.offer] = x
    BY <1>4 DEF Settles
  <2>2. \A x \in Runner : toRunner[x] \in Seq(Messages) /\ accepts[x] \in Seq(Messages)
    BY <1>1, <2>1 DEF TypeOK
  <2>3. \A x \in Runner : /\ toRunner'[x] \in Seq(Messages)
                          /\ ToSet(toRunner'[x]) = ToSet(toRunner[x]) \cup ToSet(accepts[x])
    BY <2>1, <2>2, ConcatElements
  <2>4. \A x \in Runner : \A m \in ToSet(accepts[x]) : ToOK(m, x, maker, handshake', status)
    BY <1>5, <1>6, <2>1 DEF ToOK
  <2>. QED
    BY <2>1, <2>3, <2>4
<1>. HIDE DEF offered, new
<1>8. /\ toBroker' \in [Runner -> Seq(Messages)]
      /\ \A x \in Runner : ToSet(toBroker'[x]) \subseteq ToSet(toBroker[x])
      /\ \A x \in Runner : OncePer(toBroker[x], Offering) => OncePer(toBroker'[x], Offering)
      /\ OncePer(toBroker[r], Offering) => Head(toBroker[r]) \notin ToSet(toBroker'[r])
  <2>1. toBroker[r] # <<>> /\ PopFromRunner(r)
    BY DEF TaskOffered, FromRunner, Takes
  <2>. QED
    BY <1>1, <1>2, <2>1, Popped
<1>9. TypeOK'
  BY <1>1, <1>5, <1>6, <1>7, <1>8 DEF TaskOffered, TypeOK
<1>10. Ages
  BY <1>5, <1>6 DEF TaskOffered, Ages
<1>11. MadeInv'
  <2>1. \A o \in T : pick[o] \in Request /\ maker[o] \in Runner
    BY <1>1, <1>5 DEF TypeOK
  <2>2. \A o \in Offer : handshake[o] = "closed" => handshake'[o] = "closed"
    BY <1>5, <1>6
  <2>3. UNCHANGED <<maker, made, status, openOffers, tasks, taskTimer, taskAcceptRejects>>
    BY DEF TaskOffered
  <2>4. ASSUME NEW o \in Offer
        PROVE  /\ handshake'[o] = "none" => handshake[o] = "none"
               /\ handshake'[o] # "none" => matched'[o] \in Request /\ maker[o] \in Runner
    BY <1>1, <1>5, <1>6, <2>1 DEF MadeInv
  <2>. QED
    BY <1>1, <2>2, <2>3, <2>4 DEF MadeInv
<1>12. ListInv'
  <2>1. ToSet(offers') \subseteq Offer
    BY <1>6, Elements
  <2>2. UNCHANGED <<maker, knownRunners>>
    BY DEF TaskOffered
  <2>. QED
    BY <1>1, <1>6, <1>2, <1>3, <2>1, <2>2 DEF ListInv
<1>13. MessageInv'
  <2>1. UNCHANGED <<maker, status>>
    BY DEF TaskOffered
  <2>. QED
    BY <1>1, <1>10, <1>7, <1>8, <2>1, MessagesKept
<1>14. OfferedInv'
  <2>. SUFFICES ASSUME NEW x \in Runner
                PROVE  /\ OncePer(toBroker'[x], Offering)
                       /\ \A m \in ToSet(toBroker'[x]) \cap Offering :
                            handshake'[m.offer] = "none" /\ m.offer \notin ToSet(offers')
    BY DEF OfferedInv
  <2>1. OncePer(toBroker[x], Offering) /\ OncePer(toBroker[r], Offering)
    BY <1>1 DEF OfferedInv
  <2>2. ASSUME NEW m \in ToSet(toBroker'[x]) \cap Offering
        PROVE  handshake'[m.offer] = "none" /\ m.offer \notin ToSet(offers')
    <3>1. /\ m \in ToSet(toBroker[x]) /\ m \in Messages /\ m.type = "taskoffer"
          /\ handshake[m.offer] = "none" /\ m.offer \notin ToSet(offers)
      BY <1>1, <1>8 DEF OfferedInv, Offering
    <3>2. FromOK(m, x, maker, handshake, status)
      BY <1>1, <3>1 DEF MessageInv
    <3>3. m.offer \in Offer /\ maker[m.offer] = x
      BY <3>1, <3>2 DEF FromOK
    <3>4. m.offer # new
      <4>1. CASE x # r
        BY <1>2, <3>3, <4>1
      <4>2. CASE x = r
        <5>1. m # Head(toBroker[r])
          BY <1>8, <2>1, <4>2
        <5>2. /\ Head(toBroker[r]) = Message("taskoffer", new)
              /\ m = Message("taskoffer", m.offer)
          BY <1>2, <3>1, MessageTypes DEF Offering, new
        <5>. QED
          BY <5>1, <5>2
      <4>. QED
        BY <4>1, <4>2
    <3>5. T \subseteq ToSet(offers) \cup {new} /\ ToSet(offers') \subseteq ToSet(offers) \cup {new}
      BY <1>4, <1>3 DEF Settles
    <3>. QED
      BY <1>6, <3>1, <3>3, <3>4, <3>5
  <2>. QED
    BY <1>8, <2>1, <2>2
<1>. QED
  BY <1>9, <1>10, <1>11, <1>12, <1>13, <1>14 DEF BrokerInv

LEMMA AnswersTooLateKeeps ==
  ASSUME BrokerInv, NEW r \in Runner, AnswersTooLate(r)
  PROVE  BrokerInv' /\ Ages
<1>1. TypeOK /\ MadeInv /\ ListInv /\ MessageInv /\ OfferedInv
  BY DEF BrokerInv
<1>2. /\ toBroker' \in [Runner -> Seq(Messages)]
      /\ \A x \in Runner : ToSet(toBroker'[x]) \subseteq ToSet(toBroker[x])
      /\ \A x \in Runner : \A M : OncePer(toBroker[x], M) => OncePer(toBroker'[x], M)
  BY <1>1, Received DEF AnswersTooLate
<1>3. TypeOK'
  BY <1>1, <1>2 DEF AnswersTooLate, TypeOK
<1>4. Ages
  BY <1>1, <1>2 DEF AnswersTooLate, Ages
<1>5. MadeInv'
  BY <1>1, <1>2 DEF AnswersTooLate, MadeInv
<1>6. ListInv'
  BY <1>1, <1>2 DEF AnswersTooLate, ListInv
<1>7. MessageInv'
  BY <1>1, <1>2, <1>4, MessagesKept DEF AnswersTooLate
<1>8. OfferedInv'
  BY <1>1, <1>2, OfferedKept DEF AnswersTooLate, OfferedInv
<1>. QED
  BY <1>3, <1>4, <1>5, <1>6, <1>7, <1>8 DEF BrokerInv

LEMMA TaskAcceptedKeeps ==
  ASSUME BrokerInv, NEW r \in Runner, TaskAccepted(r)
  PROVE  BrokerInv' /\ Ages
<1>1. TypeOK /\ MadeInv /\ ListInv /\ MessageInv /\ OfferedInv
  BY DEF BrokerInv
<1>2. PICK o \in Offer :
        /\ Decides(r, "taskaccepted", o)
        /\ requestTimer' = requestTimer \ {matched[o]}
        /\ TaskSettled(r, o) \/ TaskRefused(r, o) \/ TaskOrphaned(o)
        /\ UNCHANGED <<knownRunners, offers, inProgress, matched, isDraining, reply,
                       runnerVars, link>>
  BY DEF TaskAccepted
<1>3. /\ o = Head(toBroker[r]).offer /\ handshake[o] = "open" /\ maker[o] = r /\ r \in knownRunners
      /\ handshake' = [handshake EXCEPT ![o] = "closed"]
      /\ matched[o] \in Request
      /\ status[o] # "none"
      /\ toBroker' \in [Runner -> Seq(Messages)]
      /\ \A x \in Runner : ToSet(toBroker'[x]) \subseteq ToSet(toBroker[x])
      /\ \A x \in Runner : \A M : OncePer(toBroker[x], M) => OncePer(toBroker'[x], M)
  <2>1. FromRunner(r, "taskaccepted") /\ PopFromRunner(r)
    BY <1>2 DEF Decides
  <2>2. FromOK(Head(toBroker[r]), r, maker, handshake, status)
    BY <1>1, <2>1, Received
  <2>3. /\ o = Head(toBroker[r]).offer /\ handshake[o] = "open"
        /\ handshake' = [handshake EXCEPT ![o] = "closed"]
        /\ matched[o] \in Request
    BY <1>1, <1>2 DEF Decides, CloseHandshake, MadeInv
  <2>4. Head(toBroker[r]).type = "taskaccepted" /\ r \in knownRunners
    BY <1>1, <2>1, Received
  <2>5. maker[o] = r /\ status[o] # "none"
    BY <2>2, <2>3, <2>4 DEF FromOK
  <2>. QED
    BY <1>1, <2>1, <2>3, <2>4, <2>5, Received
<1>4. /\ pending' \in Seq(Request)
      /\ requestAcceptRejects' \subseteq Request
      /\ taskAcceptRejects' \subseteq taskAcceptRejects \cup {o}
      /\ tasks' \subseteq tasks \cup {o} /\ taskTimer' \subseteq taskTimer \cup {o}
      /\ toRunner' \in [Runner -> Seq(Messages)]
      /\ \A x \in Runner : \A m \in ToSet(toRunner'[x]) :
           m \in ToSet(toRunner[x]) \/ ToOK(m, x, maker, handshake, status)
  <2>1. pending \in Seq(Request) /\ RemoveFirst(pending, matched[o]) \in Seq(Request)
    BY <1>1, RemoveFirstProperties DEF TypeOK
  <2>2. ASSUME NEW type \in {"taskcancel", "tasksettings"}, Send(r, <<Message(type, o)>>)
        PROVE  /\ toRunner' \in [Runner -> Seq(Messages)]
               /\ \A x \in Runner : \A m \in ToSet(toRunner'[x]) :
                    m \in ToSet(toRunner[x]) \/ ToOK(m, x, maker, handshake, status)
    <3>1. /\ <<Message(type, o)>> \in Seq(Messages)
          /\ \A m \in ToSet(<<Message(type, o)>>) : ToOK(m, r, maker, handshake, status)
      BY <1>1, <1>3, TaskMessages
    <3>. QED
      BY <1>1, <2>2, <3>1, Sent
  <2>3. CASE TaskSettled(r, o)
    BY <1>1, <2>1, <2>2, <2>3 DEF TaskSettled, TypeOK
  <2>4. CASE TaskRefused(r, o)
    BY <1>1, <2>1, <2>2, <2>4 DEF TaskRefused, TypeOK
  <2>5. CASE TaskOrphaned(o)
    BY <1>1, <2>1, <2>5 DEF TaskOrphaned, TypeOK
  <2>. QED
    BY <1>2, <2>3, <2>4, <2>5
<1>5. TypeOK'
  <2>1. /\ requestTimer' \subseteq Request
        /\ handshake' \in [Offer -> {"none", "open", "closed"}]
    BY <1>1, <1>2, <1>3 DEF TypeOK
  <2>. QED
    BY <1>1, <1>2, <1>3, <1>4, <2>1 DEF TypeOK
<1>6. Ages
  BY <1>1, <1>2, <1>3, <1>4 DEF Ages, TypeOK
<1>7. MadeInv'
  <2>1. handshake \in [Offer -> {"none", "open", "closed"}]
    BY <1>1 DEF TypeOK
  <2>2. handshake'[o] = "closed" /\ \A x \in Offer : x # o => handshake'[x] = handshake[x]
    BY <1>3, <2>1
  <2>. QED
    BY <1>1, <1>2, <1>3, <1>4, <2>2 DEF MadeInv
<1>8. ListInv'
  <2>1. o \notin ToSet(offers)
    BY <1>1, <1>3 DEF ListInv
  <2>2. UNCHANGED <<offers, maker, knownRunners>> /\ ToSet(offers) \subseteq Offer
    BY <1>1, <1>2, Elements DEF TypeOK
  <2>. QED
    BY <1>1, <1>3, <2>1, <2>2 DEF ListInv, TypeOK
<1>9. MessageInv'
  BY <1>1, <1>2, <1>6, <1>3, <1>4, MessagesKept
<1>10. OfferedInv'
  <2>1. \A x \in Offer : handshake[x] = "none" => handshake'[x] = "none"
    BY <1>1, <1>3 DEF TypeOK
  <2>. QED
    BY <1>1, <1>2, <1>3, <2>1, OfferedKept DEF OfferedInv
<1>. QED
  BY <1>5, <1>6, <1>7, <1>8, <1>9, <1>10 DEF BrokerInv

LEMMA TaskRejectedKeeps ==
  ASSUME BrokerInv, NEW r \in Runner, TaskRejected(r)
  PROVE  BrokerInv' /\ Ages
<1>1. TypeOK /\ MadeInv /\ ListInv /\ MessageInv /\ OfferedInv
  BY DEF BrokerInv
<1>2. PICK o \in Offer :
        /\ Decides(r, "taskrejected", o)
        /\ Retry(matched[o])
        /\ UNCHANGED <<knownRunners, offers, pending, requestTimer, matched, tasks, taskTimer,
                       isDraining, requesterVars, runnerVars, link, toRunner>>
  BY DEF TaskRejected
<1>3. /\ o = Head(toBroker[r]).offer /\ handshake[o] = "open" /\ maker[o] = r /\ r \in knownRunners
      /\ handshake' = [handshake EXCEPT ![o] = "closed"]
      /\ matched[o] \in Request
      /\ toBroker' \in [Runner -> Seq(Messages)]
      /\ \A x \in Runner : ToSet(toBroker'[x]) \subseteq ToSet(toBroker[x])
      /\ \A x \in Runner : \A M : OncePer(toBroker[x], M) => OncePer(toBroker'[x], M)
  <2>1. FromRunner(r, "taskrejected") /\ PopFromRunner(r)
    BY <1>2 DEF Decides
  <2>2. FromOK(Head(toBroker[r]), r, maker, handshake, status)
    BY <1>1, <2>1, Received
  <2>3. /\ o = Head(toBroker[r]).offer /\ handshake[o] = "open"
        /\ handshake' = [handshake EXCEPT ![o] = "closed"]
        /\ matched[o] \in Request
    BY <1>1, <1>2 DEF Decides, CloseHandshake, MadeInv
  <2>4. Head(toBroker[r]).type = "taskrejected" /\ r \in knownRunners
    BY <1>1, <2>1, Received
  <2>5. maker[o] = r
    BY <2>2, <2>3, <2>4 DEF FromOK
  <2>. QED
    BY <1>1, <2>1, <2>3, <2>4, <2>5, Received
<1>4. TypeOK'
  BY <1>1, <1>2, <1>3 DEF Retry, TypeOK
<1>5. Ages
  BY <1>1, <1>2, <1>3 DEF Ages, TypeOK
<1>6. MadeInv'
  BY <1>1, <1>2, <1>3 DEF MadeInv, TypeOK
<1>7. ListInv'
  <2>1. o \notin ToSet(offers)
    BY <1>1, <1>3 DEF ListInv
  <2>2. UNCHANGED <<offers, maker, knownRunners>> /\ ToSet(offers) \subseteq Offer
    BY <1>1, <1>2, Elements DEF TypeOK
  <2>. QED
    BY <1>1, <1>3, <2>1, <2>2 DEF ListInv, TypeOK
<1>8. MessageInv'
  BY <1>1, <1>2, <1>5, <1>3, MessagesKept
<1>9. OfferedInv'
  <2>1. \A x \in Offer : handshake[x] = "none" => handshake'[x] = "none"
    BY <1>1, <1>3 DEF TypeOK
  <2>. QED
    BY <1>1, <1>2, <1>3, <2>1, OfferedKept DEF OfferedInv
<1>. QED
  BY <1>4, <1>5, <1>6, <1>7, <1>8, <1>9 DEF BrokerInv

LEMMA TaskDeferredKeeps ==
  ASSUME BrokerInv, NEW r \in Runner, TaskDeferred(r)
  PROVE  BrokerInv' /\ Ages
<1>1. TypeOK /\ MadeInv /\ ListInv /\ MessageInv /\ OfferedInv
  BY DEF BrokerInv
<1>2. PICK o \in Offer :
        /\ Decides(r, "taskdeferred", o)
        /\ Retry(matched[o])
        /\ requestTimer' = requestTimer \union {matched[o]}
        /\ pending' = Append(pending, matched[o])
        /\ UNCHANGED <<knownRunners, offers, matched, tasks, taskTimer, isDraining,
                       requesterVars, runnerVars, link, toRunner>>
  BY DEF TaskDeferred
<1>3. /\ o = Head(toBroker[r]).offer /\ handshake[o] = "open" /\ maker[o] = r /\ r \in knownRunners
      /\ handshake' = [handshake EXCEPT ![o] = "closed"]
      /\ matched[o] \in Request
      /\ toBroker' \in [Runner -> Seq(Messages)]
      /\ \A x \in Runner : ToSet(toBroker'[x]) \subseteq ToSet(toBroker[x])
      /\ \A x \in Runner : \A M : OncePer(toBroker[x], M) => OncePer(toBroker'[x], M)
  <2>1. FromRunner(r, "taskdeferred") /\ PopFromRunner(r)
    BY <1>2 DEF Decides
  <2>2. FromOK(Head(toBroker[r]), r, maker, handshake, status)
    BY <1>1, <2>1, Received
  <2>3. /\ o = Head(toBroker[r]).offer /\ handshake[o] = "open"
        /\ handshake' = [handshake EXCEPT ![o] = "closed"]
        /\ matched[o] \in Request
    BY <1>1, <1>2 DEF Decides, CloseHandshake, MadeInv
  <2>4. Head(toBroker[r]).type = "taskdeferred" /\ r \in knownRunners
    BY <1>1, <2>1, Received
  <2>5. maker[o] = r
    BY <2>2, <2>3, <2>4 DEF FromOK
  <2>. QED
    BY <1>1, <2>1, <2>3, <2>4, <2>5, Received
<1>4. pending' \in Seq(Request)
  BY <1>1, <1>2, <1>3 DEF TypeOK
<1>5. TypeOK'
  BY <1>1, <1>2, <1>3, <1>4 DEF Retry, TypeOK
<1>6. Ages
  BY <1>1, <1>2, <1>3, <1>4 DEF Ages, TypeOK
<1>7. MadeInv'
  BY <1>1, <1>2, <1>3, <1>4 DEF MadeInv, TypeOK
<1>8. ListInv'
  <2>1. o \notin ToSet(offers)
    BY <1>1, <1>3 DEF ListInv
  <2>2. UNCHANGED <<offers, maker, knownRunners>> /\ ToSet(offers) \subseteq Offer
    BY <1>1, <1>2, Elements DEF TypeOK
  <2>. QED
    BY <1>1, <1>3, <2>1, <2>2 DEF ListInv, TypeOK
<1>9. MessageInv'
  BY <1>1, <1>2, <1>6, <1>3, <1>4, MessagesKept
<1>10. OfferedInv'
  <2>1. \A x \in Offer : handshake[x] = "none" => handshake'[x] = "none"
    BY <1>1, <1>3 DEF TypeOK
  <2>. QED
    BY <1>1, <1>2, <1>3, <2>1, OfferedKept DEF OfferedInv
<1>. QED
  BY <1>5, <1>6, <1>7, <1>8, <1>9, <1>10 DEF BrokerInv

LEMMA TaskEndedKeeps ==
  ASSUME BrokerInv, NEW r \in Runner, TaskEnded(r)
  PROVE  BrokerInv' /\ Ages
<1>1. TypeOK /\ MadeInv /\ ListInv /\ MessageInv /\ OfferedInv
  BY DEF BrokerInv
<1>2. PICK type \in {"taskdone", "taskerror"} :
        /\ FromRunner(r, type) /\ PopFromRunner(r)
        /\ LET o == Head(toBroker[r]).offer IN
             /\ Answer({o} \intersect tasks, IF type = "taskdone" THEN "done" ELSE "error")
             /\ tasks' = tasks \ {o}
             /\ taskTimer' = taskTimer \ {o}
        /\ UNCHANGED <<knownRunners, offers, pending, inProgress, requestTimer, handshake,
                       matched, isDraining, requestAcceptRejects, runnerVars, link, toRunner>>
  BY DEF TaskEnded
<1>3. /\ toBroker' \in [Runner -> Seq(Messages)]
      /\ \A x \in Runner : ToSet(toBroker'[x]) \subseteq ToSet(toBroker[x])
      /\ \A x \in Runner : \A M : OncePer(toBroker[x], M) => OncePer(toBroker'[x], M)
      /\ reply' \in [Request -> {"unasked", "asked", "done", "error", "canceled", "expired"}]
      /\ taskAcceptRejects' \subseteq taskAcceptRejects
  BY <1>1, <1>2, Received, Answered
<1>4. TypeOK'
  BY <1>1, <1>2, <1>3 DEF TypeOK
<1>5. Ages
  BY <1>2 DEF Ages
<1>6. MadeInv'
  BY <1>1, <1>2, <1>3 DEF MadeInv
<1>7. ListInv'
  BY <1>1, <1>2 DEF ListInv
<1>8. MessageInv'
  BY <1>1, <1>2, <1>5, <1>3, MessagesKept
<1>9. OfferedInv'
  BY <1>1, <1>2, <1>3, OfferedKept DEF OfferedInv
<1>. QED
  BY <1>4, <1>5, <1>6, <1>7, <1>8, <1>9 DEF BrokerInv

-----------------------------------------------------------------------------
(* Connections and shutdown *)

LEMMA RemoveConnectionKeeps ==
  ASSUME BrokerInv, NEW r \in Runner, RemoveConnection(r)
  PROVE  BrokerInv' /\ Ages
<1>1. TypeOK /\ MadeInv /\ ListInv /\ MessageInv /\ OfferedInv
  BY DEF BrokerInv
<1>2. /\ offers' \in Seq(Offer) /\ Once(offers')
      /\ \A o \in ToSet(offers') : o \in ToSet(offers) /\ maker[o] # r
      /\ toBroker' \in [Runner -> Seq(Messages)]
      /\ \A x \in Runner : x # r => toBroker'[x] = toBroker[x]
      /\ ToSet(toBroker'[r]) = {} /\ OncePer(toBroker'[r], Offering)
      /\ toRunner' \in [Runner -> Seq(Messages)]
      /\ \A x \in Runner : \A m \in ToSet(toRunner'[x]) :
           m \in ToSet(toRunner[x]) \/ ToOK(m, x, maker, handshake, status)
      /\ reply' \in [Request -> {"unasked", "asked", "done", "error", "canceled", "expired"}]
      /\ taskAcceptRejects' \subseteq taskAcceptRejects
  <2>1. /\ Send(r, <<Signal("close")>>)
        /\ Answer({o \in tasks : maker[o] = r}, "error")
        /\ offers' = ElementsIn(offers, {o \in Offer : maker[o] # r})
    BY DEF RemoveConnection
  <2>2. /\ toBroker' \in [Runner -> Seq(Messages)]
        /\ \A x \in Runner : x # r => toBroker'[x] = toBroker[x]
        /\ toBroker'[r] = <<>>
    BY <1>1 DEF RemoveConnection, TypeOK
  <2>3. ToSet(toBroker'[r]) = {} /\ OncePer(toBroker'[r], Offering)
    BY <2>2, FewElements DEF OncePer
  <2>4. offers \in Seq(Offer) /\ Once(offers)
    BY <1>1 DEF TypeOK, ListInv
  <2>5. /\ offers' \in Seq(Offer) /\ Once(offers')
        /\ \A o : Contains(offers', o) <=> Contains(offers, o) /\ o \in {x \in Offer : maker[x] # r}
    BY <2>1, <2>4, ElementsInProperties
  <2>6. \A o \in ToSet(offers') : o \in ToSet(offers) /\ maker[o] # r
    BY <2>4, <2>5, Elements
  <2>7. /\ toRunner' \in [Runner -> Seq(Messages)]
        /\ \A x \in Runner : \A m \in ToSet(toRunner'[x]) :
             m \in ToSet(toRunner[x]) \/ ToOK(m, x, maker, handshake, status)
    <3>1. /\ <<Signal("close")>> \in Seq(Messages)
          /\ \A m \in ToSet(<<Signal("close")>>) : ToOK(m, r, maker, handshake, status)
      BY Signals
    <3>2. /\ toRunner' \in [Runner -> Seq(Messages)]
          /\ \A x \in Runner : x # r => toRunner'[x] = toRunner[x]
          /\ ToSet(toRunner'[r]) \subseteq ToSet(toRunner[r]) \cup ToSet(<<Signal("close")>>)
      BY <1>1, <2>1, <3>1, Sent
    <3>. QED
      BY <3>1, <3>2
  <2>8. /\ reply' \in [Request -> {"unasked", "asked", "done", "error", "canceled", "expired"}]
        /\ taskAcceptRejects' \subseteq taskAcceptRejects
    BY <1>1, <2>1, Answered
  <2>. QED
    BY <2>2, <2>3, <2>5, <2>6, <2>7, <2>8
<1>3. TypeOK'
  BY <1>1, <1>2 DEF RemoveConnection, TypeOK
<1>4. Ages
  BY <1>1, <1>2 DEF RemoveConnection, Ages
<1>5. MadeInv'
  BY <1>1, <1>2 DEF RemoveConnection, MadeInv
<1>6. ListInv'
  BY <1>1, <1>2 DEF RemoveConnection, ListInv
<1>7. MessageInv'
  BY <1>1, <1>2, <1>4, MessagesKept DEF RemoveConnection
<1>8. OfferedInv'
  BY <1>1, <1>2, OfferedKept DEF RemoveConnection, OfferedInv
<1>. QED
  BY <1>3, <1>4, <1>5, <1>6, <1>7, <1>8 DEF BrokerInv

LEMMA StartDrainingKeeps ==
  ASSUME BrokerInv, StartDraining
  PROVE  BrokerInv' /\ Ages
<1>1. TypeOK /\ MadeInv /\ ListInv /\ MessageInv /\ OfferedInv
  BY DEF BrokerInv
<1>2. /\ toRunner' \in [Runner -> Seq(Messages)]
      /\ \A x \in Runner : \A m \in ToSet(toRunner'[x]) :
           m \in ToSet(toRunner[x]) \/ ToOK(m, x, maker, handshake, status)
  <2>1. \A x \in Runner : toRunner[x] \in Seq(Messages)
    BY <1>1 DEF TypeOK
  <2>2. Signal("drain") \in Messages /\ \A x \in Runner : ToOK(Signal("drain"), x, maker, handshake, status)
    BY Signals
  <2>3. \A x \in Runner : /\ Append(toRunner[x], Signal("drain")) \in Seq(Messages)
                          /\ ToSet(Append(toRunner[x], Signal("drain")))
                               = ToSet(toRunner[x]) \cup {Signal("drain")}
    BY <2>1, <2>2, AppendElements
  <2>. QED
    BY <2>1, <2>2, <2>3 DEF StartDraining
<1>3. TypeOK'
  BY <1>1, <1>2 DEF StartDraining, TypeOK
<1>4. Ages
  BY <1>1, <1>2 DEF StartDraining, Ages
<1>5. MadeInv'
  BY <1>1, <1>2 DEF StartDraining, MadeInv
<1>6. ListInv'
  BY <1>1, <1>2 DEF StartDraining, ListInv
<1>7. MessageInv'
  BY <1>1, <1>2, <1>4, MessagesKept DEF StartDraining
<1>8. OfferedInv'
  BY <1>1, <1>2, OfferedKept DEF StartDraining, OfferedInv
<1>. QED
  BY <1>3, <1>4, <1>5, <1>6, <1>7, <1>8 DEF BrokerInv

LEMMA ConnectKeeps ==
  ASSUME BrokerInv, NEW r \in Runner, Connect(r)
  PROVE  BrokerInv' /\ Ages
<1>1. TypeOK /\ MadeInv /\ ListInv /\ MessageInv /\ OfferedInv
  BY DEF BrokerInv
<1>2. /\ toBroker' \in [Runner -> Seq(Messages)]
      /\ \A x \in Runner : x # r => toBroker'[x] = toBroker[x]
      /\ \A m \in ToSet(toBroker'[r]) : m.type = "info"
      /\ OncePer(toBroker'[r], Offering)
  <2>1. Signal("info") \in Messages /\ Signal("info").type = "info"
    BY MessageTypes DEF MessageType
  <2>2. <<Signal("info")>> \in Seq(Messages) /\ ToSet(<<Signal("info")>>) = {Signal("info")}
    BY <2>1, FewElements
  <2>3. /\ toBroker' \in [Runner -> Seq(Messages)]
        /\ \A x \in Runner : x # r => toBroker'[x] = toBroker[x]
        /\ toBroker'[r] = <<Signal("info")>>
    BY <1>1, <2>2 DEF Connect, TypeOK
  <2>4. OncePer(toBroker'[r], Offering)
    BY <2>3 DEF OncePer
  <2>. QED
    BY <2>1, <2>2, <2>3, <2>4
<1>3. TypeOK'
  BY <1>1, <1>2 DEF Connect, TypeOK
<1>4. Ages
  BY <1>1, <1>2 DEF Connect, Ages
<1>5. MadeInv'
  BY <1>1, <1>2 DEF Connect, MadeInv
<1>6. ListInv'
  BY <1>1, <1>2 DEF Connect, ListInv
<1>7. MessageInv'
  <2>1. \A m \in ToSet(toBroker'[r]) : FromOK(m, r, maker, handshake, status)
    BY <1>2 DEF FromOK, Answering, Ending
  <2>. QED
    BY <1>1, <1>2, <1>4, <2>1, MessagesKept DEF Connect
<1>8. OfferedInv'
  <2>1. \A x \in Runner : /\ OncePer(toBroker'[x], Offering)
                          /\ \A m \in ToSet(toBroker'[x]) \cap Offering : m \in ToSet(toBroker[x])
    BY <1>1, <1>2 DEF OfferedInv, Offering
  <2>. QED
    BY <1>1, <2>1, OfferedKept DEF Connect
<1>. QED
  BY <1>3, <1>4, <1>5, <1>6, <1>7, <1>8 DEF BrokerInv

LEMMA SwitchOffersKeeps ==
  ASSUME BrokerInv, NEW r \in Runner, SwitchOffers(r)
  PROVE  BrokerInv' /\ Ages
<1>1. TypeOK /\ MadeInv /\ ListInv /\ MessageInv /\ OfferedInv
  BY DEF BrokerInv
<1>2. /\ toRunner' \in [Runner -> Seq(Messages)]
      /\ \A x \in Runner : ToSet(toRunner'[x]) \subseteq ToSet(toRunner[x])
  BY <1>1, ReceivedByRunner DEF SwitchOffers
<1>3. TypeOK'
  BY <1>1, <1>2 DEF SwitchOffers, TypeOK
<1>4. Ages
  BY <1>1, <1>2 DEF SwitchOffers, Ages
<1>5. MadeInv'
  BY <1>1, <1>2 DEF SwitchOffers, MadeInv
<1>6. ListInv'
  BY <1>1, <1>2 DEF SwitchOffers, ListInv
<1>7. MessageInv'
  BY <1>1, <1>2, <1>4, MessagesKept DEF SwitchOffers
<1>8. OfferedInv'
  BY <1>1, <1>2, OfferedKept DEF SwitchOffers, OfferedInv
<1>. QED
  BY <1>3, <1>4, <1>5, <1>6, <1>7, <1>8 DEF BrokerInv

LEMMA CrashKeeps ==
  ASSUME BrokerInv, NEW r \in Runner, Crash(r)
  PROVE  BrokerInv' /\ Ages
<1>1. TypeOK /\ MadeInv /\ ListInv /\ MessageInv /\ OfferedInv
  BY DEF BrokerInv
<1>2. /\ toRunner' \in [Runner -> Seq(Messages)]
      /\ \A x \in Runner : ToSet(toRunner'[x]) \subseteq ToSet(toRunner[x])
  <2>1. /\ toRunner' \in [Runner -> Seq(Messages)]
        /\ \A x \in Runner : x # r => toRunner'[x] = toRunner[x]
        /\ toRunner'[r] = <<>>
    BY <1>1 DEF Crash, TypeOK
  <2>. QED
    BY <2>1, FewElements
<1>3. TypeOK'
  BY <1>1, <1>2 DEF Crash, RunningTasks, ActiveStatus, TypeOK
<1>4. Ages
  BY <1>1, <1>2 DEF Crash, RunningTasks, ActiveStatus, Ages
<1>5. MadeInv'
  BY <1>1, <1>2 DEF Crash, RunningTasks, ActiveStatus, MadeInv
<1>6. ListInv'
  BY <1>1, <1>2 DEF Crash, RunningTasks, ActiveStatus, ListInv
<1>7. MessageInv'
  BY <1>1, <1>2, <1>4, MessagesKept DEF Crash, RunningTasks, ActiveStatus
<1>8. OfferedInv'
  BY <1>1, <1>2, OfferedKept DEF Crash, RunningTasks, ActiveStatus, OfferedInv
<1>. QED
  BY <1>3, <1>4, <1>5, <1>6, <1>7, <1>8 DEF BrokerInv

-----------------------------------------------------------------------------
(* Offers and tasks of the runners *)

LEMMA OldOffers ==
  ASSUME TypeOK, MadeInv, MessageInv, OfferedInv, NEW r \in Runner
  PROVE  /\ OncePer(toBroker[r], Offering)
         /\ \A m \in ToSet(toBroker[r]) \cap Offering : m.offer <= made
<1>1. ASSUME NEW m \in ToSet(toBroker[r]) \cap Offering PROVE m.offer <= made
  <2>1. m.offer \in Offer /\ maker[m.offer] = r
    BY DEF MessageInv, FromOK, Offering
  <2>2. r # None /\ made \in Nat
    BY BrokerAssumption DEF TypeOK
  <2>. QED
    BY <2>1, <2>2 DEF MadeInv, Offer
<1>. QED
  BY <1>1 DEF OfferedInv

LEMMA NewOffers ==
  ASSUME TypeOK, MadeInv, MessageInv, OfferedInv, NEW r \in Runner,
         NEW ms \in Seq(Messages), OncePer(ms, Offering), ToSet(ms) \cap Offering = {},
         NEW running \in Nat, SendOffersAfter(r, ms, running)
  PROVE  \E n : Offers(r, ms, n) /\ OncePer(toBroker'[r], Offering)
  BY OldOffers, SendOffersOffers

LEMMA NoMessages ==
  <<>> \in Seq(Messages) /\ OncePer(<<>>, Offering) /\ ToSet(<<>>) = {}
  BY FewElements DEF OncePer

LEMMA SendOffersKeeps ==
  ASSUME BrokerInv, NEW r \in Runner, SendOffers(r)
  PROVE  BrokerInv' /\ Ages
<1>1. TypeOK /\ MadeInv /\ ListInv /\ MessageInv /\ OfferedInv
  BY DEF BrokerInv
<1>2. PICK n : /\ Offers(r, <<>>, n)
               /\ OncePer(toBroker'[r], Offering)
  <2>1. Cardinality(RunningTasks(r)) \in Nat
    BY RunningTasksFinite DEF RunningTasks
  <2>. QED
    BY <1>1, <2>1, NewOffers, NoMessages DEF SendOffers
<1>3. /\ n \in Nat /\ made \in Nat /\ made' = made + n /\ made' \in 0..MaxOffers
      /\ maker' = [o \in Offer |-> IF o \in (made + 1)..(made + n) THEN r ELSE maker[o]]
      /\ maker' \in [Offer -> Runner \cup {None}]
      /\ \A o \in Offer : o \in (made + 1)..(made + n) =>
           maker[o] = None /\ handshake[o] = "none" /\ status[o] = "none"
      /\ openOffers' \in [Runner -> SUBSET Offer]
      /\ openOffers'[r] \subseteq openOffers[r] \cup (made + 1)..(made + n)
      /\ \A x \in Runner : x # r => openOffers'[x] = openOffers[x]
      /\ toBroker' \in [Runner -> Seq(Messages)]
      /\ \A x \in Runner : x # r => toBroker'[x] = toBroker[x]
  <2>1. made \in 0..MaxOffers /\ MaxOffers \in Nat
    BY <1>1, BrokerAssumption DEF TypeOK
  <2>2. /\ n \in Nat /\ made' = made + n /\ made' <= MaxOffers
        /\ maker' = [o \in Offer |-> IF o \in (made + 1)..(made + n) THEN r ELSE maker[o]]
        /\ openOffers' \in [Runner -> SUBSET Offer]
        /\ openOffers'[r] \subseteq openOffers[r] \cup (made + 1)..(made + n)
        /\ \A x \in Runner : x # r => openOffers'[x] = openOffers[x]
        /\ toBroker' \in [Runner -> Seq(Messages)]
        /\ \A x \in Runner : x # r => toBroker'[x] = toBroker[x]
    BY <1>2 DEF Offers
  <2>3. made' \in 0..MaxOffers
    BY <2>1, <2>2
  <2>4. \A o \in Offer : o \in (made + 1)..(made + n) => o > made
    BY <2>1, <2>2 DEF Offer
  <2>5. \A o \in Offer : o > made =>
          maker[o] = None /\ handshake[o] = "none" /\ status[o] = "none"
    BY <1>1, BrokerAssumption DEF MadeInv
  <2>6. maker' \in [Offer -> Runner \cup {None}]
    BY <1>1, <2>2 DEF TypeOK
  <2>. QED
    BY <2>1, <2>2, <2>3, <2>4, <2>5, <2>6
<1>4. \A m \in ToSet(toBroker'[r]) :
         \/ m \in ToSet(toBroker[r]) \cup ToSet(<<>>)
         \/ \E i \in 1..n : m = Message("taskoffer", made + i)
  BY <1>2 DEF Offers
<1>5. ASSUME NEW i \in 1..n, NEW m, m = Message("taskoffer", made + i)
      PROVE  /\ m.type = "taskoffer" /\ m.offer \in Offer /\ m.offer > made
             /\ maker'[m.offer] = r
             /\ handshake[m.offer] = "none" /\ m.offer \notin ToSet(offers)
  <2>1. m.type = "taskoffer" /\ m.offer = made + i
    BY <1>5, MessageTypes
  <2>2. made + i \in Offer /\ made + i \in (made + 1)..(made + n) /\ made + i > made
    BY <1>3, BrokerAssumption DEF Offer
  <2>3. maker[made + i] = None /\ handshake[made + i] = "none" /\ maker'[made + i] = r
    BY <1>3, <2>2
  <2>4. None \notin knownRunners
    BY <1>1, BrokerAssumption DEF TypeOK
  <2>5. made + i \notin ToSet(offers)
    BY <1>1, <2>3, <2>4 DEF ListInv
  <2>. QED
    BY <2>1, <2>2, <2>3, <2>5
<1>6. ToSet(<<>>) = {} /\ status' = status
  BY NoMessages DEF SendOffers
<1>7. TypeOK'
  BY <1>1, <1>3, <1>6 DEF SendOffers, TypeOK
<1>8. Ages
  BY <1>3, <1>6 DEF SendOffers, Ages
<1>9. MadeInv'
  <2>1. \A x \in Offer : maker'[x] = None <=> x > made'
    <3>1. \A x \in Offer : maker[x] = None <=> x > made
      BY <1>1 DEF MadeInv
    <3>2. r # None
      BY BrokerAssumption
    <3>3. \A x \in Offer : x > made' <=> x > made /\ x \notin (made + 1)..(made + n)
      BY <1>3 DEF Offer
    <3>. QED
      BY <1>3, <3>1, <3>2, <3>3
  <2>2. UNCHANGED <<handshake, matched, tasks, taskTimer, taskAcceptRejects>>
    BY DEF SendOffers
  <2>3. \A x \in Offer : \A y \in Runner : x \in openOffers'[y] =>
          maker'[x] = y /\ status[x] = "none"
    <3>. SUFFICES ASSUME NEW x \in Offer, NEW y \in Runner, x \in openOffers'[y]
                  PROVE  maker'[x] = y /\ status[x] = "none"
      OBVIOUS
    <3>1. CASE x \in openOffers[y]
      <4>1. maker[x] = y /\ status[x] = "none" /\ y # None
        BY <1>1, <3>1, BrokerAssumption DEF MadeInv
      <4>. QED
        BY <1>3, <4>1
    <3>2. CASE x \notin openOffers[y]
      <4>1. y = r /\ x \in (made + 1)..(made + n)
        BY <1>3, <3>2
      <4>. QED
        BY <1>3, <4>1
    <3>. QED
      BY <3>1, <3>2
  <2>4. \A x \in Offer : maker[x] # None => maker'[x] = maker[x]
    BY <1>3
  <2>5. \A x \in Offer : status[x] = "none" <=> status'[x] = "none"
    BY <1>6 DEF SendOffers
  <2>. QED
    BY <1>1, <2>1, <2>2, <2>3, <2>4, <2>5, BrokerAssumption DEF MadeInv
<1>10. ListInv'
  <2>1. UNCHANGED <<offers, handshake, knownRunners>>
    BY DEF SendOffers
  <2>2. None \notin knownRunners /\ ToSet(offers) \subseteq Offer
    BY <1>1, BrokerAssumption, Elements DEF TypeOK
  <2>. QED
    BY <1>1, <1>3, <2>1, <2>2 DEF ListInv
<1>11. MessageInv'
  <2>1. \A m \in ToSet(toBroker'[r]) :
          m \in ToSet(toBroker[r]) \/ FromOK(m, r, maker', handshake', status')
    BY <1>4, <1>5, <1>6 DEF FromOK, Answering, Ending
  <2>2. \A x \in Runner : ToSet(toRunner'[x]) \subseteq ToSet(toRunner[x])
    BY <1>6 DEF SendOffers
  <2>. QED
    BY <1>1, <1>8, <1>3, <2>1, <2>2, MessagesKept
<1>12. OfferedInv'
  <2>1. UNCHANGED <<handshake, offers>>
    BY DEF SendOffers
  <2>2. \A m \in ToSet(toBroker'[r]) \cap Offering :
          handshake[m.offer] = "none" /\ m.offer \notin ToSet(offers)
    <3>. TAKE m \in ToSet(toBroker'[r]) \cap Offering
    <3>1. m \in ToSet(toBroker[r]) \/ \E i \in 1..n : m = Message("taskoffer", made + i)
      BY <1>4, <1>6
    <3>2. CASE m \in ToSet(toBroker[r])
      BY <1>1, <3>2 DEF OfferedInv
    <3>. QED
      BY <1>5, <3>1, <3>2
  <2>. QED
    BY <1>1, <1>2, <1>3, <2>1, <2>2 DEF OfferedInv
<1>. QED
  BY <1>7, <1>8, <1>9, <1>10, <1>11, <1>12 DEF BrokerInv

\* The end of a task in a runner, which may send a message about it, and offers.
Finishes(o, ended, ms) ==
  /\ status[o] \in ActiveStatus /\ ended \in {"dropped", "ended"}
  /\ ms = <<>> \/ \E type \in Ending : /\ ms = <<Message(type, o)>>
                                       /\ type = "taskdone" => ended = "ended"
  /\ FinishTask(o, ended, ms)
  /\ UNCHANGED <<brokerVars, requesterVars, canSendOffers, link>>
  /\ toRunner' \in [Runner -> Seq(Messages)]
  /\ \A x \in Runner : ToSet(toRunner'[x]) \subseteq ToSet(toRunner[x])

LEMMA FinishesKeeps ==
  ASSUME BrokerInv, NEW o \in Offer, NEW ended, NEW ms, Finishes(o, ended, ms)
  PROVE  BrokerInv' /\ Ages
<1>1. TypeOK /\ MadeInv /\ ListInv /\ MessageInv /\ OfferedInv
  BY DEF BrokerInv
<1>. DEFINE r == maker[o]
<1>2. r \in Runner /\ status[o] # "none" /\ handshake[o] # "none"
  <2>1. status[o] # "none"
    BY DEF Finishes, ActiveStatus
  <2>. QED
    BY <1>1, <2>1 DEF MadeInv
<1>3. /\ ms \in Seq(Messages) /\ OncePer(ms, Offering) /\ ToSet(ms) \cap Offering = {}
      /\ \A m \in ToSet(ms) : /\ m.type \in Ending /\ m.offer = o
                              /\ m.type = "taskdone" => ended = "ended"
  <2>1. CASE ms = <<>>
    BY <2>1, NoMessages
  <2>2. ASSUME NEW type \in Ending, ms = <<Message(type, o)>>, type = "taskdone" => ended = "ended"
        PROVE  /\ ms \in Seq(Messages) /\ OncePer(ms, Offering) /\ ToSet(ms) \cap Offering = {}
               /\ \A m \in ToSet(ms) : /\ m.type \in Ending /\ m.offer = o
                                       /\ m.type = "taskdone" => ended = "ended"
    <3>1. /\ ms \in Seq(Messages) /\ ToSet(ms) = {Message(type, o)}
          /\ Message(type, o).type = type /\ Message(type, o).offer = o
          /\ OncePer(ms, Offering) /\ ToSet(ms) \cap Offering = {}
      BY <2>2, Replies
    <3>. QED
      BY <2>2, <3>1
  <2>. QED
    BY <2>1, <2>2 DEF Finishes
<1>. HIDE DEF r
<1>. USE <1>2
<1>4. SendOffersAfter(r, ms, Cardinality(RunningTasks(r) \ {o}))
  BY DEF Finishes, FinishTask, r
<1>5. PICK n : /\ Offers(r, ms, n)
               /\ OncePer(toBroker'[r], Offering)
  <2>1. Cardinality(RunningTasks(r) \ {o}) \in Nat
    BY RunningTasksFinite DEF RunningTasks
  <2>. QED
    BY <1>1, <1>2, <1>3, <1>4, <2>1, NewOffers
<1>6. /\ n \in Nat /\ made \in Nat /\ made' = made + n /\ made' \in 0..MaxOffers
      /\ maker' = [y \in Offer |-> IF y \in (made + 1)..(made + n) THEN r ELSE maker[y]]
      /\ maker' \in [Offer -> Runner \cup {None}]
      /\ \A y \in Offer : y \in (made + 1)..(made + n) =>
           maker[y] = None /\ handshake[y] = "none" /\ status[y] = "none"
      /\ openOffers' \in [Runner -> SUBSET Offer]
      /\ openOffers'[r] \subseteq openOffers[r] \cup (made + 1)..(made + n)
      /\ \A x \in Runner : x # r => openOffers'[x] = openOffers[x]
      /\ toBroker' \in [Runner -> Seq(Messages)]
      /\ \A x \in Runner : x # r => toBroker'[x] = toBroker[x]
  <2>1. made \in 0..MaxOffers /\ MaxOffers \in Nat
    BY <1>1, BrokerAssumption DEF TypeOK
  <2>2. /\ n \in Nat /\ made' = made + n /\ made' <= MaxOffers
        /\ maker' = [y \in Offer |-> IF y \in (made + 1)..(made + n) THEN r ELSE maker[y]]
        /\ openOffers' \in [Runner -> SUBSET Offer]
        /\ openOffers'[r] \subseteq openOffers[r] \cup (made + 1)..(made + n)
        /\ \A x \in Runner : x # r => openOffers'[x] = openOffers[x]
        /\ toBroker' \in [Runner -> Seq(Messages)]
        /\ \A x \in Runner : x # r => toBroker'[x] = toBroker[x]
    BY <1>5 DEF Offers
  <2>3. made' \in 0..MaxOffers
    BY <2>1, <2>2
  <2>4. \A y \in Offer : y \in (made + 1)..(made + n) => y > made
    BY <2>1, <2>2 DEF Offer
  <2>5. \A y \in Offer : y > made =>
          maker[y] = None /\ handshake[y] = "none" /\ status[y] = "none"
    BY <1>1, BrokerAssumption DEF MadeInv
  <2>6. maker' \in [Offer -> Runner \cup {None}]
    BY <1>1, <2>2 DEF TypeOK
  <2>. QED
    BY <2>1, <2>2, <2>3, <2>4, <2>5, <2>6
<1>7. \A m \in ToSet(toBroker'[r]) :
         \/ m \in ToSet(toBroker[r]) \cup ToSet(ms)
         \/ \E i \in 1..n : m = Message("taskoffer", made + i)
  BY <1>5 DEF Offers
<1>8. ASSUME NEW i \in 1..n, NEW m, m = Message("taskoffer", made + i)
      PROVE  /\ m.type = "taskoffer" /\ m.offer \in Offer /\ m.offer > made
             /\ maker'[m.offer] = r
             /\ handshake[m.offer] = "none" /\ m.offer \notin ToSet(offers)
  <2>1. m.type = "taskoffer" /\ m.offer = made + i
    BY <1>8, MessageTypes
  <2>2. made + i \in Offer /\ made + i \in (made + 1)..(made + n) /\ made + i > made
    BY <1>6, BrokerAssumption DEF Offer
  <2>3. maker[made + i] = None /\ handshake[made + i] = "none" /\ maker'[made + i] = r
    BY <1>6, <2>2
  <2>4. None \notin knownRunners
    BY <1>1, BrokerAssumption DEF TypeOK
  <2>5. made + i \notin ToSet(offers)
    BY <1>1, <2>3, <2>4 DEF ListInv
  <2>. QED
    BY <2>1, <2>2, <2>3, <2>5
<1>9. /\ status' = [status EXCEPT ![o] = ended]
      /\ status' \in [Offer -> ActiveStatus \union {"none", "dropped", "ended"}]
      /\ status[o] \in ActiveStatus /\ status'[o] = ended /\ ended \in {"dropped", "ended"}
      /\ \A x \in Offer : x # o => status'[x] = status[x]
      /\ \A x \in Offer : status[x] = "none" <=> status'[x] = "none"
      /\ \A m \in ToSet(ms) : m.type \in Ending /\ FromOK(m, r, maker', handshake', status')
      /\ ToSet(ms) \cap Offering = {}
      /\ \A x \in Runner : ToSet(toRunner'[x]) \subseteq ToSet(toRunner[x])
  <2>1. /\ status' = [status EXCEPT ![o] = ended]
        /\ status[o] \in ActiveStatus /\ ended \in {"dropped", "ended"}
        /\ handshake' = handshake
        /\ \A x \in Runner : ToSet(toRunner'[x]) \subseteq ToSet(toRunner[x])
    BY DEF Finishes, FinishTask
  <2>2. /\ status' \in [Offer -> ActiveStatus \union {"none", "dropped", "ended"}]
        /\ status'[o] = ended /\ \A x \in Offer : x # o => status'[x] = status[x]
    BY <1>1, <2>1 DEF TypeOK
  <2>3. \A x \in Offer : status[x] = "none" <=> status'[x] = "none"
    BY <2>1, <2>2 DEF ActiveStatus
  <2>4. maker'[o] = r
    BY <1>6, <1>2, BrokerAssumption DEF r
  <2>5. \A m \in ToSet(ms) : m.type \in Ending /\ FromOK(m, r, maker', handshake', status')
    BY <1>2, <1>3, <2>1, <2>2, <2>4 DEF FromOK, Answering, Ending
  <2>. QED
    BY <1>3, <2>1, <2>2, <2>3, <2>5
<1>10. TypeOK'
  BY <1>1, <1>6, <1>9 DEF Finishes, TypeOK
<1>11. Ages
  <2>1. handshake' = handshake
    BY DEF Finishes
  <2>2. \A x \in Offer : status[x] \in {"ended", "dropped"} => status'[x] = status[x]
    BY <1>9 DEF ActiveStatus
  <2>. QED
    BY <1>6, <1>9, <2>1, <2>2 DEF Ages
<1>12. MadeInv'
  <2>1. \A x \in Offer : maker'[x] = None <=> x > made'
    <3>1. \A x \in Offer : maker[x] = None <=> x > made
      BY <1>1 DEF MadeInv
    <3>2. r # None
      BY BrokerAssumption
    <3>3. \A x \in Offer : x > made' <=> x > made /\ x \notin (made + 1)..(made + n)
      BY <1>6 DEF Offer
    <3>. QED
      BY <1>6, <3>1, <3>2, <3>3
  <2>2. UNCHANGED <<handshake, matched, tasks, taskTimer, taskAcceptRejects>>
    BY DEF Finishes
  <2>3. \A x \in Offer : \A y \in Runner : x \in openOffers'[y] =>
          maker'[x] = y /\ status[x] = "none"
    <3>. SUFFICES ASSUME NEW x \in Offer, NEW y \in Runner, x \in openOffers'[y]
                  PROVE  maker'[x] = y /\ status[x] = "none"
      OBVIOUS
    <3>1. CASE x \in openOffers[y]
      <4>1. maker[x] = y /\ status[x] = "none" /\ y # None
        BY <1>1, <3>1, BrokerAssumption DEF MadeInv
      <4>. QED
        BY <1>6, <4>1
    <3>2. CASE x \notin openOffers[y]
      <4>1. y = r /\ x \in (made + 1)..(made + n)
        BY <1>6, <3>2
      <4>. QED
        BY <1>6, <4>1
    <3>. QED
      BY <3>1, <3>2
  <2>4. \A x \in Offer : maker[x] # None => maker'[x] = maker[x]
    BY <1>6
  <2>5. \A x \in Offer : status[x] = "none" <=> status'[x] = "none"
    BY <1>9 DEF Finishes
  <2>. QED
    BY <1>1, <2>1, <2>2, <2>3, <2>4, <2>5, BrokerAssumption DEF MadeInv
<1>13. ListInv'
  <2>1. UNCHANGED <<offers, handshake, knownRunners>>
    BY DEF Finishes
  <2>2. None \notin knownRunners /\ ToSet(offers) \subseteq Offer
    BY <1>1, BrokerAssumption, Elements DEF TypeOK
  <2>. QED
    BY <1>1, <1>6, <2>1, <2>2 DEF ListInv
<1>14. MessageInv'
  <2>1. \A m \in ToSet(toBroker'[r]) :
          m \in ToSet(toBroker[r]) \/ FromOK(m, r, maker', handshake', status')
    BY <1>7, <1>8, <1>9 DEF FromOK, Answering, Ending
  <2>2. \A x \in Runner : ToSet(toRunner'[x]) \subseteq ToSet(toRunner[x])
    BY <1>9 DEF Finishes
  <2>. QED
    BY <1>1, <1>11, <1>6, <2>1, <2>2, MessagesKept
<1>15. OfferedInv'
  <2>1. UNCHANGED <<handshake, offers>>
    BY DEF Finishes
  <2>2. \A m \in ToSet(toBroker'[r]) \cap Offering :
          handshake[m.offer] = "none" /\ m.offer \notin ToSet(offers)
    <3>. TAKE m \in ToSet(toBroker'[r]) \cap Offering
    <3>1. m \in ToSet(toBroker[r]) \/ \E i \in 1..n : m = Message("taskoffer", made + i)
      BY <1>7, <1>9
    <3>2. CASE m \in ToSet(toBroker[r])
      BY <1>1, <3>2 DEF OfferedInv
    <3>. QED
      BY <1>8, <3>1, <3>2
  <2>. QED
    BY <1>1, <1>5, <1>6, <2>1, <2>2 DEF OfferedInv
<1>. QED
  BY <1>10, <1>11, <1>12, <1>13, <1>14, <1>15 DEF BrokerInv

\* A task in a runner goes on, and nothing is said about it.
GoesOn(o, s) ==
  /\ status' = [status EXCEPT ![o] = s]
  /\ s = status[o] \/ {s, status[o]} \subseteq ActiveStatus
  /\ UNCHANGED <<brokerVars, requesterVars, canSendOffers, openOffers, maker, made, link,
                 toBroker>>
  /\ toRunner' \in [Runner -> Seq(Messages)]
  /\ \A x \in Runner : ToSet(toRunner'[x]) \subseteq ToSet(toRunner[x])

LEMMA GoesOnKeeps ==
  ASSUME BrokerInv, NEW o \in Offer, NEW s, GoesOn(o, s)
  PROVE  BrokerInv' /\ Ages
<1>1. TypeOK /\ MadeInv /\ ListInv /\ MessageInv /\ OfferedInv
  BY DEF BrokerInv
<1>2. /\ status' \in [Offer -> ActiveStatus \union {"none", "dropped", "ended"}]
      /\ \A x \in Offer : status[x] = "none" <=> status'[x] = "none"
      /\ \A x \in Offer : status[x] \in {"dropped", "ended"} => status'[x] = status[x]
  <2>1. status[o] \in ActiveStatus \union {"none", "dropped", "ended"}
    BY <1>1 DEF TypeOK
  <2>2. s \in ActiveStatus \union {"none", "dropped", "ended"}
    BY <2>1 DEF GoesOn
  <2>3. status' \in [Offer -> ActiveStatus \union {"none", "dropped", "ended"}]
    BY <1>1, <2>2 DEF GoesOn, TypeOK
  <2>4. status'[o] = s /\ \A x \in Offer : x # o => status'[x] = status[x]
    BY <1>1 DEF GoesOn, TypeOK
  <2>5. s = status[o] \/ {s, status[o]} \subseteq ActiveStatus
    BY DEF GoesOn
  <2>. QED
    BY <2>3, <2>4, <2>5 DEF ActiveStatus
<1>3. TypeOK'
  BY <1>1, <1>2 DEF GoesOn, TypeOK
<1>4. Ages
  BY <1>1, <1>2 DEF GoesOn, Ages
<1>5. MadeInv'
  BY <1>1, <1>2 DEF GoesOn, MadeInv
<1>6. ListInv'
  BY <1>1, <1>2 DEF GoesOn, ListInv
<1>7. MessageInv'
  BY <1>1, <1>2, <1>4, MessagesKept DEF GoesOn
<1>8. OfferedInv'
  BY <1>1, <1>2, OfferedKept DEF GoesOn, OfferedInv
<1>. QED
  BY <1>3, <1>4, <1>5, <1>6, <1>7, <1>8 DEF BrokerInv

LEMMA OfferAcceptedKeeps ==
  ASSUME BrokerInv, NEW r \in Runner, OfferAccepted(r)
  PROVE  BrokerInv' /\ Ages
<1>1. TypeOK /\ MadeInv /\ ListInv /\ MessageInv /\ OfferedInv
  BY DEF BrokerInv
<1>2. PICK o : o = Head(toRunner[r]).offer
  OBVIOUS
<1>3. /\ o \in Offer /\ maker[o] = r /\ handshake[o] # "none" /\ r # None
      /\ toRunner' \in [Runner -> Seq(Messages)]
      /\ \A x \in Runner : ToSet(toRunner'[x]) \subseteq ToSet(toRunner[x])
  <2>1. FromBroker(r, "taskofferaccept") /\ PopFromBroker(r)
    BY DEF OfferAccepted
  <2>2. /\ ToOK(Head(toRunner[r]), r, maker, handshake, status)
        /\ Head(toRunner[r]).type = "taskofferaccept"
        /\ toRunner' \in [Runner -> Seq(Messages)]
        /\ \A x \in Runner : ToSet(toRunner'[x]) \subseteq ToSet(toRunner[x])
    BY <1>1, <2>1, ReceivedByRunner
  <2>. QED
    BY <1>2, <2>2, BrokerAssumption DEF ToOK
<1>4. PICK type \in Answering :
         /\ Reply(r, <<Message(type, o)>>)
         /\ \/ status' = status /\ type # "taskaccepted"
            \/ /\ status[o] = "none"
               /\ status' = [status EXCEPT ![o] = "waitingForSettings"]
  <2>1. o \in openOffers[r] => status[o] = "none"
    BY <1>1, <1>3 DEF MadeInv
  <2>2. CASE r \in Launcher /\ OfferDeferred(r, o)
    BY <2>2 DEF OfferDeferred, Answering
  <2>3. CASE OfferTaken(r, o)
    BY <2>1, <2>3 DEF OfferTaken, Answering
  <2>4. CASE OfferRefused(r, o)
    BY <2>4 DEF OfferRefused, Answering
  <2>. QED
    BY <1>2, <2>2, <2>3, <2>4 DEF OfferAccepted
<1>5. /\ toBroker' \in [Runner -> Seq(Messages)]
      /\ \A x \in Runner : x # r => toBroker'[x] = toBroker[x]
      /\ \A m \in ToSet(toBroker'[r]) : m \in ToSet(toBroker[r]) \/ m = Message(type, o)
      /\ Message(type, o).type = type /\ Message(type, o).offer = o
      /\ Message(type, o) \notin Offering
      /\ OncePer(toBroker[r], Offering) => OncePer(toBroker'[r], Offering)
  <2>1. /\ <<Message(type, o)>> \in Seq(Messages)
        /\ ToSet(<<Message(type, o)>>) = {Message(type, o)}
        /\ Message(type, o).type = type /\ Message(type, o).offer = o
        /\ OncePer(<<Message(type, o)>>, Offering)
        /\ ToSet(<<Message(type, o)>>) \cap Offering = {}
    BY <1>3, Replies
  <2>2. /\ toBroker' \in [Runner -> Seq(Messages)]
        /\ \A x \in Runner : x # r => toBroker'[x] = toBroker[x]
        /\ ToSet(toBroker'[r]) \subseteq ToSet(toBroker[r]) \cup {Message(type, o)}
        /\ OncePer(toBroker[r], Offering) => OncePer(toBroker'[r], Offering)
    <3>1. Reply(r, <<Message(type, o)>>)
      BY <1>4
    <3>2. /\ toBroker' \in [Runner -> Seq(Messages)]
          /\ \A x \in Runner : x # r => toBroker'[x] = toBroker[x]
          /\ ToSet(toBroker'[r]) \subseteq ToSet(toBroker[r]) \cup {Message(type, o)}
      BY <1>1, <2>1, <3>1, Replied
    <3>3. OncePer(toBroker[r], Offering) => OncePer(toBroker'[r], Offering)
      BY <1>1, <2>1, <3>1, Replied
    <3>. QED
      BY <3>2, <3>3
  <2>. QED
    BY <2>1, <2>2
<1>6. /\ status' \in [Offer -> ActiveStatus \union {"none", "dropped", "ended"}]
      /\ \A x \in Offer : x # o => status'[x] = status[x]
      /\ type = "taskaccepted" => status'[o] # "none"
      /\ status[o] # "none" => status'[o] = status[o]
      /\ openOffers' = [openOffers EXCEPT ![r] = @ \ {o}]
      /\ openOffers' \in [Runner -> SUBSET Offer]
      /\ \A x \in Runner : openOffers'[x] \subseteq openOffers[x]
      /\ o \notin openOffers'[r]
  <2>1. /\ openOffers' = [openOffers EXCEPT ![r] = @ \ {o}]
        /\ openOffers \in [Runner -> SUBSET Offer]
    BY <1>1, <1>2 DEF OfferAccepted, TypeOK
  <2>2. /\ status' \in [Offer -> ActiveStatus \union {"none", "dropped", "ended"}]
        /\ \A x \in Offer : x # o => status'[x] = status[x]
        /\ type = "taskaccepted" => status'[o] # "none"
        /\ status[o] # "none" => status'[o] = status[o]
    <3>1. status \in [Offer -> ActiveStatus \union {"none", "dropped", "ended"}]
      BY <1>1 DEF TypeOK
    <3>2. CASE status' = status /\ type # "taskaccepted"
      BY <3>1, <3>2
    <3>3. CASE status[o] = "none" /\ status' = [status EXCEPT ![o] = "waitingForSettings"]
      BY <1>3, <3>1, <3>3 DEF ActiveStatus
    <3>. QED
      BY <1>4, <3>2, <3>3
  <2>3. /\ openOffers' \in [Runner -> SUBSET Offer]
        /\ \A x \in Runner : openOffers'[x] \subseteq openOffers[x]
        /\ o \notin openOffers'[r]
    BY <2>1
  <2>. QED
    BY <2>1, <2>2, <2>3
<1>7. UNCHANGED <<brokerVars, requesterVars, canSendOffers, maker, made, link>>
  BY DEF OfferAccepted
<1>8. TypeOK'
  BY <1>1, <1>3, <1>5, <1>6, <1>7 DEF TypeOK
<1>9. Ages
  BY <1>6, <1>7 DEF Ages
<1>10. MadeInv'
  <2>1. \A x \in Offer : \A y \in Runner : x \in openOffers'[y] =>
          maker'[x] = y /\ status'[x] = "none"
    BY <1>1, <1>3, <1>6, <1>7 DEF MadeInv
  <2>2. \A x \in Offer : status[x] # "none" => status'[x] # "none"
    BY <1>6
  <2>3. \A x \in Offer : handshake[x] = "none" => status'[x] = "none"
    BY <1>1, <1>3, <1>6 DEF MadeInv
  <2>. QED
    BY <1>1, <1>7, <2>1, <2>2, <2>3 DEF MadeInv
<1>11. ListInv'
  BY <1>1, <1>7 DEF ListInv
<1>12. MessageInv'
  <2>1. FromOK(Message(type, o), r, maker', handshake', status')
    <3>1. type # "info" /\ type # "taskoffer" /\ type \notin Ending
      BY DEF Answering, Ending
    <3>. QED
      BY <1>3, <1>5, <1>6, <1>7, <3>1 DEF FromOK, Ending
  <2>. QED
    BY <1>1, <1>9, <1>3, <1>5, <2>1, MessagesKept
<1>13. OfferedInv'
  <2>1. \A x \in Runner : /\ OncePer(toBroker'[x], Offering)
                          /\ \A m \in ToSet(toBroker'[x]) \cap Offering : m \in ToSet(toBroker[x])
    BY <1>1, <1>5 DEF OfferedInv
  <2>. QED
    BY <1>1, <1>7, <2>1, OfferedKept
<1>. QED
  BY <1>8, <1>9, <1>10, <1>11, <1>12, <1>13 DEF BrokerInv

\* What a step of a runner with a task comes to.
LEMMA TaskCancelledEffect ==
  ASSUME BrokerInv, NEW r \in Runner, TaskCancelled(r)
  PROVE  \E o \in Offer :
           /\ o = Head(toRunner[r]).offer /\ maker[o] = r
           /\ \/ status[o] = "waitingForSettings" /\ Finishes(o, "dropped", <<>>)
              \/ status[o] = "running" /\ GoesOn(o, "aborting:cancelled")
              \/ status[o] \notin {"waitingForSettings", "running"} /\ GoesOn(o, status[o])
<1>1. TypeOK /\ MessageInv
  BY DEF BrokerInv
<1>. DEFINE o == Head(toRunner[r]).offer
<1>2. /\ o \in Offer /\ maker[o] = r
      /\ toRunner' \in [Runner -> Seq(Messages)]
      /\ \A x \in Runner : ToSet(toRunner'[x]) \subseteq ToSet(toRunner[x])
  <2>1. FromBroker(r, "taskcancel") /\ PopFromBroker(r)
    BY DEF TaskCancelled
  <2>2. /\ ToOK(Head(toRunner[r]), r, maker, handshake, status)
        /\ Head(toRunner[r]).type = "taskcancel"
        /\ toRunner' \in [Runner -> Seq(Messages)]
        /\ \A x \in Runner : ToSet(toRunner'[x]) \subseteq ToSet(toRunner[x])
    BY <1>1, <2>1, ReceivedByRunner
  <2>. QED
    BY <2>2 DEF ToOK
<1>3. /\ UNCHANGED <<brokerVars, requesterVars, canSendOffers, link>>
      /\ \/ status[o] = "waitingForSettings" /\ FinishTask(o, "dropped", <<>>)
         \/ /\ status[o] = "running"
            /\ status' = [status EXCEPT ![o] = "aborting:cancelled"]
            /\ UNCHANGED <<openOffers, maker, made, toBroker>>
         \/ /\ status[o] \notin {"waitingForSettings", "running"}
            /\ UNCHANGED <<openOffers, maker, made, toBroker, status>>
  BY DEF TaskCancelled
<1>4. status = [status EXCEPT ![o] = status[o]]
  BY <1>1, <1>2 DEF TypeOK
<1>. HIDE DEF o
<1>5. CASE status[o] = "waitingForSettings" /\ FinishTask(o, "dropped", <<>>)
  <2>1. Finishes(o, "dropped", <<>>)
    BY <1>2, <1>3, <1>5 DEF Finishes, ActiveStatus
  <2>. QED
    BY <1>2, <1>5, <2>1 DEF o
<1>6. CASE /\ status[o] = "running"
           /\ status' = [status EXCEPT ![o] = "aborting:cancelled"]
           /\ UNCHANGED <<openOffers, maker, made, toBroker>>
  <2>1. GoesOn(o, "aborting:cancelled")
    BY <1>2, <1>3, <1>6 DEF GoesOn, ActiveStatus
  <2>. QED
    BY <1>2, <1>6, <2>1 DEF o
<1>7. CASE /\ status[o] \notin {"waitingForSettings", "running"}
           /\ UNCHANGED <<openOffers, maker, made, toBroker, status>>
  <2>1. GoesOn(o, status[o])
    BY <1>2, <1>3, <1>4, <1>7 DEF GoesOn
  <2>. QED
    BY <1>2, <1>7, <2>1 DEF o
<1>. QED
  BY <1>3, <1>5, <1>6, <1>7

LEMMA ReceivedSettingsEffect ==
  ASSUME BrokerInv, NEW r \in Runner, ReceivedSettings(r)
  PROVE  \E o \in Offer :
           /\ o = Head(toRunner[r]).offer /\ maker[o] = r
           /\ \/ status[o] = "waitingForSettings" /\ GoesOn(o, "running")
              \/ status[o] # "waitingForSettings" /\ GoesOn(o, status[o])
<1>1. TypeOK /\ MessageInv
  BY DEF BrokerInv
<1>. DEFINE o == Head(toRunner[r]).offer
<1>2. /\ o \in Offer /\ maker[o] = r
      /\ toRunner' \in [Runner -> Seq(Messages)]
      /\ \A x \in Runner : ToSet(toRunner'[x]) \subseteq ToSet(toRunner[x])
  <2>1. FromBroker(r, "tasksettings") /\ PopFromBroker(r)
    BY DEF ReceivedSettings
  <2>2. /\ ToOK(Head(toRunner[r]), r, maker, handshake, status)
        /\ Head(toRunner[r]).type = "tasksettings"
        /\ toRunner' \in [Runner -> Seq(Messages)]
        /\ \A x \in Runner : ToSet(toRunner'[x]) \subseteq ToSet(toRunner[x])
    BY <1>1, <2>1, ReceivedByRunner
  <2>. QED
    BY <2>2 DEF ToOK
<1>3. /\ UNCHANGED <<brokerVars, requesterVars, canSendOffers, link, openOffers, maker, made,
                     toBroker>>
      /\ status' = [status EXCEPT ![o] = IF status[o] = "waitingForSettings" THEN "running"
                                         ELSE status[o]]
  BY <1>1, <1>2 DEF ReceivedSettings, TypeOK
<1>. HIDE DEF o
<1>4. CASE status[o] = "waitingForSettings"
  <2>1. GoesOn(o, "running")
    BY <1>2, <1>3, <1>4 DEF GoesOn, ActiveStatus
  <2>. QED
    BY <1>2, <1>4, <2>1 DEF o
<1>5. CASE status[o] # "waitingForSettings"
  <2>1. GoesOn(o, status[o])
    BY <1>2, <1>3, <1>5 DEF GoesOn
  <2>. QED
    BY <1>2, <1>5, <2>1 DEF o
<1>. QED
  BY <1>4, <1>5

LEMMA TaskTimedOutEffect ==
  ASSUME BrokerInv, NEW o \in Offer, TaskTimedOut(o)
  PROVE  \/ status[o] = "waitingForSettings" /\ Finishes(o, "dropped", <<Message("taskerror", o)>>)
         \/ status[o] = "running" /\ GoesOn(o, "aborting:timeout")
<1>1. TypeOK
  BY DEF BrokerInv
<1>2. /\ toRunner' \in [Runner -> Seq(Messages)]
      /\ \A x \in Runner : ToSet(toRunner'[x]) \subseteq ToSet(toRunner[x])
  BY <1>1 DEF TaskTimedOut, TypeOK
<1>3. CASE status[o] = "waitingForSettings" /\ FinishTask(o, "dropped", <<Message("taskerror", o)>>)
  BY <1>2, <1>3 DEF TaskTimedOut, Finishes, ActiveStatus, Ending
<1>4. CASE /\ status[o] = "running"
           /\ status' = [status EXCEPT ![o] = "aborting:timeout"]
           /\ UNCHANGED <<openOffers, maker, made, toBroker>>
  BY <1>2, <1>4 DEF TaskTimedOut, GoesOn, ActiveStatus
<1>. QED
  BY <1>3, <1>4 DEF TaskTimedOut

LEMMA TaskExecutedEffect ==
  ASSUME BrokerInv, NEW o \in Offer, TaskExecuted(o)
  PROVE  /\ status[o] \in {"running", "aborting:timeout", "aborting:cancelled"}
         /\ \E ms : /\ Finishes(o, "ended", ms)
                    /\ status[o] = "aborting:cancelled" => ms = <<>>
<1>1. TypeOK
  BY DEF BrokerInv
<1>2. /\ toRunner' \in [Runner -> Seq(Messages)]
      /\ \A x \in Runner : ToSet(toRunner'[x]) \subseteq ToSet(toRunner[x])
  BY <1>1 DEF TaskExecuted, TypeOK
<1>3. ASSUME status[o] \in {"running", "aborting:timeout"},
             NEW type \in {"taskdone", "taskerror"},
             FinishTask(o, "ended", <<Message(type, o)>>)
      PROVE  Finishes(o, "ended", <<Message(type, o)>>)
  BY <1>2, <1>3 DEF TaskExecuted, Finishes, ActiveStatus, Ending
<1>4. ASSUME status[o] = "aborting:cancelled", FinishTask(o, "ended", <<>>)
      PROVE  Finishes(o, "ended", <<>>)
  BY <1>2, <1>4 DEF TaskExecuted, Finishes, ActiveStatus
<1>. QED
  BY <1>3, <1>4 DEF TaskExecuted

-----------------------------------------------------------------------------
LEMMA BrokerStep ==
  ASSUME BrokerInv, [Next]_vars
  PROVE  BrokerInv' /\ Ages
<1>1. ASSUME NEW r \in Runner, RunnerNext(r) PROVE BrokerInv' /\ Ages
  <2>1. CASE BrokerReceives(r)
    BY <2>1, RegisterRunnerKeeps, TaskOfferedKeeps, AnswersTooLateKeeps, TaskAcceptedKeeps,
       TaskRejectedKeeps, TaskDeferredKeeps, TaskEndedKeeps DEF BrokerReceives
  <2>2. CASE RunnerReceives(r)
    <3>1. CASE TaskCancelled(r)
      BY <3>1, TaskCancelledEffect, FinishesKeeps, GoesOnKeeps
    <3>2. CASE ReceivedSettings(r)
      BY <3>2, ReceivedSettingsEffect, GoesOnKeeps
    <3>. QED
      BY <2>2, <3>1, <3>2, SwitchOffersKeeps, OfferAcceptedKeeps DEF RunnerReceives
  <2>. QED
    BY <1>1, <2>1, <2>2, RemoveConnectionKeeps, ConnectKeeps, SendOffersKeeps, CrashKeeps
       DEF RunnerNext
<1>2. ASSUME NEW q \in Request, RequestNext(q) PROVE BrokerInv' /\ Ages
  <2>1. CASE StartTask(q) /\ isDraining
    <3>1. TypeOK'
      BY <2>1 DEF StartTask, BrokerInv, TypeOK
    <3>. QED
      BY <2>1, <3>1 DEF StartTask, BrokerInv, MadeInv, ListInv, MessageInv, OfferedInv, Ages
  <2>. QED
    BY <1>2, <2>1, StartTaskKeeps, RequestTimeoutKeeps DEF RequestNext
<1>3. ASSUME NEW o \in Offer, TaskNext(o) PROVE BrokerInv' /\ Ages
  <2>1. CASE TaskTimedOut(o)
    BY <2>1, TaskTimedOutEffect, FinishesKeeps, GoesOnKeeps
  <2>2. CASE TaskExecuted(o)
    BY <2>2, TaskExecutedEffect, FinishesKeeps
  <2>. QED
    BY <1>3, <2>1, <2>2, CancelTaskKeeps, AcceptTimeoutKeeps, TaskTimeoutKeeps DEF TaskNext
<1>4. CASE UNCHANGED vars
  BY <1>4 DEF vars, BrokerInv, TypeOK, MadeInv, ListInv, MessageInv, OfferedInv, Ages
<1>. QED
  BY <1>1, <1>2, <1>3, <1>4, StartDrainingKeeps DEF Next

\* Nothing but what the actions are meant to do happens to the messages and lists:
\* the invariant the properties rest on.
THEOREM BrokerInvariant == Spec => []BrokerInv
<1>1. BrokerInv /\ [Next]_vars => BrokerInv'
  BY BrokerStep
<1>. QED
  BY <1>1, InitInv, PTL DEF Spec

=============================================================================
