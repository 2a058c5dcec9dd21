---------------------------- MODULE WaitingLines ----------------------------
(***************************************************************************)
(* Lines of waiters: what asyncio's locks and semaphores do to their       *)
(* queues when somebody joins, is served or leaves.                        *)
(***************************************************************************)
EXTENDS Naturals, Sequences, FiniteSetTheorems, SequenceTheorems, TLAPS

\* Nobody is in the line q twice, and it consists of the set members.
Line(q, members) ==
    /\ \A i, j \in 1 .. Len(q) : q[i] = q[j] => i = j
    /\ members = {q[i] : i \in 1 .. Len(q)}

\* The first n in line.
Front(q, n) == {q[i] : i \in 1 .. n}

LEMMA LineGrows ==
    ASSUME NEW S, NEW q \in Seq(S), NEW members, Line(q, members), NEW r \in S, r \notin members
    PROVE  Append(q, r) \in Seq(S) /\ Line(Append(q, r), members \cup {r})
  <1>1. /\ Append(q, r) \in Seq(S) /\ Len(Append(q, r)) = Len(q) + 1
        /\ \A i \in 1 .. Len(q) : Append(q, r)[i] = q[i]
        /\ Append(q, r)[Len(q) + 1] = r
    OBVIOUS
  <1>2. \A i \in 1 .. Len(q) + 1 : i \in 1 .. Len(q) \/ i = Len(q) + 1
    OBVIOUS
  <1>3. \A i \in 1 .. Len(q) : i \in 1 .. Len(q) + 1 /\ q[i] \in members
    BY DEF Line
  <1>4. Len(q) + 1 \in 1 .. Len(q) + 1
    OBVIOUS
  <1>5. \A i, j \in 1 .. Len(q) + 1 : Append(q, r)[i] = Append(q, r)[j] => i = j
    BY <1>1, <1>2, <1>3 DEF Line
  <1>6. members \cup {r} = {Append(q, r)[i] : i \in 1 .. Len(q) + 1}
    BY <1>1, <1>2, <1>3, <1>4 DEF Line
  <1> QED BY <1>1, <1>5, <1>6 DEF Line

\* The line p is made of the places at of the line q, and leaves out those in gone.
Thins(q, p, at, gone) ==
    /\ at \in [1 .. Len(p) -> 1 .. Len(q)]
    /\ \A k \in 1 .. Len(p) : p[k] = q[at[k]] /\ p[k] \notin gone
    /\ \A k, m \in 1 .. Len(p) : at[k] = at[m] => k = m
    /\ \A i \in 1 .. Len(q) : q[i] \notin gone => \E k \in 1 .. Len(p) : at[k] = i

LEMMA LineThinned ==
    ASSUME NEW q, NEW p, NEW at, NEW gone, NEW members, Line(q, members), Thins(q, p, at, gone)
    PROVE  Line(p, members \ gone)
  <1> USE DEF Thins
  <1>1. ASSUME NEW k \in 1 .. Len(p), NEW m \in 1 .. Len(p), p[k] = p[m]
        PROVE  k = m
    <2>1. at[k] \in 1 .. Len(q) /\ at[m] \in 1 .. Len(q) /\ q[at[k]] = q[at[m]]
      BY <1>1
    <2> QED BY <2>1 DEF Line
  <1>2. ASSUME NEW x \in members \ gone PROVE \E k \in 1 .. Len(p) : p[k] = x
    <2>1. PICK i \in 1 .. Len(q) : q[i] = x
      BY DEF Line
    <2>2. PICK k \in 1 .. Len(p) : at[k] = i
      BY <2>1
    <2> QED BY <2>1, <2>2
  <1>3. ASSUME NEW k \in 1 .. Len(p) PROVE p[k] \in members \ gone
    <2>1. at[k] \in 1 .. Len(q) /\ p[k] = q[at[k]] /\ q[at[k]] \notin gone
      OBVIOUS
    <2> QED BY <2>1 DEF Line
  <1> QED BY <1>1, <1>2, <1>3 DEF Line

\* The first n leave.
LEMMA LineMoves ==
    ASSUME NEW S, NEW q \in Seq(S), NEW members, Line(q, members), NEW n \in 0 .. Len(q)
    PROVE  /\ SubSeq(q, n + 1, Len(q)) \in Seq(S)
           /\ Line(SubSeq(q, n + 1, Len(q)), members \ Front(q, n))
           /\ Front(q, n) \subseteq members
  <1> DEFINE left == SubSeq(q, n + 1, Len(q))  at == [k \in 1 .. Len(left) |-> n + k]
  <1>1. /\ left \in Seq(S) /\ Len(left) = Len(q) - n
        /\ \A i \in 1 .. Len(q) - n : left[i] = q[n + i]
    OBVIOUS
  <1> HIDE DEF left
  <1>2. /\ at \in [1 .. Len(left) -> 1 .. Len(q)]
        /\ \A k \in 1 .. Len(left) : left[k] = q[at[k]] /\ at[k] \notin 1 .. n
        /\ \A k, m \in 1 .. Len(left) : at[k] = at[m] => k = m
    BY <1>1
  <1>3. ASSUME NEW i \in 1 .. Len(q), i \notin 1 .. n PROVE \E k \in 1 .. Len(left) : at[k] = i
    <2>1. i - n \in 1 .. Len(left) /\ at[i - n] = i
      BY <1>1, <1>3
    <2> QED BY <2>1
  <1> HIDE DEF at
  <1>4. 1 .. n \subseteq 1 .. Len(q)
    OBVIOUS
  <1>5. Front(q, n) \subseteq members
    BY <1>4 DEF Line, Front
  <1>6. \A i \in 1 .. Len(q) : q[i] \in Front(q, n) <=> i \in 1 .. n
    BY <1>4 DEF Line, Front
  <1>7. \A k \in 1 .. Len(left) : at[k] \in 1 .. Len(q) /\ q[at[k]] \notin Front(q, n)
    BY <1>2, <1>6
  <1>8. Line(left, members \ Front(q, n))
    <2>1. Thins(q, left, at, Front(q, n))
      BY <1>2, <1>3, <1>6, <1>7 DEF Thins
    <2> QED BY <2>1, LineThinned
  <1> QED BY <1>1, <1>5, <1>8 DEF left

\* The first n are n.
LEMMA FrontCounted ==
    ASSUME NEW S, NEW q \in Seq(S), NEW members, Line(q, members), NEW n \in 0 .. Len(q)
    PROVE  IsFiniteSet(Front(q, n)) /\ Cardinality(Front(q, n)) = n
  <1> DEFINE f == [i \in 1 .. n |-> q[i]]
  <1>1. \A i \in 1 .. n : i \in 1 .. Len(q)
    OBVIOUS
  <1>2. f \in Bijection(1 .. n, Front(q, n))
    BY <1>1 DEF Line, Front, Bijection, Injection, Surjection, IsInjective
  <1>3. IsFiniteSet(1 .. n) /\ Cardinality(1 .. n) = n
    BY FS_Interval
  <1> QED BY <1>2, <1>3, FS_Bijection DEF ExistsBijection

\* The first leaves.
LEMMA LineServed ==
    ASSUME NEW S, NEW q \in Seq(S), NEW members, Line(q, members), q # <<>>
    PROVE  /\ Tail(q) \in Seq(S) /\ Head(q) \in members
           /\ Line(Tail(q), members \ {Head(q)})
  <1>1. Len(q) \in Nat /\ Len(q) >= 1 /\ Head(q) = q[1] /\ Tail(q) = SubSeq(q, 2, Len(q))
    OBVIOUS
  <1>2. Front(q, 1) = {q[1]}
    BY DEF Front
  <1>3. 1 \in 0 .. Len(q)
    BY <1>1
  <1>4. /\ SubSeq(q, 1 + 1, Len(q)) \in Seq(S)
        /\ Line(SubSeq(q, 1 + 1, Len(q)), members \ Front(q, 1))
        /\ Front(q, 1) \subseteq members
    BY <1>3, LineMoves
  <1>5. SubSeq(q, 1 + 1, Len(q)) = Tail(q)
    BY <1>1
  <1> QED BY <1>1, <1>2, <1>4, <1>5

\* The n-th leaves, wherever it is.
LEMMA LineLeft ==
    ASSUME NEW S, NEW q \in Seq(S), NEW members, Line(q, members), NEW n \in 1 .. Len(q)
    PROVE  LET left == SubSeq(q, 1, n - 1) \o SubSeq(q, n + 1, Len(q))
           IN  left \in Seq(S) /\ Line(left, members \ {q[n]})
  <1> DEFINE front == SubSeq(q, 1, n - 1)  back == SubSeq(q, n + 1, Len(q))
             left == front \o back
             at == [k \in 1 .. Len(left) |-> IF k < n THEN k ELSE k + 1]
  <1>1. /\ front \in Seq(S) /\ Len(front) = n - 1
        /\ \A k \in 1 .. n - 1 : front[k] = q[k]
    OBVIOUS
  <1>2. /\ back \in Seq(S) /\ Len(back) = Len(q) - n
        /\ \A k \in 1 .. Len(q) - n : back[k] = q[n + k]
    OBVIOUS
  <1> HIDE DEF front, back
  <1>3. /\ left \in Seq(S) /\ Len(left) = Len(front) + Len(back)
        /\ \A k \in 1 .. Len(front) + Len(back) :
              left[k] = IF k <= Len(front) THEN front[k] ELSE back[k - Len(front)]
    BY <1>1, <1>2, ConcatProperties
  <1> HIDE DEF left
  <1>4. /\ Len(left) = Len(q) - 1 /\ at \in [1 .. Len(left) -> 1 .. Len(q)]
        /\ \A k \in 1 .. Len(left) : at[k] # n
        /\ \A k, m \in 1 .. Len(left) : at[k] = at[m] => k = m
    BY <1>1, <1>2, <1>3
  <1>5. ASSUME NEW k \in 1 .. Len(left) PROVE left[k] = q[at[k]]
    <2>1. CASE k < n
      BY <1>1, <1>3, <1>4, <2>1
    <2>2. CASE ~(k < n)
      <3>1. /\ ~(k <= Len(front)) /\ k - Len(front) \in 1 .. Len(q) - n
            /\ n + (k - Len(front)) = k + 1
        BY <1>1, <1>4, <2>2
      <3> QED BY <1>2, <1>3, <1>4, <2>2, <3>1
    <2> QED BY <2>1, <2>2
  <1>6. ASSUME NEW i \in 1 .. Len(q), i # n PROVE \E k \in 1 .. Len(left) : at[k] = i
    <2>1. CASE i < n
      <3>1. i \in 1 .. Len(left) /\ at[i] = i
        BY <1>4, <2>1
      <3> QED BY <3>1
    <2>2. CASE i > n
      <3>1. i - 1 \in 1 .. Len(left) /\ at[i - 1] = i
        BY <1>4, <2>2
      <3> QED BY <3>1
    <2> QED BY <1>6, <2>1, <2>2
  <1> HIDE DEF at
  <1>7. \A i \in 1 .. Len(q) : q[i] \in {q[n]} <=> i = n
    BY DEF Line
  <1>8. \A k \in 1 .. Len(left) : at[k] \in 1 .. Len(q) /\ q[at[k]] \notin {q[n]}
    BY <1>4, <1>7
  <1>9. Line(left, members \ {q[n]})
    <2>1. Thins(q, left, at, {q[n]})
      BY <1>4, <1>5, <1>6, <1>7, <1>8 DEF Thins
    <2> QED BY <2>1, LineThinned
  <1> QED BY <1>3, <1>9 DEF left, front, back
=============================================================================
