--------------------------- MODULE SequenceLemmas ---------------------------
(***************************************************************************)
(* What the queue and list operations of the relay do to the members of a  *)
(* sequence: append, take the head, delete one position.                   *)
(***************************************************************************)
EXTENDS Naturals, SequencesExt, SequenceTheorems, TLAPS

\* Appending to a subscriber list: it gains one member, at the end.
LEMMA AppendToSet ==
  ASSUME NEW S, NEW s \in Seq(S), NEW x \in S
  PROVE  /\ Append(s, x) \in Seq(S)
         /\ Append(s, x) # <<>>
         /\ ToSet(Append(s, x)) = ToSet(s) \cup {x}
         /\ IsInjective(s) /\ x \notin ToSet(s) => IsInjective(Append(s, x))
<1>1. /\ Append(s, x) \in Seq(S) /\ Append(s, x) # <<>>
      /\ Len(Append(s, x)) = Len(s) + 1
      /\ \A i \in 1..Len(s) : Append(s, x)[i] = s[i]
      /\ Append(s, x)[Len(s) + 1] = x
  BY AppendProperties
<1>2. /\ Len(s) \in Nat /\ DOMAIN s = 1..Len(s)
      /\ DOMAIN Append(s, x) = 1..(Len(s) + 1)
  BY <1>1, LenProperties
<1>3. ToSet(Append(s, x)) = ToSet(s) \cup {x}
  <2>1. ASSUME NEW y \in ToSet(Append(s, x)) PROVE y \in ToSet(s) \cup {x}
    BY <2>1, <1>1, <1>2 DEF ToSet
  <2>2. ASSUME NEW y \in ToSet(s) \cup {x} PROVE y \in ToSet(Append(s, x))
    <3>1. CASE y = x
      <4>1. Len(s) + 1 \in DOMAIN Append(s, x) BY <1>2
      <4> QED BY <4>1, <3>1, <1>1 DEF ToSet
    <3>2. CASE y \in ToSet(s)
      <4>1. PICK i \in 1..Len(s) : y = s[i] BY <3>2, <1>2 DEF ToSet
      <4>2. i \in DOMAIN Append(s, x) /\ Append(s, x)[i] = y BY <4>1, <1>1, <1>2
      <4> QED BY <4>2 DEF ToSet
    <3> QED BY <3>1, <3>2, <2>2
  <2> QED BY <2>1, <2>2
<1>4. ASSUME IsInjective(s), x \notin ToSet(s) PROVE IsInjective(Append(s, x))
  <2> SUFFICES ASSUME NEW i \in 1..(Len(s) + 1), NEW j \in 1..(Len(s) + 1),
                      Append(s, x)[i] = Append(s, x)[j]
               PROVE  i = j
    BY <1>2 DEF IsInjective
  <2>1. \A k \in 1..Len(s) : s[k] # x BY <1>4, <1>2 DEF ToSet
  <2>2. \A k, l \in 1..Len(s) : s[k] = s[l] => k = l BY <1>4, <1>2 DEF IsInjective
  <2> QED BY <2>1, <2>2, <1>1, <1>2
<1> QED BY <1>1, <1>3, <1>4

\* Taking the head off a queue: it loses at most one member.
LEMMA TailToSet ==
  ASSUME NEW S, NEW s \in Seq(S), s # <<>>
  PROVE  /\ Head(s) \in S /\ Tail(s) \in Seq(S)
         /\ ToSet(s) = ToSet(Tail(s)) \cup {Head(s)}
         /\ IsInjective(s) => IsInjective(Tail(s)) /\ Head(s) \notin ToSet(Tail(s))
<1>1. /\ Head(s) \in S /\ Tail(s) \in Seq(S) /\ Head(s) = s[1]
      /\ Len(Tail(s)) = Len(s) - 1
      /\ \A i \in 1..Len(Tail(s)) : Tail(s)[i] = s[i + 1]
  BY HeadTailProperties
<1>2. /\ Len(s) \in Nat \ {0} /\ DOMAIN s = 1..Len(s)
      /\ Len(Tail(s)) \in Nat /\ DOMAIN Tail(s) = 1..Len(Tail(s))
  BY <1>1, LenProperties, EmptySeq
<1>3. ToSet(s) = ToSet(Tail(s)) \cup {Head(s)}
  <2>1. ASSUME NEW y \in ToSet(s) PROVE y \in ToSet(Tail(s)) \cup {Head(s)}
    <3>1. PICK i \in 1..Len(s) : y = s[i] BY <1>2 DEF ToSet
    <3>2. CASE i = 1 BY <3>1, <3>2, <1>1
    <3>3. CASE i # 1
      <4>1. i - 1 \in 1..Len(Tail(s)) /\ Tail(s)[i - 1] = s[i]
        BY <3>3, <3>1, <1>1, <1>2
      <4> QED BY <4>1, <3>1, <1>2 DEF ToSet
    <3> QED BY <3>2, <3>3
  <2>2. ASSUME NEW y \in ToSet(Tail(s)) PROVE y \in ToSet(s)
    <3>1. PICK i \in 1..Len(Tail(s)) : y = Tail(s)[i] BY <1>2 DEF ToSet
    <3>2. i + 1 \in DOMAIN s /\ s[i + 1] = y BY <3>1, <1>1, <1>2
    <3> QED BY <3>2 DEF ToSet
  <2>3. Head(s) \in ToSet(s)
    <3>1. 1 \in DOMAIN s BY <1>2
    <3> QED BY <3>1, <1>1 DEF ToSet
  <2> QED BY <2>1, <2>2, <2>3
<1>4. ASSUME IsInjective(s) PROVE IsInjective(Tail(s)) /\ Head(s) \notin ToSet(Tail(s))
  <2>1. \A k, l \in 1..Len(s) : s[k] = s[l] => k = l BY <1>4, <1>2 DEF IsInjective
  <2>2. IsInjective(Tail(s))
    <3> SUFFICES ASSUME NEW i \in 1..Len(Tail(s)), NEW j \in 1..Len(Tail(s)),
                        Tail(s)[i] = Tail(s)[j]
                 PROVE  i = j
      BY <1>2 DEF IsInjective
    <3>1. i + 1 \in 1..Len(s) /\ j + 1 \in 1..Len(s) BY <1>1, <1>2
    <3>2. s[i + 1] = s[j + 1] BY <1>1
    <3> QED BY <3>1, <3>2, <2>1
  <2>3. ASSUME Head(s) \in ToSet(Tail(s)) PROVE FALSE
    <3>1. PICK i \in 1..Len(Tail(s)) : Head(s) = Tail(s)[i] BY <2>3, <1>2 DEF ToSet
    <3>2. s[1] = s[i + 1] /\ 1 \in 1..Len(s) /\ i + 1 \in 1..Len(s) BY <3>1, <1>1, <1>2
    <3> QED BY <3>2, <2>1
  <2> QED BY <2>2, <2>3
<1> QED BY <1>1, <1>3, <1>4

\* slices.Delete of one position: what stood behind it moves up by one.
LEMMA RemoveAtElements ==
  ASSUME NEW S, NEW s \in Seq(S), NEW i \in DOMAIN s
  PROVE  /\ RemoveAt(s, i) \in Seq(S)
         /\ DOMAIN RemoveAt(s, i) = 1..(Len(s) - 1)
         /\ \A k \in 1..(Len(s) - 1) :
              RemoveAt(s, i)[k] = IF k < i THEN s[k] ELSE s[k + 1]
<1> DEFINE a == SubSeq(s, 1, i - 1)
           b == SubSeq(s, i + 1, Len(s))
           r == RemoveAt(s, i)
           n == Len(s)
<1>1. n \in Nat /\ DOMAIN s = 1..n /\ i \in 1..n BY LenProperties
<1>2. \A k \in 1..n : s[k] \in S BY <1>1, ElementOfSeq
<1>3. /\ a \in Seq(S) /\ Len(a) = i - 1
      /\ \A k \in 1..(i - 1) : a[k] = s[k]
  BY <1>1, <1>2, SubSeqProperties, SMT
<1>4. /\ b \in Seq(S) /\ Len(b) = n - i
      /\ \A k \in 1..(n - i) : b[k] = s[i + k]
  BY <1>1, <1>2, SubSeqProperties, SMT
<1>5. r = a \o b BY DEF RemoveAt
<1>6. r \in Seq(S) /\ Len(r) = n - 1
  <2> HIDE DEF a, b, r, n
  <2>1. a \o b \in Seq(S) /\ Len(a \o b) = Len(a) + Len(b)
    BY <1>3, <1>4, ConcatProperties
  <2>2. Len(a) + Len(b) = n - 1 BY <1>1, <1>3, <1>4
  <2> QED BY <1>5, <2>1, <2>2
<1>7. ASSUME NEW k \in 1..(n - 1) PROVE r[k] = IF k < i THEN s[k] ELSE s[k + 1]
  <2>1. r[k] = IF k <= Len(a) THEN a[k] ELSE b[k - Len(a)]
    <3> HIDE DEF a, b, r, n
    <3>1. k \in 1..(Len(a) + Len(b)) BY <1>1, <1>3, <1>4
    <3> QED BY <1>5, <3>1, <1>3, <1>4, ConcatProperties
  <2> HIDE DEF a, b, r, n
  <2>2. CASE k < i
    <3>1. k <= Len(a) /\ k \in 1..(i - 1) BY <2>2, <1>1, <1>3, <1>7
    <3> QED BY <3>1, <2>1, <2>2, <1>3
  <2>3. CASE ~(k < i)
    <3>1. /\ ~(k <= Len(a)) /\ k - Len(a) \in 1..(n - i)
          /\ i + (k - Len(a)) = k + 1
      BY <2>3, <1>1, <1>3, <1>7
    <3> QED BY <3>1, <2>1, <2>3, <1>4
  <2> QED BY <2>2, <2>3
<1> QED BY <1>6, <1>7, LenProperties

\* slices.Delete of one position of a list without duplicates.
LEMMA RemoveAtToSet ==
  ASSUME NEW S, NEW s \in Seq(S), NEW i \in DOMAIN s, IsInjective(s)
  PROVE  /\ RemoveAt(s, i) \in Seq(S)
         /\ IsInjective(RemoveAt(s, i))
         /\ ToSet(RemoveAt(s, i)) = ToSet(s) \ {s[i]}
<1> DEFINE r == RemoveAt(s, i)
           n == Len(s)
<1>1. n \in Nat /\ DOMAIN s = 1..n /\ i \in 1..n BY LenProperties
<1>5. /\ r \in Seq(S) /\ DOMAIN r = 1..(n - 1)
      /\ \A k \in 1..(n - 1) : r[k] = IF k < i THEN s[k] ELSE s[k + 1]
  BY RemoveAtElements
<1>6. \A k, l \in 1..n : s[k] = s[l] => k = l BY <1>1 DEF IsInjective
<1>7. IsInjective(r)
  <2> SUFFICES ASSUME NEW k \in 1..(n - 1), NEW l \in 1..(n - 1), r[k] = r[l]
               PROVE  k = l
    BY <1>5 DEF IsInjective
  <2> QED BY <1>1, <1>5, <1>6
<1>8. ASSUME NEW y \in ToSet(r) PROVE y \in ToSet(s) \ {s[i]}
  <2>1. PICK k \in 1..(n - 1) : y = r[k] BY <1>5, <1>8 DEF ToSet
  <2>2. PICK l \in 1..n : l # i /\ y = s[l] BY <2>1, <1>1, <1>5
  <2> QED BY <2>2, <1>1, <1>6 DEF ToSet
<1>9. ASSUME NEW y \in ToSet(s) \ {s[i]} PROVE y \in ToSet(r)
  <2>1. PICK l \in 1..n : l # i /\ y = s[l] BY <1>1 DEF ToSet
  <2>2. CASE l < i
    <3>1. l \in 1..(n - 1) /\ r[l] = y BY <2>1, <2>2, <1>1, <1>5
    <3> QED BY <3>1, <1>5 DEF ToSet
  <2>3. CASE l > i
    <3>1. l - 1 \in 1..(n - 1) /\ r[l - 1] = y BY <2>1, <2>3, <1>1, <1>5
    <3> QED BY <3>1, <1>5 DEF ToSet
  <2> QED BY <2>1, <2>2, <2>3, <1>1
<1> QED BY <1>5, <1>7, <1>8, <1>9
\* An element that moves from the head of one queue to the end of another leaves
\* their concatenation as it was.
LEMMA HeadMovesOver ==
  ASSUME NEW S, NEW s \in Seq(S), NEW t \in Seq(S), t # <<>>
  PROVE  Append(s, Head(t)) \o Tail(t) = s \o t
<1>1. /\ Head(t) \in S /\ Tail(t) \in Seq(S) /\ Head(t) = t[1]
      /\ Len(Tail(t)) = Len(t) - 1
      /\ \A i \in 1..Len(Tail(t)) : Tail(t)[i] = t[i + 1]
  BY HeadTailProperties
<1>2. Append(s, Head(t)) = s \o <<Head(t)>> /\ <<Head(t)>> \in Seq(S)
  BY <1>1, AppendIsConcat
<1>3. (s \o <<Head(t)>>) \o Tail(t) = s \o (<<Head(t)>> \o Tail(t))
  BY <1>1, <1>2, ConcatAssociative
<1>4. <<Head(t)>> \o Tail(t) = t
  BY <1>1, HeadTailProperties
<1> QED BY <1>2, <1>3, <1>4

\* Dropping the head of the second of two queues deletes one position of their
\* concatenation.
LEMMA HeadIsLost ==
  ASSUME NEW S, NEW s \in Seq(S), NEW t \in Seq(S), t # <<>>
  PROVE  /\ Len(s) + 1 \in DOMAIN (s \o t)
         /\ s \o Tail(t) = RemoveAt(s \o t, Len(s) + 1)
<1> DEFINE u == s \o t
           v == s \o Tail(t)
           r == RemoveAt(u, Len(s) + 1)
<1>1. /\ Tail(t) \in Seq(S) /\ Len(Tail(t)) = Len(t) - 1
      /\ \A i \in 1..Len(Tail(t)) : Tail(t)[i] = t[i + 1]
  BY HeadTailProperties
<1>2. Len(s) \in Nat /\ Len(t) \in Nat \ {0}
  BY LenProperties, EmptySeq
<1>3. /\ u \in Seq(S) /\ Len(u) = Len(s) + Len(t)
      /\ \A i \in 1..(Len(s) + Len(t)) : u[i] = IF i <= Len(s) THEN s[i] ELSE t[i - Len(s)]
  BY ConcatProperties
<1>4. /\ v \in Seq(S) /\ Len(v) = Len(s) + Len(Tail(t))
      /\ \A i \in 1..(Len(s) + Len(Tail(t))) :
           v[i] = IF i <= Len(s) THEN s[i] ELSE Tail(t)[i - Len(s)]
  BY <1>1, ConcatProperties
<1> HIDE DEF u, v
<1>5. Len(s) + 1 \in DOMAIN u
  BY <1>2, <1>3, LenProperties
<1>6. /\ r \in Seq(S) /\ DOMAIN r = 1..(Len(u) - 1)
      /\ \A k \in 1..(Len(u) - 1) : r[k] = IF k < Len(s) + 1 THEN u[k] ELSE u[k + 1]
  BY <1>3, <1>5, RemoveAtElements
<1>7. DOMAIN v = 1..(Len(u) - 1)
  BY <1>1, <1>2, <1>3, <1>4, LenProperties
<1>8. ASSUME NEW k \in 1..(Len(u) - 1) PROVE v[k] = r[k]
  <2> HIDE DEF r
  <2>1. CASE k <= Len(s)
    <3>1. v[k] = s[k] BY <2>1, <1>1, <1>2, <1>3, <1>4
    <3>2. u[k] = s[k] BY <2>1, <1>2, <1>3
    <3> QED BY <3>1, <3>2, <2>1, <1>2, <1>6
  <2>2. CASE ~(k <= Len(s))
    <3>1. /\ k - Len(s) \in 1..Len(Tail(t)) /\ (k - Len(s)) + 1 = (k + 1) - Len(s)
          /\ k + 1 \in 1..(Len(s) + Len(t))
      BY <2>2, <1>1, <1>2, <1>3
    <3>2. v[k] = t[(k - Len(s)) + 1] BY <3>1, <2>2, <1>1, <1>2, <1>3, <1>4
    <3>3. u[k + 1] = t[(k + 1) - Len(s)] BY <3>1, <2>2, <1>2, <1>3
    <3> QED BY <3>1, <3>2, <3>3, <2>2, <1>2, <1>6
  <2> QED BY <2>1, <2>2
<1>9. v = r
  BY <1>4, <1>6, <1>7, <1>8, SeqEqual, LenProperties
<1> QED BY <1>5, <1>9 DEF u, v

\* What is appended to a queue is found in everything sent and queued.
LEMMA LastOfConcat ==
  ASSUME NEW S, NEW s \in Seq(S), NEW t \in Seq(S), NEW x \in S
  PROVE  x \in ToSet(s \o Append(t, x))
<1>1. /\ Append(t, x) \in Seq(S) /\ Len(Append(t, x)) = Len(t) + 1
      /\ Append(t, x)[Len(t) + 1] = x
  BY AppendProperties
<1>2. /\ Len(s) \in Nat /\ Len(t) \in Nat /\ s \o Append(t, x) \in Seq(S)
      /\ Len(s \o Append(t, x)) = Len(s) + Len(t) + 1
      /\ (s \o Append(t, x))[Len(s) + Len(t) + 1] = x
  BY <1>1, ConcatProperties, LenProperties
<1>3. Len(s) + Len(t) + 1 \in DOMAIN (s \o Append(t, x)) BY <1>2, LenProperties
<1> QED BY <1>2, <1>3 DEF ToSet

\* Appending to the second of two queues appends to their concatenation.
LEMMA ConcatAppend ==
  ASSUME NEW S, NEW s \in Seq(S), NEW t \in Seq(S), NEW x \in S
  PROVE  s \o Append(t, x) = Append(s \o t, x)
<1>1. /\ Append(t, x) = t \o <<x>> /\ <<x>> \in Seq(S)
  BY AppendIsConcat
<1>2. s \o (t \o <<x>>) = (s \o t) \o <<x>>
  BY <1>1, ConcatAssociative
<1>3. s \o t \in Seq(S) BY ConcatProperties
<1>4. Append(s \o t, x) = (s \o t) \o <<x>>
  BY <1>3, AppendIsConcat
<1> QED BY <1>1, <1>2, <1>4

\* An element in hand is the head of itself before a queue, and the queue the rest.
LEMMA InHandFirst ==
  ASSUME NEW S, NEW s \in Seq(S), s # <<>>, Len(s) <= 1, NEW t \in Seq(S)
  PROVE  /\ s \o t \in Seq(S) /\ s \o t # <<>>
         /\ Head(s) \in S /\ Head(s \o t) = Head(s) /\ Tail(s \o t) = t
<1>0. Len(s) \in Nat /\ Len(t) \in Nat /\ Len(s) # 0
  BY LenProperties, EmptySeq
<1>1. Len(s) = 1 /\ Len(t) \in Nat
  BY <1>0
<1>2. /\ s \o t \in Seq(S) /\ Len(s \o t) = Len(t) + 1
      /\ \A i \in 1..(Len(t) + 1) : (s \o t)[i] = IF i <= 1 THEN s[i] ELSE t[i - 1]
  <2>1. /\ s \o t \in Seq(S) /\ Len(s \o t) = Len(s) + Len(t)
        /\ \A i \in 1..(Len(s) + Len(t)) :
             (s \o t)[i] = IF i <= Len(s) THEN s[i] ELSE t[i - Len(s)]
    BY ConcatProperties
  <2>2. Len(s) + Len(t) = Len(t) + 1 BY <1>1
  <2> QED BY <1>1, <2>1, <2>2
<1>3. s \o t # <<>>
  BY <1>1, <1>2, EmptySeq
<1>4. Head(s) \in S /\ Head(s) = s[1]
  BY HeadTailProperties
<1>5. /\ Head(s \o t) = (s \o t)[1]
      /\ Tail(s \o t) \in Seq(S) /\ Len(Tail(s \o t)) = Len(s \o t) - 1
      /\ \A i \in 1..Len(Tail(s \o t)) : Tail(s \o t)[i] = (s \o t)[i + 1]
  BY <1>2, <1>3, HeadTailProperties
<1> DEFINE u == s \o t
           v == Tail(s \o t)
<1> HIDE DEF u, v
<1>6. v \in Seq(S) /\ Len(v) = Len(t)
  BY <1>1, <1>2, <1>5 DEF u, v
<1>7. \A i \in 1..Len(t) : v[i] = t[i]
  <2> SUFFICES ASSUME NEW i \in 1..Len(t) PROVE v[i] = t[i]
    OBVIOUS
  <2>1. i + 1 \in 1..(Len(t) + 1) /\ ~(i + 1 <= 1) /\ (i + 1) - 1 = i BY <1>1
  <2>2. u[i + 1] = t[i] BY <2>1, <1>2 DEF u
  <2>3. v[i] = u[i + 1] BY <1>5, <1>6 DEF u, v
  <2> QED BY <2>2, <2>3
<1>8. v = t
  BY <1>6, <1>7, SeqEqual, LenProperties
<1> QED BY <1>1, <1>2, <1>3, <1>4, <1>5, <1>8 DEF v

=============================================================================
