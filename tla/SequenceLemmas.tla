--------------------------- MODULE SequenceLemmas ---------------------------
(***************************************************************************)
(* What queues and channels are to the proofs: sequences that are appended *)
(* to and taken from, with the set of their elements.                      *)
(***************************************************************************)
EXTENDS Selection, SequencesExt, SequenceTheorems, FiniteSetTheorems,
        WellFoundedInduction, TLAPS

\* What is appended to a sequence joins its elements.
LEMMA ToSetAppend ==
  ASSUME NEW S, NEW s \in Seq(S), NEW x \in S
  PROVE  /\ ToSet(Append(s, x)) = ToSet(s) \cup {x}
         /\ IsInjective(s) /\ x \notin ToSet(s) => IsInjective(Append(s, x))
<1>1. /\ Append(s, x) \in Seq(S) /\ Len(Append(s, x)) = Len(s) + 1
      /\ \A i \in 1..Len(s) : Append(s, x)[i] = s[i]
      /\ Append(s, x)[Len(s) + 1] = x
  BY AppendProperties
<1>2. DOMAIN s = 1..Len(s) /\ DOMAIN Append(s, x) = 1..(Len(s) + 1) /\ Len(s) \in Nat
  BY <1>1
<1>3. DOMAIN Append(s, x) = DOMAIN s \cup {Len(s) + 1}
  BY <1>2
<1>4. \A i \in DOMAIN s : Append(s, x)[i] = s[i]
  BY <1>1, <1>2
<1> QED
  BY <1>1, <1>3, <1>4 DEF ToSet, IsInjective

\* What is taken from a sequence leaves its elements.
LEMMA ToSetTail ==
  ASSUME NEW S, NEW s \in Seq(S), s # <<>>
  PROVE  /\ ToSet(s) = ToSet(Tail(s)) \cup {Head(s)}
         /\ IsInjective(s) => IsInjective(Tail(s)) /\ Head(s) \notin ToSet(Tail(s))
<1>1. /\ Tail(s) \in Seq(S) /\ Len(Tail(s)) = Len(s) - 1
      /\ \A i \in 1..Len(Tail(s)) : Tail(s)[i] = s[i + 1]
  BY HeadTailProperties
<1>2. /\ DOMAIN s = 1..Len(s) /\ DOMAIN Tail(s) = 1..(Len(s) - 1)
      /\ Len(s) \in Nat /\ Len(s) >= 1 /\ Head(s) = s[1]
  BY <1>1
<1>3. \A i \in DOMAIN s : i = 1 \/ (i - 1 \in DOMAIN Tail(s) /\ Tail(s)[i - 1] = s[i])
  BY <1>1, <1>2
<1>4. \A i \in DOMAIN Tail(s) : i + 1 \in DOMAIN s /\ Tail(s)[i] = s[i + 1] /\ i + 1 # 1
  BY <1>1, <1>2
<1>5. ToSet(s) = ToSet(Tail(s)) \cup {Head(s)}
  <2>1. ASSUME NEW i \in DOMAIN s PROVE s[i] = Head(s) \/ s[i] \in ToSet(Tail(s))
    BY <1>2, <1>3 DEF ToSet
  <2>2. ASSUME NEW i \in DOMAIN Tail(s) PROVE Tail(s)[i] \in ToSet(s)
    BY <1>4 DEF ToSet
  <2>3. Head(s) \in ToSet(s)
    BY <1>2 DEF ToSet
  <2> QED
    BY <2>1, <2>2, <2>3 DEF ToSet
<1>6. ASSUME IsInjective(s) PROVE IsInjective(Tail(s)) /\ Head(s) \notin ToSet(Tail(s))
  <2>1. \A i, j \in DOMAIN Tail(s) : i + 1 = j + 1 => i = j
    BY <1>2
  <2>2. 1 \in DOMAIN s
    BY <1>2
  <2> QED
    BY <1>2, <1>4, <1>6, <2>1, <2>2 DEF ToSet, IsInjective
<1> QED
  BY <1>5, <1>6

\* A queue that something is added to is not empty.
LEMMA AppendNonempty ==
  ASSUME NEW S, NEW q \in Seq(S), NEW x \in S
  PROVE  Append(q, x) # <<>>
<1>1. Len(Append(q, x)) = Len(q) + 1 /\ Len(q) \in Nat
  BY AppendProperties, LenProperties
<1>2. Len(<<>>) = 0
  OBVIOUS
<1> QED
  BY <1>1, <1>2

\* An empty sequence has no elements.
LEMMA EmptySet == ToSet(<<>>) = {}
BY DEF ToSet

\* The elements of a typed sequence have its type.
LEMMA ElementsTyped ==
  ASSUME NEW S, NEW s \in Seq(S)
  PROVE  ToSet(s) \subseteq S
BY ElementOfSeq DEF ToSet

-----------------------------------------------------------------------------
(* A shared sink: what has been published to a handle, and what is in the  *)
(* channel, is the rest of what has been sent.                             *)

\* How much of the sink s comes before queue q and channel i.
Before(s, q, i) == Len(s) - Len(q) - Len(i)

Rest(s, q, i) == /\ Before(s, q, i) \in Nat
                 /\ \A k \in 1..Len(q) : q[k] = s[Before(s, q, i) + k]
                 /\ \A k \in 1..Len(i) : i[k] = s[Before(s, q, i) + Len(q) + k]

\* What comes before the rest is in the sink.
LEMMA BeforeWithin ==
  ASSUME NEW S, NEW s \in Seq(S), NEW q \in Seq(S), NEW i \in Seq(S), Rest(s, q, i)
  PROVE  \A k \in 1..Before(s, q, i) : k \in 1..Len(s)
<1>1. Len(s) \in Nat /\ Len(q) \in Nat /\ Len(i) \in Nat
  OBVIOUS
<1> QED
  BY <1>1 DEF Before, Rest

\* Before anything is sent, there is no rest.
LEMMA RestEmpty == Rest(<<>>, <<>>, <<>>) /\ Before(<<>>, <<>>, <<>>) = 0
<1>1. Len(<<>>) = 0
  OBVIOUS
<1>2. Before(<<>>, <<>>, <<>>) = 0 - 0 - 0
  BY <1>1 DEF Before
<1>3. 0 - 0 - 0 = 0
  OBVIOUS
<1>4. 1..Len(<<>>) = {}
  BY <1>1
<1> QED
  BY <1>2, <1>3, <1>4 DEF Rest

\* Pulling the next item moves it from the channel to the queue.
LEMMA RestPull ==
  ASSUME NEW S, NEW s \in Seq(S), NEW q \in Seq(S), NEW i \in Seq(S), i # <<>>, Rest(s, q, i)
  PROVE  /\ Rest(s, Append(q, Head(i)), Tail(i))
         /\ Before(s, Append(q, Head(i)), Tail(i)) = Before(s, q, i)
<1>1. /\ Len(s) \in Nat /\ Len(q) \in Nat /\ Len(i) \in Nat
      /\ Head(i) \in S /\ Head(i) = i[1] /\ Len(Tail(i)) = Len(i) - 1 /\ Len(i) >= 1
      /\ \A k \in 1..Len(Tail(i)) : Tail(i)[k] = i[k + 1]
  BY HeadTailProperties
<1>2. /\ Len(Append(q, Head(i))) = Len(q) + 1
      /\ \A k \in 1..Len(q) : Append(q, Head(i))[k] = q[k]
      /\ Append(q, Head(i))[Len(q) + 1] = i[1]
  BY <1>1, AppendProperties
<1>3. Before(s, Append(q, Head(i)), Tail(i)) = Before(s, q, i)
  BY <1>1, <1>2 DEF Before
<1>4. Before(s, q, i) \in Nat
  BY DEF Rest
<1>5. ASSUME NEW k \in 1..(Len(q) + 1) PROVE Append(q, Head(i))[k] = s[Before(s, q, i) + k]
  <2>1. i[1] = s[Before(s, q, i) + Len(q) + 1]
    BY <1>1 DEF Rest
  <2>2. CASE k \in 1..Len(q)
    BY <1>2, <2>2 DEF Rest
  <2>3. CASE k = Len(q) + 1
    BY <1>1, <1>2, <1>4, <2>1, <2>3
  <2> QED
    BY <1>1, <2>2, <2>3
<1>6. ASSUME NEW k \in 1..Len(Tail(i))
      PROVE  Tail(i)[k] = s[Before(s, q, i) + (Len(q) + 1) + k]
  <2>1. k + 1 \in 1..Len(i) /\ Before(s, q, i) + Len(q) + (k + 1) = Before(s, q, i) + (Len(q) + 1) + k
    BY <1>1, <1>4
  <2> QED
    BY <1>1, <2>1 DEF Rest
<1> QED
  BY <1>2, <1>3, <1>4, <1>5, <1>6 DEF Rest

\* Taking the next item of the queue makes one more come before the rest.
LEMMA RestTake ==
  ASSUME NEW S, NEW s \in Seq(S), NEW q \in Seq(S), NEW i \in Seq(S), q # <<>>, Rest(s, q, i)
  PROVE  /\ Rest(s, Tail(q), i)
         /\ Before(s, Tail(q), i) = Before(s, q, i) + 1
         /\ Before(s, q, i) + 1 \in 1..Len(s) /\ s[Before(s, q, i) + 1] = Head(q)
<1>1. /\ Len(s) \in Nat /\ Len(q) \in Nat /\ Len(i) \in Nat
      /\ Head(q) = q[1] /\ Len(Tail(q)) = Len(q) - 1 /\ Len(q) >= 1
      /\ \A k \in 1..Len(Tail(q)) : Tail(q)[k] = q[k + 1]
  BY HeadTailProperties
<1>2. Before(s, Tail(q), i) = Before(s, q, i) + 1 /\ Before(s, q, i) + Len(q) + Len(i) = Len(s)
  BY <1>1 DEF Before
<1>3. Before(s, q, i) \in Nat
  BY DEF Rest
<1>4. s[Before(s, q, i) + 1] = Head(q)
  BY <1>1 DEF Rest
<1>5. ASSUME NEW k \in 1..Len(Tail(q)) PROVE Tail(q)[k] = s[Before(s, q, i) + 1 + k]
  <2>1. k + 1 \in 1..Len(q) /\ Before(s, q, i) + (k + 1) = Before(s, q, i) + 1 + k
    BY <1>1, <1>3
  <2> QED
    BY <1>1, <2>1 DEF Rest
<1>6. ASSUME NEW k \in 1..Len(i) PROVE i[k] = s[Before(s, q, i) + 1 + Len(Tail(q)) + k]
  <2>1. Before(s, q, i) + Len(q) + k = Before(s, q, i) + 1 + Len(Tail(q)) + k
    BY <1>1, <1>3
  <2> QED
    BY <2>1 DEF Rest
<1>7. Before(s, q, i) + 1 \in 1..Len(s)
  BY <1>1, <1>2, <1>3
<1> QED
  BY <1>2, <1>3, <1>4, <1>5, <1>6, <1>7 DEF Rest

\* A position in a sequence that has grown by one.
LEMMA LastOrBefore ==
  ASSUME NEW n \in Nat, NEW k \in 1..(n + 1)
  PROVE  k \in 1..n \/ k = n + 1
OBVIOUS

\* The positions before the last one.
LEMMA BeforeLast ==
  ASSUME NEW n \in Nat
  PROVE  \A i \in 1..(n - 1) : i \in 1..n /\ i # n
OBVIOUS

\* The positions up to one in a sequence.
LEMMA WithinPrefix ==
  ASSUME NEW l \in Nat, NEW n \in 1..l
  PROVE  n \in 1..(l + 1) /\ \A k \in 1..(n - 1) : k \in 1..l
OBVIOUS

\* What is sent comes last, in the channel too.
LEMMA RestSend ==
  ASSUME NEW S, NEW s \in Seq(S), NEW q \in Seq(S), NEW i \in Seq(S), NEW c \in S, Rest(s, q, i)
  PROVE  /\ Rest(Append(s, c), q, Append(i, c))
         /\ Before(Append(s, c), q, Append(i, c)) = Before(s, q, i)
<1>1. /\ Len(s) \in Nat /\ Len(q) \in Nat /\ Len(i) \in Nat
      /\ Len(Append(s, c)) = Len(s) + 1 /\ Len(Append(i, c)) = Len(i) + 1
      /\ \A k \in 1..Len(s) : Append(s, c)[k] = s[k]
      /\ \A k \in 1..Len(i) : Append(i, c)[k] = i[k]
      /\ Append(s, c)[Len(s) + 1] = c /\ Append(i, c)[Len(i) + 1] = c
  BY AppendProperties
<1>2. /\ Before(Append(s, c), q, Append(i, c)) = Before(s, q, i)
      /\ Before(s, q, i) + Len(q) + Len(i) = Len(s)
  BY <1>1 DEF Before
<1>3. Before(s, q, i) \in Nat
  BY DEF Rest
<1>4. Len(s) \in Nat /\ Len(q) \in Nat /\ Len(i) \in Nat
  BY <1>1
<1>5. Before(s, q, i) + Len(q) + Len(i) = Len(s)
  BY <1>2
<1>6. ASSUME NEW k \in 1..Len(q) PROVE q[k] = Append(s, c)[Before(s, q, i) + k]
  <2>1. Before(s, q, i) + k \in 1..Len(s)
    BY <1>1, <1>2, <1>3
  <2> QED
    BY <1>1, <2>1 DEF Rest
<1>7. ASSUME NEW k \in 1..(Len(i) + 1)
      PROVE  Append(i, c)[k] = Append(s, c)[Before(s, q, i) + Len(q) + k]
  <2>1. CASE k \in 1..Len(i)
    <3>1. Before(s, q, i) + Len(q) + k \in 1..Len(s)
      BY <1>1, <1>2, <1>3, <2>1
    <3> QED
      BY <1>1, <2>1, <3>1 DEF Rest
  <2>2. CASE k = Len(i) + 1
    <3>1. Before(s, q, i) + Len(q) + (Len(i) + 1) = Len(s) + 1
      <4> DEFINE b == Before(s, q, i)
      <4> DEFINE m == Len(q)
      <4> DEFINE n == Len(i)
      <4> DEFINE l == Len(s)
      <4>1. b \in Nat /\ m \in Nat /\ n \in Nat /\ l \in Nat /\ b + m + n = l
        BY <1>3, <1>4, <1>5
      <4> HIDE DEF b, m, n, l
      <4>2. b + m + (n + 1) = l + 1
        BY <4>1
      <4> QED
        BY <4>2 DEF b, m, n, l
    <3>2. Append(i, c)[Len(i) + 1] = Append(s, c)[Before(s, q, i) + Len(q) + (Len(i) + 1)]
      BY <1>1, <3>1
    <3> QED
      BY <2>2, <3>2
  <2>3. k \in 1..Len(i) \/ k = Len(i) + 1
    BY <1>1, LastOrBefore
  <2> QED
    BY <2>1, <2>2, <2>3
<1> QED
  BY <1>1, <1>2, <1>3, <1>6, <1>7 DEF Rest

\* What is sent and published at once comes last in the queue.
LEMMA RestPublish ==
  ASSUME NEW S, NEW s \in Seq(S), NEW q \in Seq(S), NEW c \in S, Rest(s, q, <<>>)
  PROVE  /\ Rest(Append(s, c), Append(q, c), <<>>)
         /\ Before(Append(s, c), Append(q, c), <<>>) = Before(s, q, <<>>)
<1>1. <<>> \in Seq(S) /\ Append(<<>>, c) = <<c>> /\ Append(s, c) \in Seq(S)
  OBVIOUS
<1>2. <<c>> \in Seq(S) /\ <<c>> # <<>> /\ Head(<<c>>) = c /\ Tail(<<c>>) = <<>>
  OBVIOUS
<1>3. /\ Rest(Append(s, c), q, <<c>>)
      /\ Before(Append(s, c), q, <<c>>) = Before(s, q, <<>>)
  <2>1. /\ Rest(Append(s, c), q, Append(<<>>, c))
        /\ Before(Append(s, c), q, Append(<<>>, c)) = Before(s, q, <<>>)
    <3> DEFINE e == <<>>
    <3>1. e \in Seq(S) /\ Rest(s, q, e)
      OBVIOUS
    <3> HIDE DEF e
    <3>2. /\ Rest(Append(s, c), q, Append(e, c))
          /\ Before(Append(s, c), q, Append(e, c)) = Before(s, q, e)
      BY <3>1, RestSend
    <3> QED
      BY <3>2 DEF e
  <2> QED
    BY <1>1, <2>1
<1>4. /\ Rest(Append(s, c), Append(q, Head(<<c>>)), Tail(<<c>>))
      /\ Before(Append(s, c), Append(q, Head(<<c>>)), Tail(<<c>>)) = Before(Append(s, c), q, <<c>>)
  BY <1>1, <1>2, <1>3, RestPull
<1> QED
  BY <1>2, <1>3, <1>4

-----------------------------------------------------------------------------
(* A channel and the history of what has been taken from it.               *)

\* What goes into the channel comes last, and a step through it moves nothing.
LEMMA ThroughChannel ==
  ASSUME NEW S, NEW s \in Seq(S), NEW t \in Seq(S)
  PROVE  /\ s \o t \in Seq(S)
         /\ \A x \in S : s \o Append(t, x) = Append(s \o t, x)
         /\ t # <<>> => Append(s, Head(t)) \o Tail(t) = s \o t
<1>1. s \o t \in Seq(S)
  BY ConcatProperties
<1>2. ASSUME NEW x \in S PROVE s \o Append(t, x) = Append(s \o t, x)
  <2>1. <<x>> \in Seq(S)
    OBVIOUS
  <2>2. Append(t, x) = t \o <<x>> /\ Append(s \o t, x) = (s \o t) \o <<x>>
    BY <1>1, AppendIsConcat
  <2> QED
    BY <2>1, <2>2, ConcatAssociative
<1>3. ASSUME t # <<>> PROVE Append(s, Head(t)) \o Tail(t) = s \o t
  <2>1. Head(t) \in S /\ Tail(t) \in Seq(S) /\ <<Head(t)>> \in Seq(S)
    BY <1>3, HeadTailProperties
  <2>2. Append(s, Head(t)) = s \o <<Head(t)>>
    BY <2>1, AppendIsConcat
  <2>3. <<Head(t)>> \o Tail(t) = t
    BY <1>3
  <2> QED
    BY <2>1, <2>2, <2>3, ConcatAssociative
<1> QED
  BY <1>1, <1>2, <1>3

-----------------------------------------------------------------------------
(* Parts of a sequence.                                                    *)

\* There is a least one of any numbers.
LEMMA LeastNumber ==
  ASSUME NEW T, T \subseteq Nat, T # {}
  PROVE  \E x \in T : \A y \in T : x <= y
<1> DEFINE R == OpToRel(<, Nat)
<1>1. IsWellFoundedOn(R, Nat)
  BY NatLessThanWellFounded
<1>2. \A x, y \in Nat : <<y, x>> \in R <=> y < x
  BY DEF OpToRel
<1> HIDE DEF R
<1>3. PICK x \in T : \A y \in T : <<y, x>> \notin R
  BY <1>1, WFMin
<1>4. \A y \in T : ~(y < x)
  BY <1>2, <1>3, Zenon
<1>5. \A y \in T : x <= y
  BY <1>4
<1> QED
  BY <1>5

\* The positions of a part are finitely many.
LEMMA PositionsFinite ==
  ASSUME NEW n \in Int, NEW S, S \subseteq 1..n
  PROVE  IsFiniteSet(S) /\ Cardinality(S) \in Nat
<1>1. IsFiniteSet(1..n)
  BY FS_Interval
<1>2. IsFiniteSet(S)
  BY <1>1, FS_Subset
<1> QED
  BY <1>2, FS_CardinalityType

\* One more position than there were.
LEMMA PositionsAdd ==
  ASSUME NEW n \in Int, NEW S, S \subseteq 1..n, NEW k \in Int, n < k
  PROVE  Cardinality(S \cup {k}) = Cardinality(S) + 1
<1>1. IsFiniteSet(S)
  BY PositionsFinite
<1>2. k \notin S
  OBVIOUS
<1> QED
  BY <1>1, <1>2, FS_AddElement

\* A position of a part comes first, or second, and so on, among its positions.
LEMMA RankWithin ==
  ASSUME NEW n \in Int, NEW S, S \subseteq 1..n, NEW i \in S
  PROVE  Cardinality(UpTo(S, i)) \in 1..Cardinality(S)
<1>1. IsFiniteSet(S) /\ Cardinality(S) \in Nat
  BY PositionsFinite
<1>2. UpTo(S, i) \subseteq S /\ i \in UpTo(S, i)
  BY DEF UpTo
<1>3. IsFiniteSet(UpTo(S, i)) /\ Cardinality(UpTo(S, i)) <= Cardinality(S)
  BY <1>1, <1>2, FS_Subset
<1>4. Cardinality(UpTo(S, i)) \in Nat /\ Cardinality(UpTo(S, i)) # 0
  BY <1>2, <1>3, FS_CardinalityType, FS_EmptySet
<1> QED
  BY <1>1, <1>3, <1>4

\* A part without positions is listed by nothing.
LEMMA ListsEmpty ==
  ASSUME NEW f, DOMAIN f = {}
  PROVE  Lists(<<>>, f)
BY FS_EmptySet DEF Lists

\* A part with one more position, and with all the positions of u after n.
WithOne(f, k, x) == [i \in DOMAIN f \cup {k} |-> IF i = k THEN x ELSE f[i]]
WithAll(f, n, u) ==
  [i \in DOMAIN f \cup (n + 1)..(n + Len(u)) |-> IF i \in DOMAIN f THEN f[i] ELSE u[i - n]]

\* A part that grows by a position after all others grows by the last element.
LEMMA ListsAppend ==
  ASSUME NEW T, NEW t \in Seq(T), NEW x \in T, NEW n \in Int, NEW k \in Int, n < k,
         NEW f, DOMAIN f \subseteq 1..n, Lists(t, f)
  PROVE  Lists(Append(t, x), WithOne(f, k, x))
<1> DEFINE g == WithOne(f, k, x)
<1>0. /\ DOMAIN g = DOMAIN f \cup {k} /\ g[k] = x
      /\ \A i \in DOMAIN f : g[i] = f[i]
  BY DEF WithOne
<1> HIDE DEF g
<1>1. /\ Len(t) \in Nat /\ Len(Append(t, x)) = Len(t) + 1
      /\ \A i \in 1..Len(t) : Append(t, x)[i] = t[i]
      /\ Append(t, x)[Len(t) + 1] = x
  BY AppendProperties
<1>2. Len(t) = Cardinality(DOMAIN f) /\ Cardinality(DOMAIN g) = Len(t) + 1
  BY <1>0, PositionsAdd DEF Lists
<1>3. ASSUME NEW i \in DOMAIN f
      PROVE  Append(t, x)[Cardinality(UpTo(DOMAIN g, i))] = g[i]
  <2>1. UpTo(DOMAIN g, i) = UpTo(DOMAIN f, i)
    BY <1>0 DEF UpTo
  <2>2. Cardinality(UpTo(DOMAIN f, i)) \in 1..Len(t)
    BY <1>2, RankWithin
  <2>3. t[Cardinality(UpTo(DOMAIN f, i))] = f[i]
    BY DEF Lists
  <2> QED
    BY <1>0, <1>1, <2>1, <2>2, <2>3
<1>4. Append(t, x)[Cardinality(UpTo(DOMAIN g, k))] = g[k]
  <2>1. UpTo(DOMAIN g, k) = DOMAIN g
    BY <1>0 DEF UpTo
  <2> QED
    BY <1>0, <1>1, <1>2, <2>1
<1> QED
  BY <1>0, <1>1, <1>2, <1>3, <1>4 DEF Lists, g

\* A part that grows by all the positions after n grows by what is there.
LEMMA ListsConcat ==
  ASSUME NEW T, NEW t \in Seq(T), NEW u \in Seq(T), NEW n \in Nat,
         NEW f, DOMAIN f \subseteq 1..n, Lists(t, f)
  PROVE  Lists(t \o u, WithAll(f, n, u))
<1> DEFINE g == WithAll(f, n, u)
<1> DEFINE m == Len(u)
<1> DEFINE l == Len(t)
<1>0. /\ DOMAIN g = DOMAIN f \cup (n + 1)..(n + m)
      /\ \A i \in DOMAIN f : g[i] = f[i]
      /\ \A k \in 1..m : g[n + k] = u[k]
  <2>1. m \in Nat
    OBVIOUS
  <2>2. ASSUME NEW k \in 1..m
        PROVE  n + k \in (n + 1)..(n + m) /\ n + k \notin DOMAIN f /\ (n + k) - n = k
    BY <2>1
  <2> QED
    BY <2>2 DEF WithAll
<1> HIDE DEF g
<1>1. /\ l \in Nat /\ m \in Nat /\ Len(t \o u) = l + m
      /\ \A i \in 1..l : (t \o u)[i] = t[i]
      /\ \A k \in 1..m : (t \o u)[l + k] = u[k]
  BY ConcatProperties
<1>2. l = Cardinality(DOMAIN f) /\ IsFiniteSet(DOMAIN f)
  BY PositionsFinite DEF Lists
<1>3. ASSUME NEW k \in 0..m
      PROVE  /\ UpTo(DOMAIN g, n + k) = DOMAIN f \cup (n + 1)..(n + k)
             /\ Cardinality(UpTo(DOMAIN g, n + k)) = l + k
  <2>1. UpTo(DOMAIN g, n + k) = DOMAIN f \cup (n + 1)..(n + k)
    BY <1>0, <1>1 DEF UpTo
  <2>2. IsFiniteSet((n + 1)..(n + k)) /\ Cardinality((n + 1)..(n + k)) = k
    <3>1. n + 1 \in Int /\ n + k \in Int
      BY <1>1
    <3>2. /\ IsFiniteSet((n + 1)..(n + k))
          /\ Cardinality((n + 1)..(n + k)) = IF n + 1 > n + k THEN 0 ELSE (n + k) - (n + 1) + 1
      BY <3>1, FS_Interval
    <3>3. k = (IF n + 1 > n + k THEN 0 ELSE (n + k) - (n + 1) + 1)
      BY <1>1
    <3> QED
      BY <3>2, <3>3
  <2>3. DOMAIN f \cap (n + 1)..(n + k) = {}
    OBVIOUS
  <2>4. Cardinality(DOMAIN f \cup (n + 1)..(n + k)) = l + k - 0
    <3>1. Cardinality(DOMAIN f \cup (n + 1)..(n + k))
            = Cardinality(DOMAIN f) + Cardinality((n + 1)..(n + k))
                - Cardinality(DOMAIN f \cap (n + 1)..(n + k))
      BY <1>2, <2>2, FS_Union
    <3> QED
      BY <3>1, <1>2, <2>2, <2>3, FS_EmptySet
  <2>5. l + k - 0 = l + k
    BY <1>1
  <2> QED
    BY <2>1, <2>4, <2>5
<1>4. Len(t \o u) = Cardinality(DOMAIN g)
  <2>1. UpTo(DOMAIN g, n + m) = DOMAIN g
    BY <1>0, <1>1 DEF UpTo
  <2>2. m \in 0..m
    BY <1>1
  <2> QED
    BY <1>1, <1>3, <2>1, <2>2
<1>5. ASSUME NEW i \in DOMAIN f
      PROVE  (t \o u)[Cardinality(UpTo(DOMAIN g, i))] = g[i]
  <2>1. UpTo(DOMAIN g, i) = UpTo(DOMAIN f, i)
    BY <1>0 DEF UpTo
  <2>2. Cardinality(UpTo(DOMAIN f, i)) \in 1..l
    BY <1>2, RankWithin
  <2>3. t[Cardinality(UpTo(DOMAIN f, i))] = f[i]
    BY DEF Lists
  <2> QED
    BY <1>0, <1>1, <2>1, <2>2, <2>3
<1>6. ASSUME NEW k \in 1..m
      PROVE  (t \o u)[Cardinality(UpTo(DOMAIN g, n + k))] = g[n + k]
  <2>1. k \in 0..m
    BY <1>1
  <2> QED
    BY <1>0, <1>1, <1>3, <2>1
<1>7. ASSUME NEW i \in (n + 1)..(n + m)
      PROVE  (t \o u)[Cardinality(UpTo(DOMAIN g, i))] = g[i]
  <2>1. i - n \in 1..m /\ n + (i - n) = i
    BY <1>1
  <2> QED
    BY <2>1, <1>6
<1> QED
  BY <1>0, <1>4, <1>5, <1>7 DEF Lists, g

-----------------------------------------------------------------------------
(* Sequences of sequences, put one behind the other.                       *)

\* A set of natural numbers that has 0 and with each number the next has all:
\* without one of them, the least of those missing would not be missing.
LEMMA AllNumbers ==
  ASSUME NEW P, P \subseteq Nat, 0 \in P, \A n \in P : n + 1 \in P
  PROVE  P = Nat
<1> DEFINE T == Nat \ P
<1>1. ASSUME T # {} PROVE FALSE
  <2>1. T \subseteq Nat
    OBVIOUS
  <2> HIDE DEF T
  <2>2. PICK x \in T : \A y \in T : x <= y
    BY <1>1, <2>1, LeastNumber
  <2>3. x \in Nat /\ x # 0
    BY DEF T
  <2>4. x - 1 \in Nat /\ ~(x <= x - 1) /\ (x - 1) + 1 = x
    BY <2>3
  <2> QED
    BY <2>2, <2>4 DEF T
<1> QED
  BY <1>1

\* f has the partial results of FlattenSeq, of the first n sequences in s.
Flattens(f, s, n) ==
  \A i \in 1..n : f[i] = IF i = 1 THEN s[i] ELSE f[i - 1] \o s[i]

\* There are partial results, whatever the sequences.
LEMMA FlattensExists ==
  ASSUME NEW S, NEW s \in Seq(Seq(S))
  PROVE  \E f \in [1..Len(s) -> Seq(S)] : Flattens(f, s, Len(s))
<1> DEFINE l == Len(s)
<1> DEFINE P == {n \in Nat : n <= l => \E f \in [1..n -> Seq(S)] : Flattens(f, s, n)}
<1>0. l \in Nat /\ \A i \in 1..l : s[i] \in Seq(S)
  OBVIOUS
<1> HIDE DEF l
<1>1. 0 \in P
  <2>1. [i \in 1..0 |-> <<>>] \in [1..0 -> Seq(S)] /\ Flattens([i \in 1..0 |-> <<>>], s, 0)
    BY DEF Flattens
  <2> QED
    BY <2>1
<1>2. ASSUME NEW n \in P PROVE n + 1 \in P
  <2>0. n \in Nat
    OBVIOUS
  <2>1. ASSUME n + 1 <= l PROVE \E f \in [1..(n + 1) -> Seq(S)] : Flattens(f, s, n + 1)
    <3>1. PICK f \in [1..n -> Seq(S)] : Flattens(f, s, n)
      BY <1>0, <2>0, <2>1
    <3> DEFINE x == IF n = 0 THEN s[n + 1] ELSE f[n] \o s[n + 1]
    <3> DEFINE g == [i \in 1..(n + 1) |-> IF i = n + 1 THEN x ELSE f[i]]
    <3>2. x \in Seq(S)
      <4>1. s[n + 1] \in Seq(S)
        BY <1>0, <2>0, <2>1
      <4>2. n # 0 => f[n] \in Seq(S)
        BY <2>0
      <4> QED
        BY <4>1, <4>2, ConcatProperties
    <3>4. x = IF n + 1 = 1 THEN s[n + 1] ELSE f[n] \o s[n + 1]
      BY <2>0
    <3> HIDE DEF x, P
    <3>3. g[n + 1] = x /\ \A i \in 1..n : g[i] = f[i]
      BY <2>0
    <3>5. g \in [1..(n + 1) -> Seq(S)]
      BY <2>0, <3>2
    <3> HIDE DEF g
    <3>6. ASSUME NEW i \in 1..(n + 1)
          PROVE  g[i] = IF i = 1 THEN s[i] ELSE g[i - 1] \o s[i]
      <4>1. CASE i = n + 1
        <5>1. i # 1 => g[i - 1] = f[n]
          BY <2>0, <3>3, <4>1
        <5> QED
          BY <3>3, <3>4, <4>1, <5>1
      <4>2. CASE i # n + 1
        <5>1. i \in 1..n /\ (i # 1 => i - 1 \in 1..n)
          BY <2>0, <4>2
        <5> QED
          BY <3>1, <3>3, <5>1 DEF Flattens
      <4> QED
        BY <4>1, <4>2
    <3> QED
      BY <3>5, <3>6 DEF Flattens
  <2> QED
    BY <2>0, <2>1
<1> HIDE DEF P
<1>3. P = Nat
  <2>1. P \subseteq Nat
    BY DEF P
  <2> QED
    BY <1>1, <1>2, <2>1, AllNumbers
<1> QED
  BY <1>0, <1>3 DEF P, l

\* There are no others.
LEMMA FlattensUnique ==
  ASSUME NEW s, NEW n \in Nat, NEW f, NEW g, Flattens(f, s, n), Flattens(g, s, n)
  PROVE  \A i \in 1..n : f[i] = g[i]
<1> DEFINE P == {i \in Nat : i \in 1..n => f[i] = g[i]}
<1>1. 0 \in P
  OBVIOUS
<1>2. ASSUME NEW i \in P PROVE i + 1 \in P
  <2>1. i \in Nat /\ (i \in 1..n => f[i] = g[i])
    OBVIOUS
  <2>2. ASSUME i + 1 \in 1..n PROVE f[i + 1] = g[i + 1]
    <3>1. (i + 1) - 1 = i /\ (i + 1 # 1 => i \in 1..n)
      BY <2>1, <2>2
    <3> QED
      BY <2>1, <2>2, <3>1 DEF Flattens
  <2> QED
    BY <2>1, <2>2
<1> HIDE DEF P
<1>3. P = Nat
  <2>1. P \subseteq Nat
    BY DEF P
  <2> QED
    BY <1>1, <1>2, <2>1, AllNumbers
<1> QED
  BY <1>3 DEF P

\* FlattenSeq is the last of the partial results.
LEMMA FlattenLast ==
  ASSUME NEW S, NEW s \in Seq(Seq(S)), s # <<>>, NEW f, Flattens(f, s, Len(s))
  PROVE  FlattenSeq(s) = f[Len(s)] /\ FlattenSeq(s) \in Seq(S)
<1> DEFINE n == Len(s)
<1> DEFINE Is(h) == h = [i \in 1..n |-> IF i = 1 THEN s[i] ELSE h[i - 1] \o s[i]]
<1>1. n \in Nat /\ n # 0 /\ n \in 1..n
  OBVIOUS
<1>2. FlattenSeq(s) = (CHOOSE h : Is(h))[n]
  BY <1>1 DEF FlattenSeq
<1>3. PICK g \in [1..n -> Seq(S)] : Flattens(g, s, n)
  BY FlattensExists
<1> HIDE DEF n
<1>4. Is(g)
  BY <1>3 DEF Flattens
<1> DEFINE h == CHOOSE k : Is(k)
<1>5. Is(h)
  <2> HIDE DEF Is
  <2> QED
    BY <1>4, Zenon
<1> HIDE DEF h
<1>6. Flattens(h, s, n)
  BY <1>5 DEF Flattens
<1>7. h[n] = g[n] /\ h[n] = f[n]
  BY <1>1, <1>3, <1>6, FlattensUnique DEF n
<1>8. FlattenSeq(s) = h[n]
  BY <1>2 DEF h
<1>9. g[n] \in Seq(S)
  BY <1>1, <1>3
<1> QED
  BY <1>7, <1>8, <1>9 DEF n

\* One more sequence comes last.
LEMMA FlattenAppend ==
  ASSUME NEW S, NEW s \in Seq(Seq(S)), NEW x \in Seq(S)
  PROVE  /\ FlattenSeq(s) \in Seq(S)
         /\ FlattenSeq(Append(s, x)) = FlattenSeq(s) \o x
<1> DEFINE n == Len(s)
<1> DEFINE t == Append(s, x)
<1>1. /\ n \in Nat /\ t \in Seq(Seq(S)) /\ t # <<>> /\ Len(t) = n + 1 /\ t[n + 1] = x
      /\ \A i \in 1..n : t[i] = s[i]
  BY AppendProperties
<1> HIDE DEF n, t
<1>2. PICK g \in [1..(n + 1) -> Seq(S)] : Flattens(g, t, n + 1)
  <2>1. \E g \in [1..Len(t) -> Seq(S)] : Flattens(g, t, Len(t))
    BY <1>1, FlattensExists
  <2> QED
    BY <1>1, <2>1
<1>3. FlattenSeq(t) = g[n + 1]
  BY <1>1, <1>2, FlattenLast
<1>4. CASE s = <<>>
  <2>1. n = 0
    BY <1>4 DEF n
  <2>2. g[1] = x
    BY <1>1, <1>2, <2>1 DEF Flattens
  <2>3. FlattenSeq(s) = <<>>
    BY <1>4 DEF FlattenSeq
  <2>4. <<>> \in Seq(S) /\ <<>> \o x = x
    OBVIOUS
  <2> QED
    BY <1>3, <2>1, <2>2, <2>3, <2>4 DEF t
<1>5. CASE s # <<>>
  <2>1. n # 0
    BY <1>5 DEF n
  <2>2. Flattens(g, s, n)
    <3>1. \A i \in 1..n : i \in 1..(n + 1)
      BY <1>1
    <3> QED
      BY <1>1, <1>2, <3>1 DEF Flattens
  <2>3. FlattenSeq(s) = g[n] /\ FlattenSeq(s) \in Seq(S)
    BY <1>5, <2>2, FlattenLast DEF n
  <2>4. g[n + 1] = g[n] \o x
    <3>1. n + 1 \in 1..(n + 1) /\ n + 1 # 1 /\ (n + 1) - 1 = n
      BY <1>1, <2>1
    <3> QED
      BY <1>1, <1>2, <3>1 DEF Flattens
  <2> QED
    BY <1>3, <2>3, <2>4 DEF t
<1> QED
  BY <1>4, <1>5

\* What comes first in the sequences comes first in the result.
LEMMA FlattenPrefix ==
  ASSUME NEW S, NEW s \in Seq(Seq(S)), NEW n \in 0..Len(s)
  PROVE  \E u \in Seq(S) : FlattenSeq(s) = FlattenSeq(SubSeq(s, 1, n)) \o u
<1> DEFINE l == Len(s)
<1> DEFINE Part(m) == SubSeq(s, 1, m)
<1> DEFINE F(m) == FlattenSeq(Part(m))
<1> DEFINE Extends(m) == \E u \in Seq(S) : F(m) = F(n) \o u
<1> DEFINE P == {k \in Nat : n + k <= l => Extends(n + k)}
<1>0. l \in Nat /\ n \in Nat /\ n <= l
  OBVIOUS
<1>1. ASSUME NEW m \in 0..l
      PROVE  /\ Part(m) \in Seq(Seq(S)) /\ F(m) \in Seq(S)
             /\ m + 1 <= l => Part(m + 1) = Append(Part(m), s[m + 1]) /\ s[m + 1] \in Seq(S)
  <2>1. Part(m) \in Seq(Seq(S))
    OBVIOUS
  <2>2. ASSUME m + 1 <= l
        PROVE  Part(m + 1) = Append(Part(m), s[m + 1]) /\ s[m + 1] \in Seq(S)
    <3>1. s[m + 1] \in Seq(S)
      BY <2>2
    <3> QED
      BY <2>2, <3>1
  <2>3. <<>> \in Seq(S)
    OBVIOUS
  <2>4. F(m) \in Seq(S)
    BY <2>1, <2>3, FlattenAppend
  <2> QED
    BY <2>1, <2>2, <2>4
<1>2. Part(l) = s
  OBVIOUS
<1> HIDE DEF Part, F, l
<1>3. 0 \in P
  <2>1. F(n) \in Seq(S) /\ n + 0 = n
    BY <1>0, <1>1
  <2>2. <<>> \in Seq(S) /\ F(n) \o <<>> = F(n)
    BY <2>1
  <2>3. Extends(n + 0)
    BY <2>1, <2>2
  <2> HIDE DEF Extends
  <2> QED
    BY <2>3
<1>4. ASSUME NEW k \in P PROVE k + 1 \in P
  <2>1. k \in Nat
    OBVIOUS
  <2>2. ASSUME n + (k + 1) <= l PROVE Extends(n + (k + 1))
    <3>1. n + k \in 0..l /\ n \in 0..l /\ n + (k + 1) = (n + k) + 1 /\ n + k <= l
      BY <1>0, <2>1, <2>2
    <3> DEFINE m == n + k
    <3>2. PICK u \in Seq(S) : F(m) = F(n) \o u
      BY <3>1
    <3>3. m \in 0..l /\ m + 1 <= l
      BY <2>2, <3>1
    <3> HIDE DEF m
    <3> DEFINE x == s[m + 1]
    <3>4. x \in Seq(S) /\ Part(m) \in Seq(Seq(S)) /\ Part(m + 1) = Append(Part(m), x)
      BY <1>1, <3>3
    <3> HIDE DEF x
    <3>5. F(m + 1) = F(m) \o x
      BY <3>4, FlattenAppend DEF F
    <3> DEFINE a == F(n)
    <3>6. a \in Seq(S)
      BY <1>1, <3>1
    <3>7. F(m + 1) = (a \o u) \o x
      BY <3>2, <3>5
    <3>8. n + (k + 1) = m + 1
      BY <3>1 DEF m
    <3> HIDE DEF a
    <3> HIDE DEF P
    <3> HIDE DEF Extends
    <3>9. x \in Seq(S) /\ u \in Seq(S)
      BY <3>4
    <3>10. (a \o u) \o x = a \o (u \o x)
      BY <3>6, <3>9, ConcatAssociative
    <3>11. u \o x \in Seq(S)
      BY <3>9, ConcatProperties
    <3>12. \E v \in Seq(S) : F(m + 1) = a \o v
      BY <3>7, <3>10, <3>11
    <3> QED
      BY <3>8, <3>12 DEF a, Extends
  <2> HIDE DEF Extends
  <2> QED
    BY <2>1, <2>2
<1> HIDE DEF P, Extends
<1>5. P = Nat
  <2>1. P \subseteq Nat
    BY DEF P
  <2> QED
    BY <1>3, <1>4, <2>1, AllNumbers
<1>6. l - n \in Nat /\ n + (l - n) = l /\ l <= l
  BY <1>0
<1>7. Extends(l)
  BY <1>5, <1>6 DEF P
<1> QED
  BY <1>2, <1>7 DEF Extends, F, Part
=============================================================================
