----------------------- MODULE RecurrentLeases_proofs -----------------------
(***************************************************************************)
(* What the router promises its actors, for any actors, seats, routes,     *)
(* capacities, number of restarts and of requests.                         *)
(*                                                                         *)
(* The state invariant StateInv has three parts.  RouterInv is about the   *)
(* router alone: its types, its account (Balanced) and who owns what       *)
(* (Owned).  Each operation of the router keeps it: releasing any keys,    *)
(* admitting newer generations, binding, publishing and remembering an     *)
(* answer.  TypeInv types everything else, and PastInv says that nothing   *)
(* is of a process that was not started yet, so that no generation the     *)
(* router admits is ahead of the actor's.  The server's filters, its       *)
(* bounded memories and its maxima are functions of finite sets; what they *)
(* return is shown by a least counterexample.                              *)
(*                                                                         *)
(* What is cleaned up stays so by CleanInv: an actor closes its sequences  *)
(* when it asks for their cleanup and decodes none of them again, and no   *)
(* decode is behind a cleanup of its sequence on the way to the router, so *)
(* none is left on the way when the cleanup is served.                     *)
(*                                                                         *)
(* A sequence runs on the artifact its actor was told by ArtifactInv: the  *)
(* memory of released keys is in the order of each actor's processes, so   *)
(* with room for those of the others (Roomy) it forgets nothing of a       *)
(* running process, and each answer to a decode that is cached, queued or  *)
(* received stays true (Served) until its sequence is cleaned up.          *)
(*                                                                         *)
(* No retry is refused by RetryInv: a process uses a number once, what is  *)
(* on the way, cached or answered under one it waits for is what it asked, *)
(* what it waits for is apart from the rest, and a sequence the router     *)
(* holds is known to its actor or in an answer the actor has not read.  So *)
(* a request served for the first time binds what nobody holds, for which  *)
(* there is room (Large), or names what its sequences run on (Served).     *)
(***************************************************************************)
EXTENDS RecurrentLeasesProperties, SequenceTheorems, FiniteSetTheorems,
        WellFoundedInduction, NaturalsInduction, FunctionTheorems, TLAPS

(***************************************************************************)
(* Finite sets of naturals and sequences.  A property of every natural     *)
(* number is proved from the least counterexample it would have.           *)
(***************************************************************************)

\* A nonempty set of naturals has a least element.
LEMMA LeastNatural ==
    ASSUME NEW T \in SUBSET Nat, T # {}
    PROVE  \E m \in T : \A k \in T : m <= k
<1>1. PICK m \in T : \A k \in T : <<k, m>> \notin OpToRel(<, Nat)
  BY NatLessThanWellFounded, WFMin
<1>2. \A k \in T : ~(k < m)
  BY <1>1 DEF OpToRel
<1> QED
  BY <1>2

\* What holds of 0 and passes from n to n + 1 holds of all numbers up to N.
LEMMA UpTo ==
    ASSUME NEW N \in Nat, NEW T, 0 \in T, \A n \in 0 .. N : n # N /\ n \in T => n + 1 \in T
    PROVE  N \in T
<1> DEFINE Failing == {n \in 0 .. N : n \notin T}
<1> SUFFICES ASSUME N \notin T PROVE FALSE
  OBVIOUS
<1>1. Failing \in SUBSET Nat /\ Failing # {}
  OBVIOUS
<1>2. PICK m \in Failing : \A k \in Failing : m <= k
  <2> HIDE DEF Failing
  <2> QED
    BY <1>1, LeastNatural
<1>3. m \in 0 .. N /\ m \notin T /\ m # 0
  OBVIOUS
<1>4. m - 1 \in 0 .. N /\ m - 1 # N /\ (m - 1) + 1 = m
  BY <1>3
<1>5. m - 1 \notin Failing
  BY <1>2, <1>4
<1>6. m - 1 \in T
  BY <1>4, <1>5
<1> QED
  BY <1>3, <1>4, <1>6

\* The maximum of a nonempty set of numbers up to n.
LEMMA MaxFacts ==
    ASSUME NEW n \in Nat, NEW d \in SUBSET (0 .. n), d # {}
    PROVE  Max(d) \in d /\ \A k \in d : k <= Max(d)
<1> DEFINE Above == {m \in Nat : \A k \in d : k <= m}
<1>1. Above \in SUBSET Nat /\ n \in Above
  OBVIOUS
<1>2. PICK m \in Above : \A k \in Above : m <= k
  <2> HIDE DEF Above
  <2> QED
    BY <1>1, LeastNatural
<1>3. m \in d
  <2> SUFFICES ASSUME m \notin d PROVE FALSE
    OBVIOUS
  <2>1. PICK k \in d : TRUE
    OBVIOUS
  <2>2. k \in Nat /\ k < m
    BY <2>1
  <2>3. m - 1 \in Nat /\ \A j \in d : j <= m - 1
    BY <2>2
  <2>4. m - 1 \in Above
    BY <2>3
  <2> QED
    BY <1>2, <2>4
<1>4. \A k \in d : m >= k
  OBVIOUS
<1>5. \E x \in d : \A y \in d : x >= y
  BY <1>3, <1>4
<1>6. Max(d) \in d /\ \A y \in d : Max(d) >= y
  BY <1>5 DEF Max
<1> QED
  BY <1>6

\* one more entry, if it is in S
Step(t, x, S) == IF x \in S THEN Append(t, x) ELSE t

\* what a fold keeps of the entries with numbers in d
KeptOf(g, s, S, d) == IF d = {} THEN <<>> ELSE Step(g[d \ {Max(d)}], s[Max(d)], S)

IsKept(g, s, S, D) == g = [d \in D |-> KeptOf(g, s, S, d)]

\* The recursive definition behind the fold has a solution.
LEMMA KeptExists ==
    ASSUME NEW N \in Nat, NEW s, NEW S
    PROVE  \E g : IsKept(g, s, S, SUBSET (1 .. N))
<1> DEFINE Within(n) == SUBSET (1 .. n)
           Good == {n \in Nat : \E g : IsKept(g, s, S, Within(n))}
<1>1. 0 \in Good
  <2>1. \A d \in Within(0) : d = {}
    OBVIOUS
  <2>2. IsKept([d \in Within(0) |-> <<>>], s, S, Within(0))
    BY <2>1 DEF IsKept, KeptOf
  <2> QED
    BY <2>2
<1>2. ASSUME NEW n \in Nat, n \in Good PROVE n + 1 \in Good
  <2>1. PICK g : IsKept(g, s, S, Within(n))
    BY <1>2
  <2> DEFINE h == [d \in Within(n + 1) |->
                      IF d \in Within(n) THEN g[d] ELSE Step(g[d \ {n + 1}], s[n + 1], S)]
  <2>2. ASSUME NEW d \in Within(n + 1), d # {}
        PROVE  /\ Max(d) \in d
               /\ d \ {Max(d)} \in Within(n)
               /\ d \notin Within(n) => Max(d) = n + 1
    <3>1. d \in SUBSET (0 .. n + 1) /\ n + 1 \in Nat
      OBVIOUS
    <3>2. Max(d) \in d /\ \A k \in d : k <= Max(d)
      BY <2>2, <3>1, MaxFacts
    <3>3. \A k \in d : k \in 1 .. n + 1
      OBVIOUS
    <3>4. d \notin Within(n) => n + 1 \in d
      <4>1. ASSUME n + 1 \notin d PROVE d \subseteq 1 .. n
        BY <3>3, <4>1
      <4> QED
        BY <4>1
    <3>5. PICK m : m = Max(d)
      OBVIOUS
    <3>6. m \in d /\ m \in 1 .. n + 1 /\ \A k \in d : k <= m
      BY <3>2, <3>3, <3>5
    <3>7. \A k \in d \ {m} : k \in 1 .. n
      BY <3>3, <3>6
    <3>8. n + 1 \in d => m = n + 1
      BY <3>6
    <3>9. d \ {m} \in Within(n)
      BY <3>7
    <3> QED
      BY <3>4, <3>5, <3>6, <3>8, <3>9
  <2>3. ASSUME NEW d \in Within(n + 1) PROVE h[d] = KeptOf(h, s, S, d)
    <3>1. Within(n) \subseteq Within(n + 1)
      OBVIOUS
    <3>2. CASE d = {}
      <4>1. d \in Within(n)
        BY <3>2
      <4>2. g[d] = KeptOf(g, s, S, d)
        BY <2>1, <4>1 DEF IsKept
      <4> QED
        BY <3>2, <4>1, <4>2 DEF KeptOf
    <3>3. CASE d # {} /\ d \in Within(n)
      <4>1. g[d] = KeptOf(g, s, S, d)
        BY <2>1, <3>3 DEF IsKept
      <4>2. h[d \ {Max(d)}] = g[d \ {Max(d)}]
        BY <2>2, <3>1, <3>3
      <4>3. h[d] = g[d]
        BY <3>3
      <4> HIDE DEF h
      <4> QED
        BY <3>3, <4>1, <4>2, <4>3 DEF KeptOf
    <3>4. CASE d \notin Within(n)
      <4>1. d # {} /\ Max(d) = n + 1 /\ d \ {Max(d)} \in Within(n)
        BY <2>2, <3>4
      <4>2. h[d \ {Max(d)}] = g[d \ {Max(d)}]
        BY <3>1, <4>1
      <4>3. h[d] = Step(g[d \ {n + 1}], s[n + 1], S)
        BY <3>4
      <4> HIDE DEF h
      <4> QED
        BY <4>1, <4>2, <4>3 DEF KeptOf
    <3> QED
      BY <3>2, <3>3, <3>4
  <2>4. IsKept(h, s, S, Within(n + 1))
    <3>1. h = [d \in Within(n + 1) |-> h[d]]
      OBVIOUS
    <3> HIDE DEF h, Within
    <3> QED
      BY <2>3, <3>1 DEF IsKept
  <2> QED
    BY <2>4
<1>3. N \in Good
  <2> HIDE DEF Good
  <2> QED
    BY <1>1, <1>2, UpTo
<1> QED
  BY <1>3

\* t has the entries of s at increasing places
Embeds(t, s, n) ==
    \E e \in [DOMAIN t -> 1 .. n] :
        /\ \A i \in DOMAIN t : t[i] = s[e[i]]
        /\ \A i, j \in DOMAIN t : i < j => e[i] < e[j]

\* t is what is kept of the first n entries of s
KeepsOf(t, s, S, n) ==
    /\ Embeds(t, s, n)
    /\ \A x : (\E i \in DOMAIN t : t[i] = x) <=> x \in S /\ \E i \in 1 .. n : s[i] = x

\* Only keeps the entries in S, no others, in their order.
LEMMA OnlyFacts ==
    ASSUME NEW T, NEW s \in Seq(T), NEW S
    PROVE  /\ Only(s, S) \in Seq(T)
           /\ Len(Only(s, S)) <= Len(s)
           /\ KeepsOf(Only(s, S), s, S, Len(s))
           /\ Range(Only(s, S)) = Range(s) \cap S
<1>1. Len(s) \in Nat /\ DOMAIN s = 1 .. Len(s) /\ s \in [1 .. Len(s) -> T]
  BY LenProperties
<1> DEFINE g == CHOOSE f : IsKept(f, s, S, SUBSET DOMAIN s)
<1>2. Only(s, S) = g[DOMAIN s]
  BY DEF Only, FoldLeft, MapThenFoldSet, IsKept, KeptOf, Step
<1>3. IsKept(g, s, S, SUBSET (1 .. Len(s)))
  <2>1. \E f : IsKept(f, s, S, SUBSET DOMAIN s)
    BY <1>1, KeptExists
  <2> QED
    BY <1>1, <2>1
<1> HIDE DEF g
<1> DEFINE Good == {n \in 0 .. Len(s) : /\ g[1 .. n] \in Seq(T)
                                        /\ Len(g[1 .. n]) <= n
                                        /\ KeepsOf(g[1 .. n], s, S, n)}
<1>4. 0 \in Good
  <2>1. 1 .. 0 = {} /\ 1 .. 0 \in SUBSET (1 .. Len(s)) /\ 0 \in 0 .. Len(s)
    BY <1>1
  <2>2. g[1 .. 0] = <<>>
    BY <1>3, <2>1 DEF IsKept, KeptOf
  <2>3. DOMAIN g[1 .. 0] = {} /\ g[1 .. 0] \in Seq(T) /\ Len(g[1 .. 0]) = 0
    BY <2>2
  <2>4. KeepsOf(g[1 .. 0], s, S, 0)
    <3>1. [i \in {} |-> 0] \in [DOMAIN g[1 .. 0] -> 1 .. 0]
      BY <2>3
    <3>2. Embeds(g[1 .. 0], s, 0)
      BY <2>3, <3>1 DEF Embeds
    <3> QED
      BY <2>1, <2>3, <3>2 DEF KeepsOf
  <2> QED
    BY <2>1, <2>3, <2>4
<1>5. ASSUME NEW n \in 0 .. Len(s), n # Len(s), n \in Good PROVE n + 1 \in Good
  <2> DEFINE t == g[1 .. n]
             u == g[1 .. (n + 1)]
  <2>1. /\ n \in Nat /\ n + 1 \in 0 .. Len(s) /\ n + 1 \in 1 .. Len(s)
        /\ 1 .. (n + 1) \in SUBSET (1 .. Len(s)) /\ 1 .. (n + 1) # {}
    <3>1. PICK N \in Nat : N = Len(s)
      BY <1>1
    <3>2. n \in Nat /\ n + 1 \in 0 .. N /\ n + 1 \in 1 .. N /\ 1 \in 1 .. (n + 1)
      BY <1>5, <3>1
    <3>3. 1 .. (n + 1) \subseteq 1 .. N
      BY <3>1, <3>2
    <3> QED
      BY <3>1, <3>2, <3>3
  <2>2. Max(1 .. (n + 1)) = n + 1
    <3>1. 1 .. (n + 1) \in SUBSET (0 .. (n + 1)) /\ n + 1 \in Nat
      BY <2>1
    <3>2. Max(1 .. (n + 1)) \in 1 .. (n + 1) /\ \A k \in 1 .. (n + 1) : k <= Max(1 .. (n + 1))
      BY <2>1, <3>1, MaxFacts
    <3>3. n + 1 \in 1 .. (n + 1)
      BY <2>1
    <3> QED
      BY <2>1, <3>2, <3>3
  <2>3. (1 .. (n + 1)) \ {n + 1} = 1 .. n
    BY <2>1
  <2>4. u = Step(t, s[n + 1], S)
    BY <1>3, <2>1, <2>2, <2>3 DEF IsKept, KeptOf
  <2>5. t \in Seq(T) /\ Len(t) <= n /\ KeepsOf(t, s, S, n)
    BY <1>5
  <2>6. s[n + 1] \in T
    BY <1>1, <2>1
  <2> HIDE DEF t, u
  <2>7. Len(t) \in Nat /\ DOMAIN t = 1 .. Len(t)
    BY <2>5, LenProperties
  <2>8. PICK e \in [DOMAIN t -> 1 .. n] :
              /\ \A i \in DOMAIN t : t[i] = s[e[i]]
              /\ \A i, j \in DOMAIN t : i < j => e[i] < e[j]
    BY <2>5 DEF KeepsOf, Embeds
  <2>9. CASE s[n + 1] \in S
    <3>1. u = Append(t, s[n + 1])
      BY <2>4, <2>9 DEF Step
    <3>2. /\ u \in Seq(T)
          /\ Len(u) = Len(t) + 1
          /\ \A i \in 1 .. Len(t) : u[i] = t[i]
          /\ u[Len(t) + 1] = s[n + 1]
          /\ DOMAIN u = 1 .. (Len(t) + 1)
      BY <2>5, <2>6, <3>1, AppendProperties, LenProperties
    <3> DEFINE f == [i \in DOMAIN u |-> IF i \in DOMAIN t THEN e[i] ELSE n + 1]
    <3>3. f \in [DOMAIN u -> 1 .. (n + 1)]
      BY <2>1, <2>8
    <3>4. \A i \in DOMAIN u : u[i] = s[f[i]]
      BY <2>7, <2>8, <3>2
    <3>5. \A i, j \in DOMAIN u : i < j => f[i] < f[j]
      BY <2>1, <2>7, <2>8, <3>2
    <3>6. Embeds(u, s, n + 1)
      <4> HIDE DEF f
      <4> QED
        BY <3>3, <3>4, <3>5 DEF Embeds
    <3>7. ASSUME NEW x
          PROVE  (\E i \in DOMAIN u : u[i] = x) <=> x \in S /\ \E i \in 1 .. (n + 1) : s[i] = x
      <4>1. (\E i \in DOMAIN t : t[i] = x) <=> x \in S /\ \E i \in 1 .. n : s[i] = x
        BY <2>5 DEF KeepsOf
      <4>2. (\E i \in DOMAIN u : u[i] = x) <=> (\E i \in DOMAIN t : t[i] = x) \/ x = s[n + 1]
        <5>1. DOMAIN u = DOMAIN t \cup {Len(t) + 1} /\ \A i \in DOMAIN t : u[i] = t[i]
          BY <2>7, <3>2
        <5> QED
          BY <3>2, <5>1
      <4>3. (\E i \in 1 .. (n + 1) : s[i] = x) <=> (\E i \in 1 .. n : s[i] = x) \/ x = s[n + 1]
        BY <2>1
      <4> QED
        BY <2>9, <4>1, <4>2, <4>3
    <3>8. Len(u) <= n + 1
      BY <2>1, <2>5, <2>7, <3>2
    <3> QED
      BY <2>1, <3>2, <3>6, <3>7, <3>8 DEF KeepsOf, u
  <2>10. CASE s[n + 1] \notin S
    <3>1. u = t
      BY <2>4, <2>10 DEF Step
    <3>2. e \in [DOMAIN u -> 1 .. (n + 1)]
      BY <2>1, <2>8, <3>1
    <3>3. Embeds(u, s, n + 1)
      BY <2>8, <3>1, <3>2 DEF Embeds
    <3>4. ASSUME NEW x
          PROVE  (\E i \in DOMAIN u : u[i] = x) <=> x \in S /\ \E i \in 1 .. (n + 1) : s[i] = x
      <4>1. (\E i \in DOMAIN t : t[i] = x) <=> x \in S /\ \E i \in 1 .. n : s[i] = x
        BY <2>5 DEF KeepsOf
      <4>2. (\E i \in 1 .. (n + 1) : s[i] = x) <=> (\E i \in 1 .. n : s[i] = x) \/ x = s[n + 1]
        BY <2>1
      <4> QED
        BY <2>10, <3>1, <4>1, <4>2
    <3>5. Len(u) <= n + 1
      BY <2>1, <2>5, <2>7, <3>1
    <3> QED
      BY <2>1, <2>5, <3>1, <3>3, <3>4, <3>5 DEF KeepsOf, u
  <2> QED
    BY <2>9, <2>10
<1>6. Len(s) \in Good
  <2> HIDE DEF Good
  <2> QED
    BY <1>1, <1>4, <1>5, UpTo
<1>7. /\ g[1 .. Len(s)] \in Seq(T)
      /\ Len(g[1 .. Len(s)]) <= Len(s)
      /\ KeepsOf(g[1 .. Len(s)], s, S, Len(s))
  BY <1>6
<1>8. Range(g[1 .. Len(s)]) = Range(s) \cap S
  BY <1>1, <1>7 DEF KeepsOf, Range
<1> QED
  BY <1>1, <1>2, <1>7, <1>8

\* The newest entries of a memory.
LEMMA NewestFacts ==
    ASSUME NEW T, NEW s \in Seq(T)
    PROVE  /\ Newest(s) \in Seq(T)
           /\ Range(Newest(s)) \subseteq Range(s)
           /\ Len(Newest(s)) <= ReplayCapacity
           /\ Len(s) <= ReplayCapacity => Newest(s) = s
<1>1. Len(s) \in Nat /\ DOMAIN s = 1 .. Len(s) /\ s \in [1 .. Len(s) -> T]
  BY LenProperties
<1>2. ReplayCapacity \in Nat /\ ReplayCapacity # 0
  BY RecurrentAssumption
<1>3. CASE Len(s) <= ReplayCapacity
  <2>1. Newest(s) = SubSeq(s, 1, Len(s))
    <3>1. ~(Len(s) > ReplayCapacity)
      BY <1>1, <1>2, <1>3
    <3> QED
      BY <3>1 DEF Newest
  <2> QED
    BY <1>1, <1>3, <2>1, SubSeqFull
<1>4. CASE ~(Len(s) <= ReplayCapacity)
  <2> DEFINE m == Len(s) - ReplayCapacity + 1
  <2>1. Newest(s) = SubSeq(s, m, Len(s))
    <3>1. Len(s) > ReplayCapacity
      BY <1>1, <1>2, <1>4
    <3> QED
      BY <3>1 DEF Newest
  <2>2. m \in Int /\ m >= 1 /\ m <= Len(s) /\ Len(s) - m + 1 = ReplayCapacity
    BY <1>1, <1>2, <1>4
  <2> HIDE DEF m
  <2>3. \A i \in m .. Len(s) : s[i] \in T
    BY <1>1, <2>2
  <2>4. /\ SubSeq(s, m, Len(s)) \in Seq(T)
        /\ Len(SubSeq(s, m, Len(s))) = Len(s) - m + 1
        /\ \A i \in 1 .. Len(s) - m + 1 : SubSeq(s, m, Len(s))[i] = s[m + i - 1]
    BY <1>1, <2>2, <2>3, SubSeqProperties
  <2>5. DOMAIN Newest(s) = 1 .. ReplayCapacity
    BY <2>1, <2>2, <2>4, LenProperties
  <2>6. \A i \in DOMAIN Newest(s) : Newest(s)[i] = s[m + i - 1] /\ m + i - 1 \in DOMAIN s
    BY <1>1, <1>2, <2>1, <2>2, <2>4, <2>5
  <2>7. Range(Newest(s)) \subseteq Range(s)
    BY <2>6 DEF Range
  <2> QED
    BY <1>2, <1>4, <2>1, <2>2, <2>4, <2>7
<1> QED
  BY <1>3, <1>4

\* A finite set as a sequence.
LEMMA SetToSeqFacts ==
    ASSUME NEW S, IsFiniteSet(S)
    PROVE  /\ SetToSeq(S) \in Seq(S)
           /\ Range(SetToSeq(S)) = S
           /\ Len(SetToSeq(S)) = Cardinality(S)
           /\ \A i, j \in DOMAIN SetToSeq(S) : SetToSeq(S)[i] = SetToSeq(S)[j] => i = j
<1> DEFINE n == Cardinality(S)
<1>1. n \in Nat
  BY FS_CardinalityType
<1>2. PICK f : f \in Bijection(1 .. n, S)
  BY FS_CardinalityType DEF ExistsBijection
<1>3. f \in [1 .. n -> S] /\ IsInjective(f)
  BY <1>2 DEF Bijection, Injection, IsInjective
<1>4. SetToSeq(S) \in [1 .. n -> S] /\ IsInjective(SetToSeq(S))
  BY <1>3 DEF SetToSeq
<1> DEFINE t == SetToSeq(S)
<1>5. t \in Injection(1 .. n, S)
  BY <1>4 DEF Injection, IsInjective
<1>6. IsFiniteSet(1 .. n) /\ Cardinality(1 .. n) = n
  BY <1>1, FS_Interval
<1>7. t \in Surjection(1 .. n, S)
  BY <1>1, <1>5, <1>6, FS_Injection
<1> HIDE DEF t, n
<1>8. t \in Seq(S) /\ Len(t) = n /\ DOMAIN t = 1 .. n
  BY <1>1, <1>7, SeqDef DEF Surjection
<1>9. Range(t) = S
  BY <1>7, <1>8 DEF Range, Surjection
<1>10. \A i, j \in DOMAIN t : t[i] = t[j] => i = j
  BY <1>5 DEF Injection, IsInjective
<1> QED
  BY <1>8, <1>9, <1>10 DEF t, n

(***************************************************************************)
(* Types                                                                   *)
(***************************************************************************)

Kind == {"decode", "release", "abort"}

Request == [actor : Actor, incarnation : Nat, id : Nat, kind : Kind,
            seats : SUBSET Seat, expected : Nat, at : Nat]

Response == [actor : Actor, incarnation : Nat, id : Nat, kind : Kind,
             seats : SUBSET Seat, ok : BOOLEAN, artifact : Nat]

Tombstone == [key : Key, artifact : Nat]

\* functions from a part of D
Maps(D, R) == UNION {[E -> R] : E \in SUBSET D}

Router == [current : Nat, resident : Maps(Nat, Int), inFlight : Int,
           sequences : Maps(Key, Nat), generation : [Actor -> Int],
           tombstones : Seq(Tombstone), replays : Seq(Response)]

LEMMA MapFacts ==
    ASSUME NEW D, NEW R, NEW f
    PROVE  f \in Maps(D, R) <=> /\ DOMAIN f \subseteq D
                                /\ f = [x \in DOMAIN f |-> f[x]]
                                /\ \A x \in DOMAIN f : f[x] \in R
<1>1. ASSUME f \in Maps(D, R)
      PROVE  /\ DOMAIN f \subseteq D
             /\ f = [x \in DOMAIN f |-> f[x]]
             /\ \A x \in DOMAIN f : f[x] \in R
  <2>1. PICK E \in SUBSET D : f \in [E -> R]
    BY <1>1 DEF Maps
  <2> QED
    BY <2>1
<1>2. ASSUME /\ DOMAIN f \subseteq D
             /\ f = [x \in DOMAIN f |-> f[x]]
             /\ \A x \in DOMAIN f : f[x] \in R
      PROVE  f \in Maps(D, R)
  <2>1. f \in [DOMAIN f -> R]
    BY <1>2
  <2> QED
    BY <1>2, <2>1 DEF Maps
<1> QED
  BY <1>1, <1>2

\* A map restricted, or extended, is a map.
LEMMA RestrictMaps ==
    ASSUME NEW D, NEW R, NEW f \in Maps(D, R), NEW E \in SUBSET DOMAIN f
    PROVE  /\ Restrict(f, E) \in Maps(D, R)
           /\ DOMAIN Restrict(f, E) = E
           /\ \A x \in E : Restrict(f, E)[x] = f[x]
<1>1. /\ DOMAIN Restrict(f, E) = E
      /\ \A x \in E : Restrict(f, E)[x] = f[x]
      /\ Restrict(f, E) = [x \in E |-> Restrict(f, E)[x]]
  BY DEF Restrict
<1>2. DOMAIN f \subseteq D /\ \A x \in DOMAIN f : f[x] \in R
  BY MapFacts
<1>3. DOMAIN Restrict(f, E) \subseteq D /\ \A x \in E : Restrict(f, E)[x] \in R
  BY <1>1, <1>2
<1> QED
  BY <1>1, <1>3, MapFacts

LEMMA PutMaps ==
    ASSUME NEW D, NEW R, NEW f \in Maps(D, R), NEW E \in SUBSET D, NEW x \in R
    PROVE  /\ Put(f, E, x) \in Maps(D, R)
           /\ DOMAIN Put(f, E, x) = E \cup DOMAIN f
           /\ \A d \in E : Put(f, E, x)[d] = x
           /\ \A d \in DOMAIN f \ E : Put(f, E, x)[d] = f[d]
<1>1. /\ DOMAIN Put(f, E, x) = E \cup DOMAIN f
      /\ \A d \in E : Put(f, E, x)[d] = x
      /\ \A d \in DOMAIN f \ E : Put(f, E, x)[d] = f[d]
      /\ Put(f, E, x) = [d \in E \cup DOMAIN f |-> Put(f, E, x)[d]]
  BY DEF Put
<1>2. DOMAIN f \subseteq D /\ \A d \in DOMAIN f : f[d] \in R
  BY MapFacts
<1>3. E \cup DOMAIN f \subseteq D /\ \A d \in E \cup DOMAIN f : Put(f, E, x)[d] \in R
  BY <1>1, <1>2
<1> QED
  BY <1>1, <1>3, MapFacts

LEMMA EmptyMap == ASSUME NEW D, NEW R PROVE <<>> \in Maps(D, R) /\ DOMAIN <<>> = {}
<1>1. DOMAIN <<>> = {} /\ <<>> = [x \in {} |-> <<>>[x]]
  OBVIOUS
<1> QED
  BY <1>1, MapFacts

(***************************************************************************)
(* The router's account                                                    *)
(***************************************************************************)

Pinned(r, v) == {k \in DOMAIN r.sequences : r.sequences[k] = v}

\* PoolIsBalanced, of any router
Balanced(r) ==
    /\ IsFiniteSet(DOMAIN r.sequences)
    /\ IsFiniteSet(DOMAIN r.resident)
    /\ \A v : v \in DOMAIN r.resident <=> v = r.current \/ Pinned(r, v) # {}
    /\ \A v \in DOMAIN r.resident : r.resident[v] = Cardinality(Pinned(r, v))
    /\ r.inFlight = Cardinality(DOMAIN r.sequences)
    /\ r.inFlight <= MaxInFlight
    /\ r.inFlight <= MaxSequences
    /\ Cardinality(DOMAIN r.resident) <= MaxResident

\* OneOwner, of any router
Owned(r) ==
    /\ \A k \in DOMAIN r.sequences : k.incarnation = r.generation[k.actor]
    /\ \A t \in Range(r.tombstones) : t.key \notin DOMAIN r.sequences
    /\ \A t, u \in Range(r.tombstones) : t.key = u.key => t = u

RouterInv(r) == r \in Router /\ Balanced(r) /\ Owned(r)

LEMMA PinnedFinite ==
    ASSUME NEW r, IsFiniteSet(DOMAIN r.sequences), NEW v
    PROVE  /\ IsFiniteSet(Pinned(r, v))
           /\ Cardinality(Pinned(r, v)) \in Nat
           /\ Cardinality(Pinned(r, v)) = 0 <=> Pinned(r, v) = {}
<1>1. Pinned(r, v) \in SUBSET DOMAIN r.sequences
  BY DEF Pinned
<1>2. IsFiniteSet(Pinned(r, v))
  BY <1>1, FS_Subset
<1> QED
  BY <1>2, FS_CardinalityType, FS_EmptySet

\* a router of these parts
RouterOf(n) ==
    n = [current |-> n.current, resident |-> n.resident, inFlight |-> n.inFlight,
         sequences |-> n.sequences, generation |-> n.generation,
         tombstones |-> n.tombstones, replays |-> n.replays]

\* the keys among ks that a release finds held, and the counts it leaves
HeldOf(r, ks) == ks \cap DOMAIN r.sequences
PinnedOf(r, ks, v) == {k \in HeldOf(r, ks) : r.sequences[k] = v}
LessOf(r, ks) ==
    [v \in DOMAIN r.resident |-> r.resident[v] - Cardinality(PinnedOf(r, ks, v))]

\* What a release does to each part of the router.
LEMMA ReleasedParts ==
    ASSUME NEW r \in Router, NEW ks
    PROVE  /\ Released(r, ks).current = r.current
           /\ Released(r, ks).generation = r.generation
           /\ Released(r, ks).tombstones = r.tombstones
           /\ Released(r, ks).replays = r.replays
           /\ Released(r, ks).sequences
                 = Restrict(r.sequences, DOMAIN r.sequences \ HeldOf(r, ks))
           /\ Released(r, ks).inFlight = r.inFlight - Cardinality(HeldOf(r, ks))
           /\ Released(r, ks).resident = Keep(LessOf(r, ks), r.current)
           /\ RouterOf(Released(r, ks))
<1>1. Released(r, ks) = [r EXCEPT
           !.sequences = Restrict(@, DOMAIN @ \ HeldOf(r, ks)),
           !.inFlight = @ - Cardinality(HeldOf(r, ks)),
           !.resident = Keep([v \in DOMAIN @ |->
                              @[v] - Cardinality(PinnedOf(r, ks, v))], r.current)]
  BY DEF Released, HeldOf, PinnedOf
<1>2. Released(r, ks) = [r EXCEPT
           !.sequences = Restrict(r.sequences, DOMAIN r.sequences \ HeldOf(r, ks)),
           !.inFlight = r.inFlight - Cardinality(HeldOf(r, ks)),
           !.resident = Keep(LessOf(r, ks), r.current)]
  BY <1>1 DEF LessOf
<1> QED
  BY <1>2 DEF Router, RouterOf

\* Releasing any keys, held or not, keeps the account.
LEMMA ReleasedKeeps ==
    ASSUME NEW r, RouterInv(r), NEW ks
    PROVE  /\ RouterInv(Released(r, ks))
           /\ Released(r, ks).current = r.current
           /\ Released(r, ks).generation = r.generation
           /\ Released(r, ks).tombstones = r.tombstones
           /\ Released(r, ks).replays = r.replays
           /\ DOMAIN Released(r, ks).sequences = DOMAIN r.sequences \ ks
           /\ \A k \in DOMAIN r.sequences \ ks :
                 Released(r, ks).sequences[k] = r.sequences[k]
<1> DEFINE held == HeldOf(r, ks)
           of(v) == PinnedOf(r, ks, v)
           less == LessOf(r, ks)
<1>0. r \in Router /\ Balanced(r) /\ Owned(r)
  BY DEF RouterInv
<1>1. PICK n : n = Released(r, ks)
  OBVIOUS
<1>2. /\ n.current = r.current
      /\ n.generation = r.generation
      /\ n.tombstones = r.tombstones
      /\ n.replays = r.replays
      /\ n.sequences = Restrict(r.sequences, DOMAIN r.sequences \ held)
      /\ n.inFlight = r.inFlight - Cardinality(held)
      /\ n.resident = Keep(less, r.current)
      /\ RouterOf(n)
  BY <1>0, <1>1, ReleasedParts
<1>3. /\ r.current \in Nat
      /\ r.resident \in Maps(Nat, Int)
      /\ r.inFlight \in Int
      /\ r.sequences \in Maps(Key, Nat)
      /\ r.generation \in [Actor -> Int]
      /\ r.tombstones \in Seq(Tombstone)
      /\ r.replays \in Seq(Response)
  BY <1>0 DEF Router
<1>4. /\ n.sequences \in Maps(Key, Nat)
      /\ DOMAIN n.sequences = DOMAIN r.sequences \ held
      /\ \A k \in DOMAIN r.sequences \ held : n.sequences[k] = r.sequences[k]
  BY <1>2, <1>3, RestrictMaps
<1>5. /\ IsFiniteSet(held)
      /\ Cardinality(held) \in Nat
      /\ IsFiniteSet(DOMAIN n.sequences)
      /\ Cardinality(DOMAIN n.sequences) = Cardinality(DOMAIN r.sequences) - Cardinality(held)
      /\ Cardinality(DOMAIN r.sequences) \in Nat
  <2>1. IsFiniteSet(DOMAIN r.sequences)
    BY <1>0 DEF Balanced
  <2>2. held \in SUBSET DOMAIN r.sequences /\ DOMAIN r.sequences \cap held = held
    BY DEF HeldOf
  <2>3. IsFiniteSet(held) /\ Cardinality(held) \in Nat
    BY <2>1, <2>2, FS_Subset, FS_CardinalityType
  <2> HIDE DEF held
  <2> QED
    BY <1>4, <2>1, <2>2, <2>3, FS_Difference, FS_CardinalityType
<1>6. ASSUME NEW v
      PROVE  /\ Pinned(n, v) = Pinned(r, v) \ of(v)
             /\ of(v) \subseteq Pinned(r, v)
             /\ IsFiniteSet(Pinned(n, v))
             /\ Cardinality(Pinned(n, v)) \in Nat
             /\ Cardinality(of(v)) \in Nat
             /\ Cardinality(Pinned(n, v)) = Cardinality(Pinned(r, v)) - Cardinality(of(v))
             /\ Cardinality(Pinned(n, v)) = 0 <=> Pinned(n, v) = {}
  <2>1. Pinned(n, v) = Pinned(r, v) \ of(v) /\ of(v) \subseteq Pinned(r, v)
    BY <1>4 DEF Pinned, PinnedOf, HeldOf
  <2>2. IsFiniteSet(Pinned(r, v))
    BY <1>0, PinnedFinite DEF Balanced
  <2>3. Pinned(r, v) \cap of(v) = of(v)
    BY <2>1
  <2>4. IsFiniteSet(of(v)) /\ Cardinality(of(v)) \in Nat
    BY <2>1, <2>2, FS_Subset, FS_CardinalityType
  <2>5. /\ IsFiniteSet(Pinned(n, v)) /\ Cardinality(Pinned(n, v)) \in Nat
        /\ Cardinality(Pinned(n, v)) = 0 <=> Pinned(n, v) = {}
    BY <1>5, PinnedFinite
  <2> HIDE DEF of
  <2> QED
    BY <2>1, <2>2, <2>3, <2>4, <2>5, FS_Difference
<1>7. /\ DOMAIN less = DOMAIN r.resident
      /\ \A v \in DOMAIN r.resident : less[v] = Cardinality(Pinned(n, v))
  BY <1>0, <1>6 DEF Balanced, LessOf
<1>8. /\ DOMAIN n.resident = {v \in DOMAIN r.resident : less[v] > 0 \/ v = r.current}
      /\ \A v \in DOMAIN n.resident : n.resident[v] = less[v]
      /\ n.resident = [v \in DOMAIN n.resident |-> n.resident[v]]
  <2> HIDE DEF less
  <2> QED
    BY <1>2, <1>7 DEF Keep, Restrict
<1> HIDE DEF less, of, held
<1>9. n.resident \in Maps(Nat, Int)
  <2>1. DOMAIN r.resident \subseteq Nat
    BY <1>3, MapFacts
  <2>2. \A v \in DOMAIN n.resident : n.resident[v] \in Int
    BY <1>6, <1>7, <1>8
  <2> QED
    BY <1>8, <2>1, <2>2, MapFacts
<1>10. Balanced(n)
  <2>1. \A v : v \in DOMAIN n.resident <=> v = n.current \/ Pinned(n, v) # {}
    <3>1. ASSUME NEW v PROVE v \in DOMAIN n.resident <=> v = n.current \/ Pinned(n, v) # {}
      <4>1. v \in DOMAIN r.resident <=> v = r.current \/ Pinned(r, v) # {}
        BY <1>0 DEF Balanced
      <4>2. v \in DOMAIN r.resident => (less[v] > 0 <=> Pinned(n, v) # {})
        BY <1>6, <1>7
      <4>3. Pinned(n, v) # {} => Pinned(r, v) # {}
        BY <1>6
      <4> QED
        BY <1>2, <1>8, <4>1, <4>2, <4>3
    <3> QED
      BY <3>1
  <2>2. \A v \in DOMAIN n.resident : n.resident[v] = Cardinality(Pinned(n, v))
    BY <1>7, <1>8
  <2>3. /\ IsFiniteSet(DOMAIN n.resident)
        /\ Cardinality(DOMAIN n.resident) <= MaxResident
    <3>1. DOMAIN n.resident \in SUBSET DOMAIN r.resident
      BY <1>8
    <3>2. IsFiniteSet(DOMAIN r.resident) /\ Cardinality(DOMAIN r.resident) <= MaxResident
      BY <1>0 DEF Balanced
    <3>3. /\ IsFiniteSet(DOMAIN n.resident)
          /\ Cardinality(DOMAIN n.resident) <= Cardinality(DOMAIN r.resident)
      BY <3>1, <3>2, FS_Subset
    <3>4. MaxResident \in Nat
      BY RecurrentAssumption
    <3> QED
      BY <3>2, <3>3, <3>4, FS_CardinalityType
  <2>4. /\ n.inFlight = Cardinality(DOMAIN n.sequences)
        /\ n.inFlight <= MaxInFlight
        /\ n.inFlight <= MaxSequences
    <3>1. MaxInFlight \in Nat /\ MaxSequences \in Nat
      BY RecurrentAssumption
    <3>2. /\ r.inFlight = Cardinality(DOMAIN r.sequences)
          /\ r.inFlight <= MaxInFlight
          /\ r.inFlight <= MaxSequences
      BY <1>0 DEF Balanced
    <3> QED
      BY <1>2, <1>5, <3>1, <3>2
  <2> QED
    BY <1>5, <2>1, <2>2, <2>3, <2>4 DEF Balanced
<1>11. n \in Router
  <2>1. n.inFlight \in Int
    BY <1>2, <1>3, <1>5
  <2> QED
    BY <1>2, <1>3, <1>4, <1>9, <2>1 DEF Router, RouterOf
<1>12. Owned(n)
  BY <1>0, <1>2, <1>4 DEF Owned
<1> QED
  BY <1>1, <1>2, <1>4, <1>10, <1>11, <1>12 DEF RouterInv, held, HeldOf

\* What the bounded memory of released keys holds after more were released.
LEMMA RememberFacts ==
    ASSUME NEW r \in Router, NEW ks \in SUBSET Key, IsFiniteSet(ks), NEW artifact,
           \A k \in ks : artifact[k] \in Nat
    PROVE  /\ Remember(r, ks, artifact) \in Seq(Tombstone)
           /\ \A t \in Range(Remember(r, ks, artifact)) :
                 \/ t \in Range(r.tombstones) /\ t.key \notin ks
                 \/ t.key \in ks /\ t = [key |-> t.key, artifact |-> artifact[t.key]]
<1> DEFINE new == {[key |-> k, artifact |-> artifact[k]] : k \in ks}
           old == Others(r, ks)
<1>1. IsFiniteSet(new)
  <2> DEFINE f == [k \in ks |-> [key |-> k, artifact |-> artifact[k]]]
  <2>1. f \in Surjection(ks, new)
    BY DEF Surjection
  <2> QED
    BY <2>1, FS_Surjection
<1>2. new \subseteq Tombstone
  BY DEF Tombstone
<1>3. r.tombstones \in Seq(Tombstone)
  BY DEF Router
<1>4. old \in Seq(Tombstone)
      /\ \A t \in Range(old) : t \in Range(r.tombstones) /\ t.key \notin ks
  <2>1. old = Only(r.tombstones, {t \in Range(r.tombstones) : t.key \notin ks})
    BY DEF Others
  <2> HIDE DEF old
  <2> QED
    BY <1>3, <2>1, OnlyFacts
<1>5. SetToSeq(new) \in Seq(new) /\ Range(SetToSeq(new)) = new
  <2> HIDE DEF new
  <2> QED
    BY <1>1, SetToSeqFacts
<1>6. SetToSeq(new) \in Seq(Tombstone)
  BY <1>2, <1>5, SeqMonotonic
<1> DEFINE all == old \o SetToSeq(new)
<1>7. all \in Seq(Tombstone) /\ Range(all) = Range(old) \cup new
  <2> HIDE DEF old, new
  <2> QED
    BY <1>4, <1>5, <1>6, ConcatProperties, RangeConcatenation
<1>8. Remember(r, ks, artifact) = Newest(all)
  BY DEF Remember
<1>9. Newest(all) \in Seq(Tombstone) /\ Range(Newest(all)) \subseteq Range(all)
  <2> HIDE DEF all
  <2> QED
    BY <1>7, NewestFacts
<1>10. \A t \in new : t.key \in ks /\ t = [key |-> t.key, artifact |-> artifact[t.key]]
  OBVIOUS
<1> HIDE DEF new, old, all
<1> QED
  BY <1>4, <1>7, <1>8, <1>9, <1>10

\* Another memory of released keys: what is remembered is not held, and no two
\* entries differ for one key.
LEMMA RemembersKeeps ==
    ASSUME NEW r, RouterInv(r), NEW held \in SUBSET Key, IsFiniteSet(held),
           NEW artifact, \A k \in held : artifact[k] \in Nat,
           \A k \in held : k \notin DOMAIN r.sequences
    PROVE  /\ Remember(r, held, artifact) \in Seq(Tombstone)
           /\ \A t \in Range(Remember(r, held, artifact)) : t.key \notin DOMAIN r.sequences
           /\ \A t, u \in Range(Remember(r, held, artifact)) : t.key = u.key => t = u
<1>1. r \in Router /\ Owned(r)
  BY DEF RouterInv
<1>2. /\ Remember(r, held, artifact) \in Seq(Tombstone)
      /\ \A t \in Range(Remember(r, held, artifact)) :
            \/ t \in Range(r.tombstones) /\ t.key \notin held
            \/ t.key \in held /\ t = [key |-> t.key, artifact |-> artifact[t.key]]
  BY <1>1, RememberFacts
<1> QED
  BY <1>1, <1>2 DEF Owned

\* The account is about these parts of a router only.
LEMMA SameAccount ==
    ASSUME NEW n, Balanced(n), NEW m, m.current = n.current,
           m.resident = n.resident, m.inFlight = n.inFlight,
           m.sequences = n.sequences
    PROVE  Balanced(m)
<1>1. \A v : Pinned(m, v) = Pinned(n, v)
  BY DEF Pinned
<1> QED
  BY <1>1 DEF Balanced

\* The newest generation of some of the actors.
Newer(r, latest) == {a \in DOMAIN latest : latest[a] > r.generation[a]}
StaleKeys(r, latest) ==
    {k \in DOMAIN r.sequences : k.actor \in Newer(r, latest)
                                /\ k.incarnation # latest[k.actor]}
Generation(r, latest) ==
    [a \in Actor |-> IF a \in Newer(r, latest) THEN latest[a] ELSE r.generation[a]]
Current(r, latest) ==
    {p \in Range(r.replays) :
        p.actor \in Newer(r, latest) => p.incarnation = latest[p.actor]}

LEMMA AdmittedParts ==
    ASSUME NEW r, NEW latest, NEW n,
           n = Released(r, StaleKeys(r, latest)), RouterOf(n),
           n.generation = r.generation, n.replays = r.replays
    PROVE  /\ RouterOf(Admitted(r, latest))
           /\ Admitted(r, latest).current = n.current
           /\ Admitted(r, latest).resident = n.resident
           /\ Admitted(r, latest).inFlight = n.inFlight
           /\ Admitted(r, latest).sequences = n.sequences
           /\ Admitted(r, latest).generation = Generation(r, latest)
           /\ Admitted(r, latest).tombstones
                 = Remember(r, StaleKeys(r, latest), r.sequences)
           /\ Admitted(r, latest).replays = Only(r.replays, Current(r, latest))
<1>1. Admitted(r, latest) = [Released(r, StaleKeys(r, latest)) EXCEPT
           !.tombstones = Remember(r, StaleKeys(r, latest), r.sequences),
           !.generation = [a \in Actor |->
               IF a \in Newer(r, latest) THEN latest[a] ELSE @[a]],
           !.replays = Only(@, {p \in Range(@) :
               p.actor \in Newer(r, latest) => p.incarnation = latest[p.actor]})]
  BY DEF Admitted, StaleKeys, Newer
<1>2. Admitted(r, latest) = [n EXCEPT
           !.tombstones = Remember(r, StaleKeys(r, latest), r.sequences),
           !.generation = Generation(r, latest),
           !.replays = Only(r.replays, Current(r, latest))]
  BY <1>1 DEF Generation, Current
<1> QED
  BY <1>2 DEF RouterOf

\* What is remembered depends on what was remembered only.
LEMMA SameMemory ==
    ASSUME NEW r, NEW n, n.tombstones = r.tombstones, NEW ks, NEW artifact
    PROVE  Remember(n, ks, artifact) = Remember(r, ks, artifact)
BY DEF Remember, Others

\* generations of some actors
Generations == Maps(Actor, Nat)

\* Admitting newer generations of some actors keeps the account; what stays is
\* held as it was, by the newest generation that spoke.
LEMMA AdmittedKeeps ==
    ASSUME NEW r, RouterInv(r), NEW latest \in Generations
    PROVE  /\ RouterInv(Admitted(r, latest))
           /\ Admitted(r, latest).current = r.current
           /\ Admitted(r, latest).generation = Generation(r, latest)
           /\ Admitted(r, latest).replays = Only(r.replays, Current(r, latest))
           /\ Admitted(r, latest).tombstones
                 = Remember(r, StaleKeys(r, latest), r.sequences)
           /\ DOMAIN Admitted(r, latest).sequences
                 = DOMAIN r.sequences \ StaleKeys(r, latest)
           /\ \A k \in DOMAIN Admitted(r, latest).sequences :
                 Admitted(r, latest).sequences[k] = r.sequences[k]
<1>0. r \in Router /\ Balanced(r) /\ Owned(r)
  BY DEF RouterInv
<1>1. PICK ks : ks = StaleKeys(r, latest)
  OBVIOUS
<1>2. PICK n : n = Released(r, ks)
  OBVIOUS
<1>3. /\ RouterInv(n)
      /\ n.current = r.current
      /\ n.generation = r.generation
      /\ n.tombstones = r.tombstones
      /\ n.replays = r.replays
      /\ DOMAIN n.sequences = DOMAIN r.sequences \ ks
      /\ \A k \in DOMAIN r.sequences \ ks : n.sequences[k] = r.sequences[k]
  BY <1>2, ReleasedKeeps
<1>4. n \in Router /\ Balanced(n) /\ Owned(n) /\ RouterOf(n)
  BY <1>3 DEF RouterInv, Router, RouterOf
<1>5. PICK m : m = Admitted(r, latest)
  OBVIOUS
<1>6. /\ RouterOf(m)
      /\ m.current = n.current
      /\ m.resident = n.resident
      /\ m.inFlight = n.inFlight
      /\ m.sequences = n.sequences
      /\ m.generation = Generation(r, latest)
      /\ m.tombstones = Remember(r, ks, r.sequences)
      /\ m.replays = Only(r.replays, Current(r, latest))
  BY <1>1, <1>2, <1>3, <1>4, <1>5, AdmittedParts
<1>7. ks \in SUBSET Key /\ IsFiniteSet(ks) /\ \A k \in ks : r.sequences[k] \in Nat
  <2>1. ks \in SUBSET DOMAIN r.sequences
    BY <1>1 DEF StaleKeys
  <2>2. r.sequences \in Maps(Key, Nat) /\ IsFiniteSet(DOMAIN r.sequences)
    BY <1>0 DEF Router, Balanced
  <2>3. DOMAIN r.sequences \subseteq Key /\ \A k \in DOMAIN r.sequences : r.sequences[k] \in Nat
    BY <2>2, MapFacts
  <2> QED
    BY <2>1, <2>2, <2>3, FS_Subset
<1>8. /\ m.tombstones \in Seq(Tombstone)
      /\ \A t \in Range(m.tombstones) : t.key \notin DOMAIN m.sequences
      /\ \A t, u \in Range(m.tombstones) : t.key = u.key => t = u
  <2>1. Remember(n, ks, r.sequences) = m.tombstones
    BY <1>3, <1>6, SameMemory
  <2>2. \A k \in ks : k \notin DOMAIN n.sequences
    BY <1>3
  <2>3. PICK art : art = r.sequences
    OBVIOUS
  <2>4. /\ Remember(n, ks, art) \in Seq(Tombstone)
        /\ \A t \in Range(Remember(n, ks, art)) : t.key \notin DOMAIN n.sequences
        /\ \A t, u \in Range(Remember(n, ks, art)) : t.key = u.key => t = u
    BY <1>3, <1>7, <2>2, <2>3, RemembersKeeps
  <2> QED
    BY <1>6, <2>1, <2>3, <2>4
<1>9. m.generation \in [Actor -> Int]
  <2>1. DOMAIN latest \subseteq Actor /\ \A a \in DOMAIN latest : latest[a] \in Nat
    BY MapFacts DEF Generations
  <2>2. r.generation \in [Actor -> Int]
    BY <1>0 DEF Router
  <2> QED
    BY <1>6, <2>1, <2>2 DEF Generation, Newer
<1>10. m.replays \in Seq(Response)
  <2>1. r.replays \in Seq(Response)
    BY <1>0 DEF Router
  <2> QED
    BY <1>6, <2>1, OnlyFacts
<1>11. m \in Router
  BY <1>4, <1>6, <1>8, <1>9, <1>10 DEF Router, RouterOf
<1>12. Balanced(m)
  BY <1>4, <1>6, SameAccount
<1>13. Owned(m)
  <2>1. \A k \in DOMAIN m.sequences : k.incarnation = m.generation[k.actor]
    <3>1. TAKE k \in DOMAIN m.sequences
    <3>2. k \in DOMAIN r.sequences /\ k \notin ks
      BY <1>3, <1>6
    <3>3. k.actor \in Actor /\ k.incarnation = r.generation[k.actor]
      <4>1. r.sequences \in Maps(Key, Nat)
        BY <1>0 DEF Router
      <4>2. k \in Key
        BY <3>2, <4>1, MapFacts
      <4> QED
        BY <1>0, <3>2, <4>2 DEF Owned, Key
    <3>4. k.actor \in Newer(r, latest) => k.incarnation = latest[k.actor]
      BY <1>1, <3>2 DEF StaleKeys
    <3> QED
      BY <1>6, <3>3, <3>4 DEF Generation
  <2> QED
    BY <1>8, <2>1 DEF Owned
<1> QED
  BY <1>1, <1>3, <1>5, <1>6, <1>11, <1>12, <1>13 DEF RouterInv

LEMMA KeysFacts ==
    ASSUME NEW q \in Request
    PROVE  /\ KeysOf(q) \in SUBSET Key
           /\ IsFiniteSet(KeysOf(q))
           /\ IsFiniteSet(q.seats)
           /\ Cardinality(KeysOf(q)) = Cardinality(q.seats)
           /\ \A k \in KeysOf(q) : k.actor = q.actor /\ k.incarnation = q.incarnation
<1>1. q.actor \in Actor /\ q.incarnation \in Nat /\ q.seats \in SUBSET Seat
  BY DEF Request
<1>2. IsFiniteSet(q.seats)
  BY <1>1, RecurrentAssumption, FS_Subset
<1> DEFINE key(s) == [actor |-> q.actor, incarnation |-> q.incarnation, seat |-> s]
           f == [s \in q.seats |-> key(s)]
<1>3. KeysOf(q) = {key(s) : s \in q.seats}
  BY DEF KeysOf
<1>4. f \in Bijection(q.seats, KeysOf(q))
  <2>1. \A s, t \in q.seats : key(s) = key(t) => s = t
    OBVIOUS
  <2>2. f \in [q.seats -> KeysOf(q)]
    BY <1>3
  <2>3. \A s \in q.seats : f[s] = key(s)
    OBVIOUS
  <2> HIDE DEF f, key
  <2>4. \A k \in KeysOf(q) : \E s \in q.seats : f[s] = k
    BY <1>3, <2>3
  <2>5. f \in Injection(q.seats, KeysOf(q))
    BY <2>1, <2>2, <2>3 DEF Injection, IsInjective
  <2>6. f \in Surjection(q.seats, KeysOf(q))
    BY <2>2, <2>4 DEF Surjection
  <2> QED
    BY <2>5, <2>6 DEF Bijection
<1>5. Cardinality(KeysOf(q)) = Cardinality(q.seats) /\ IsFiniteSet(KeysOf(q))
  <2> HIDE DEF f
  <2> QED
    BY <1>2, <1>4, FS_Bijection DEF ExistsBijection
<1>6. \A k \in KeysOf(q) : k.actor = q.actor /\ k.incarnation = q.incarnation
  BY <1>3
<1>7. KeysOf(q) \in SUBSET Key
  BY <1>1, <1>3 DEF Key
<1> QED
  BY <1>2, <1>5, <1>6, <1>7

\* What binding does to each part of the router.
LEMMA BoundParts ==
    ASSUME NEW r \in Router, NEW ks
    PROVE  /\ RouterOf(BoundTo(r, ks))
           /\ BoundTo(r, ks).current = r.current
           /\ BoundTo(r, ks).generation = r.generation
           /\ BoundTo(r, ks).replays = r.replays
           /\ BoundTo(r, ks).sequences = Put(r.sequences, ks, r.current)
           /\ BoundTo(r, ks).inFlight = r.inFlight + Cardinality(ks)
           /\ BoundTo(r, ks).resident = [r.resident EXCEPT
                                            ![r.current] = @ + Cardinality(ks)]
           /\ BoundTo(r, ks).tombstones = Others(r, ks)
<1>1. BoundTo(r, ks) = [r EXCEPT
           !.sequences = Put(r.sequences, ks, r.current),
           !.inFlight = r.inFlight + Cardinality(ks),
           !.resident = [r.resident EXCEPT ![r.current] = @ + Cardinality(ks)],
           !.tombstones = Others(r, ks)]
  BY DEF BoundTo, Router
<1> QED
  BY <1>1 DEF Router, RouterOf

\* Binding sequences that are not held, of the newest process of their actor and
\* with room for them, keeps the account.
LEMMA BoundKeeps ==
    ASSUME NEW r, RouterInv(r), NEW ks \in SUBSET Key, IsFiniteSet(ks),
           ks \cap DOMAIN r.sequences = {},
           Cardinality(DOMAIN r.sequences) + Cardinality(ks) <= MaxSequences,
           r.inFlight + Cardinality(ks) <= MaxInFlight,
           \A k \in ks : k.incarnation = r.generation[k.actor]
    PROVE  /\ RouterInv(BoundTo(r, ks))
           /\ BoundTo(r, ks).current = r.current
           /\ BoundTo(r, ks).generation = r.generation
           /\ BoundTo(r, ks).replays = r.replays
           /\ BoundTo(r, ks).tombstones = Others(r, ks)
           /\ DOMAIN BoundTo(r, ks).sequences = DOMAIN r.sequences \cup ks
           /\ \A k \in ks : BoundTo(r, ks).sequences[k] = r.current
           /\ \A k \in DOMAIN r.sequences :
                 BoundTo(r, ks).sequences[k] = r.sequences[k]
<1>0. r \in Router /\ Balanced(r) /\ Owned(r)
  BY DEF RouterInv
<1>1. PICK n : n = BoundTo(r, ks)
  OBVIOUS
<1>2. /\ RouterOf(n)
      /\ n.current = r.current
      /\ n.generation = r.generation
      /\ n.replays = r.replays
      /\ n.sequences = Put(r.sequences, ks, r.current)
      /\ n.inFlight = r.inFlight + Cardinality(ks)
      /\ n.resident = [r.resident EXCEPT ![r.current] = @ + Cardinality(ks)]
      /\ n.tombstones = Others(r, ks)
  BY <1>0, <1>1, BoundParts
<1>3. /\ r.current \in Nat
      /\ r.resident \in Maps(Nat, Int)
      /\ r.inFlight \in Int
      /\ r.sequences \in Maps(Key, Nat)
      /\ r.generation \in [Actor -> Int]
      /\ r.tombstones \in Seq(Tombstone)
      /\ r.replays \in Seq(Response)
  BY <1>0 DEF Router
<1>4. /\ n.sequences \in Maps(Key, Nat)
      /\ DOMAIN n.sequences = ks \cup DOMAIN r.sequences
      /\ \A k \in ks : n.sequences[k] = r.current
      /\ \A k \in DOMAIN r.sequences \ ks : n.sequences[k] = r.sequences[k]
  <2>1. PICK s, c : s = r.sequences /\ c = r.current
    OBVIOUS
  <2>2. s \in Maps(Key, Nat) /\ c \in Nat /\ n.sequences = Put(s, ks, c)
    BY <1>2, <1>3, <2>1
  <2>3. /\ Put(s, ks, c) \in Maps(Key, Nat)
        /\ DOMAIN Put(s, ks, c) = ks \cup DOMAIN s
        /\ \A k \in ks : Put(s, ks, c)[k] = c
        /\ \A k \in DOMAIN s \ ks : Put(s, ks, c)[k] = s[k]
    <3>1. PICK R : R = Nat
      OBVIOUS
    <3>2. s \in Maps(Key, R) /\ c \in R
      BY <2>2, <3>1
    <3>3. Put(s, ks, c) \in Maps(Key, R)
      BY <3>2, PutMaps
    <3>4. /\ DOMAIN Put(s, ks, c) = ks \cup DOMAIN s
          /\ \A k \in ks : Put(s, ks, c)[k] = c
          /\ \A k \in DOMAIN s \ ks : Put(s, ks, c)[k] = s[k]
      BY DEF Put
    <3> QED
      BY <3>1, <3>3, <3>4
  <2> QED
    BY <2>1, <2>2, <2>3
<1>5. \A k \in DOMAIN r.sequences : k \in DOMAIN r.sequences \ ks
  OBVIOUS
<1>6. /\ IsFiniteSet(DOMAIN n.sequences)
      /\ Cardinality(DOMAIN n.sequences) = Cardinality(DOMAIN r.sequences) + Cardinality(ks)
      /\ Cardinality(ks) \in Nat
      /\ Cardinality(DOMAIN r.sequences) \in Nat
  <2>1. IsFiniteSet(DOMAIN r.sequences)
    BY <1>0 DEF Balanced
  <2>2. PICK d : d = DOMAIN r.sequences
    OBVIOUS
  <2>3. IsFiniteSet(d) /\ d \cap ks = {} /\ DOMAIN n.sequences = d \cup ks
    BY <1>4, <2>1, <2>2
  <2>4. Cardinality(d \cap ks) = 0 /\ Cardinality(d) \in Nat /\ Cardinality(ks) \in Nat
    BY <2>3, FS_EmptySet, FS_CardinalityType
  <2>5. /\ IsFiniteSet(d \cup ks)
        /\ Cardinality(d \cup ks) = Cardinality(d) + Cardinality(ks) - Cardinality(d \cap ks)
    BY <2>3, FS_Union
  <2> QED
    BY <2>2, <2>3, <2>4, <2>5
<1>7. ASSUME NEW v, v # r.current PROVE Pinned(n, v) = Pinned(r, v)
  BY <1>4, <1>5, <1>7 DEF Pinned
<1>8. /\ Pinned(n, r.current) = Pinned(r, r.current) \cup ks
      /\ Cardinality(Pinned(n, r.current)) = Cardinality(Pinned(r, r.current)) + Cardinality(ks)
  <2>1. Pinned(n, r.current) = Pinned(r, r.current) \cup ks
    BY <1>4, <1>5 DEF Pinned
  <2>2. Pinned(r, r.current) \cap ks = {}
    BY DEF Pinned
  <2>3. IsFiniteSet(Pinned(r, r.current)) /\ Cardinality(Pinned(r, r.current)) \in Nat
    BY <1>0, PinnedFinite DEF Balanced
  <2>4. Cardinality(Pinned(r, r.current) \cap ks) = 0
    BY <2>2, FS_EmptySet
  <2>5. PICK p : p = Pinned(r, r.current)
    OBVIOUS
  <2>6. Cardinality(p \cup ks) = Cardinality(p) + Cardinality(ks) - Cardinality(p \cap ks)
    BY <2>3, <2>5, FS_Union
  <2> QED
    BY <1>6, <2>1, <2>3, <2>4, <2>5, <2>6
<1>9. r.current \in DOMAIN r.resident
  BY <1>0 DEF Balanced
<1>10. /\ DOMAIN n.resident = DOMAIN r.resident
       /\ n.resident[r.current] = r.resident[r.current] + Cardinality(ks)
       /\ \A v \in DOMAIN r.resident : v # r.current => n.resident[v] = r.resident[v]
       /\ n.resident = [v \in DOMAIN n.resident |-> n.resident[v]]
  <2>1. PICK s, c : s = r.resident /\ c = r.current
    OBVIOUS
  <2>2. s = [v \in DOMAIN s |-> s[v]] /\ c \in DOMAIN s
    BY <1>3, <1>9, <2>1, MapFacts
  <2>3. n.resident = [s EXCEPT ![c] = s[c] + Cardinality(ks)]
    BY <1>2, <2>1
  <2> QED
    BY <2>1, <2>2, <2>3
<1>11. n.resident \in Maps(Nat, Int)
  <2>1. DOMAIN r.resident \subseteq Nat /\ \A v \in DOMAIN r.resident : r.resident[v] \in Int
    BY <1>3, MapFacts
  <2>2. \A v \in DOMAIN n.resident : n.resident[v] \in Int
    BY <1>6, <1>9, <1>10, <2>1
  <2> QED
    BY <1>10, <2>1, <2>2, MapFacts
<1>12. Balanced(n)
  <2>1. \A v : v \in DOMAIN n.resident <=> v = n.current \/ Pinned(n, v) # {}
    <3>1. ASSUME NEW v PROVE v \in DOMAIN n.resident <=> v = n.current \/ Pinned(n, v) # {}
      BY <1>0, <1>2, <1>7, <1>9, <1>10 DEF Balanced
    <3> QED
      BY <3>1
  <2>2. \A v \in DOMAIN n.resident : n.resident[v] = Cardinality(Pinned(n, v))
    <3>1. TAKE v \in DOMAIN n.resident
    <3>2. r.resident[v] = Cardinality(Pinned(r, v))
      BY <1>0, <1>10 DEF Balanced
    <3> QED
      BY <1>7, <1>8, <1>10, <3>2
  <2>3. /\ IsFiniteSet(DOMAIN n.resident)
        /\ Cardinality(DOMAIN n.resident) <= MaxResident
    BY <1>0, <1>10 DEF Balanced
  <2>4. r.inFlight = Cardinality(DOMAIN r.sequences)
    BY <1>0 DEF Balanced
  <2> QED
    BY <1>2, <1>6, <2>1, <2>2, <2>3, <2>4 DEF Balanced
<1>13. /\ Others(r, ks) \in Seq(Tombstone)
       /\ \A t \in Range(Others(r, ks)) : t \in Range(r.tombstones) /\ t.key \notin ks
  BY <1>3, OnlyFacts DEF Others
<1>14. Owned(n)
  <2>1. \A k \in DOMAIN n.sequences : k.incarnation = n.generation[k.actor]
    BY <1>0, <1>2, <1>4 DEF Owned
  <2>2. \A t \in Range(n.tombstones) : t.key \notin DOMAIN n.sequences
    BY <1>0, <1>2, <1>4, <1>13 DEF Owned
  <2>3. \A t, u \in Range(n.tombstones) : t.key = u.key => t = u
    BY <1>0, <1>2, <1>13 DEF Owned
  <2> QED
    BY <2>1, <2>2, <2>3 DEF Owned
<1>15. n \in Router
  <2>1. n.inFlight \in Int
    BY <1>2, <1>3, <1>6
  <2> QED
    BY <1>2, <1>3, <1>4, <1>11, <1>13, <2>1 DEF Router, RouterOf
<1> QED
  BY <1>1, <1>2, <1>4, <1>5, <1>12, <1>14, <1>15 DEF RouterInv

\* Publishing a newer version, with room for another snapshot, keeps the account.
LEMMA PublishedKeeps ==
    ASSUME NEW r, RouterInv(r), NEW v \in Nat, CanPublish(r, v)
    PROVE  /\ RouterInv(PublishedTo(r, v))
           /\ PublishedTo(r, v).current = v
           /\ PublishedTo(r, v).sequences = r.sequences
           /\ PublishedTo(r, v).generation = r.generation
           /\ PublishedTo(r, v).tombstones = r.tombstones
           /\ PublishedTo(r, v).replays = r.replays
<1> DEFINE all == [w \in DOMAIN r.resident \cup {v} |->
                      IF w \in DOMAIN r.resident THEN r.resident[w] ELSE 0]
<1>0. r \in Router /\ Balanced(r) /\ Owned(r)
  BY DEF RouterInv
<1>1. PICK n : n = PublishedTo(r, v)
  OBVIOUS
<1>2. n = [r EXCEPT !.current = v, !.resident = Keep(all, v)]
  BY <1>1 DEF PublishedTo
<1>3. /\ RouterOf(n)
      /\ n.current = v
      /\ n.resident = Keep(all, v)
      /\ n.inFlight = r.inFlight
      /\ n.sequences = r.sequences
      /\ n.generation = r.generation
      /\ n.tombstones = r.tombstones
      /\ n.replays = r.replays
  <2> HIDE DEF all
  <2> QED
    BY <1>0, <1>2 DEF Router, RouterOf
<1>4. \A w : Pinned(n, w) = Pinned(r, w)
  BY <1>3 DEF Pinned
<1>5. ASSUME NEW w
      PROVE  /\ Cardinality(Pinned(r, w)) \in Nat
             /\ Cardinality(Pinned(r, w)) = 0 <=> Pinned(r, w) = {}
  BY <1>0, PinnedFinite DEF Balanced
<1>6. /\ DOMAIN all = DOMAIN r.resident \cup {v}
      /\ \A w \in DOMAIN all : all[w] = Cardinality(Pinned(r, w))
  <2>1. DOMAIN all = DOMAIN r.resident \cup {v}
    OBVIOUS
  <2>2. \A w \in DOMAIN r.resident : all[w] = Cardinality(Pinned(r, w))
    BY <1>0 DEF Balanced
  <2>3. v \notin DOMAIN r.resident => all[v] = Cardinality(Pinned(r, v))
    BY <1>0, <1>5 DEF Balanced
  <2> HIDE DEF all
  <2> QED
    BY <2>1, <2>2, <2>3
<1> HIDE DEF all
<1>7. /\ DOMAIN n.resident = {w \in DOMAIN all : all[w] > 0 \/ w = v}
      /\ \A w \in DOMAIN n.resident : n.resident[w] = all[w]
      /\ n.resident = [w \in DOMAIN n.resident |-> n.resident[w]]
  BY <1>3 DEF Keep, Restrict
<1>8. \A w : w \in DOMAIN n.resident <=> w = v \/ Pinned(r, w) # {}
  <2>1. ASSUME NEW w PROVE w \in DOMAIN n.resident <=> w = v \/ Pinned(r, w) # {}
    <3>1. Pinned(r, w) # {} => w \in DOMAIN r.resident
      BY <1>0 DEF Balanced
    <3>2. w \in DOMAIN all => (all[w] > 0 <=> Pinned(r, w) # {})
      BY <1>5, <1>6
    <3> QED
      BY <1>6, <1>7, <3>1, <3>2
  <2> QED
    BY <2>1
<1>9. n.resident \in Maps(Nat, Int)
  <2>1. DOMAIN r.resident \subseteq Nat
    BY <1>0, MapFacts DEF Router
  <2>2. DOMAIN n.resident \subseteq Nat
    BY <1>6, <1>7, <2>1
  <2>3. \A w \in DOMAIN n.resident : n.resident[w] \in Int
    BY <1>5, <1>6, <1>7
  <2> QED
    BY <1>7, <2>2, <2>3, MapFacts
<1>10. IsFiniteSet(DOMAIN n.resident) /\ Cardinality(DOMAIN n.resident) <= MaxResident
  <2>1. Leased(r) \in SUBSET DOMAIN r.resident
    BY DEF Leased
  <2>2. IsFiniteSet(Leased(r)) /\ Cardinality(Leased(r)) \in Nat
    BY <1>0, <2>1, FS_Subset, FS_CardinalityType DEF Balanced
  <2>3. DOMAIN n.resident = Leased(r) \cup {v}
    <3>1. ASSUME NEW w PROVE w \in DOMAIN n.resident <=> w \in Leased(r) \cup {v}
      <4>1. w \in Leased(r) <=> Pinned(r, w) # {}
        <5>1. Pinned(r, w) # {} => w \in DOMAIN r.resident
          BY <1>0 DEF Balanced
        <5>2. w \in DOMAIN r.resident => r.resident[w] = Cardinality(Pinned(r, w))
          BY <1>0 DEF Balanced
        <5> QED
          BY <1>5, <5>1, <5>2 DEF Leased
      <4> QED
        BY <1>8, <4>1
    <3> QED
      BY <3>1
  <2>4. /\ IsFiniteSet(Leased(r) \cup {v})
        /\ Cardinality(Leased(r) \cup {v}) <= Cardinality(Leased(r)) + 1
    BY <2>2, FS_AddElement
  <2>5. Cardinality(Leased(r)) < MaxResident /\ MaxResident \in Nat
    BY RecurrentAssumption DEF CanPublish
  <2> QED
    BY <2>2, <2>3, <2>4, <2>5, FS_CardinalityType
<1>11. Balanced(n)
  <2>1. \A w : w \in DOMAIN n.resident <=> w = n.current \/ Pinned(n, w) # {}
    BY <1>3, <1>4, <1>8
  <2>2. \A w \in DOMAIN n.resident : n.resident[w] = Cardinality(Pinned(n, w))
    BY <1>4, <1>6, <1>7
  <2> QED
    BY <1>0, <1>3, <1>10, <2>1, <2>2 DEF Balanced
<1>12. n \in Router
  <2>1. /\ r.inFlight \in Int
        /\ r.sequences \in Maps(Key, Nat)
        /\ r.generation \in [Actor -> Int]
        /\ r.tombstones \in Seq(Tombstone)
        /\ r.replays \in Seq(Response)
    BY <1>0 DEF Router
  <2> QED
    BY <1>3, <1>9, <2>1 DEF Router, RouterOf
<1>13. Owned(n)
  BY <1>0, <1>3 DEF Owned
<1> QED
  BY <1>1, <1>3, <1>11, <1>12, <1>13 DEF RouterInv

\* Other answers in the replay cache.
LEMMA RepliesKeep ==
    ASSUME NEW r, RouterInv(r), NEW s \in Seq(Response)
    PROVE  RouterInv([r EXCEPT !.replays = s])
<1>0. r \in Router /\ Balanced(r) /\ Owned(r)
  BY DEF RouterInv
<1>1. PICK n : n = [r EXCEPT !.replays = s]
  OBVIOUS
<1>2. /\ n \in Router
      /\ n.current = r.current
      /\ n.resident = r.resident
      /\ n.inFlight = r.inFlight
      /\ n.sequences = r.sequences
      /\ n.generation = r.generation
      /\ n.tombstones = r.tombstones
  BY <1>0, <1>1 DEF Router
<1>3. Balanced(n)
  BY <1>0, <1>2, SameAccount
<1>4. Owned(n)
  BY <1>0, <1>2 DEF Owned
<1> QED
  BY <1>1, <1>2, <1>3, <1>4 DEF RouterInv

LEMMA StoredFacts ==
    ASSUME NEW s \in Seq(Response), NEW p \in Response
    PROVE  /\ Stored(s, p) \in Seq(Response)
           /\ Range(Stored(s, p)) \subseteq {p} \cup
                 {o \in Range(s) : RequestKey(o) # RequestKey(p)}
<1> DEFINE S == {o \in Range(s) : RequestKey(o) # RequestKey(p)}
<1>1. PICK t : t = Only(s, S)
  OBVIOUS
<1>2. t \in Seq(Response) /\ Range(t) = Range(s) \cap S
  BY <1>1, OnlyFacts
<1>3. Append(t, p) \in Seq(Response) /\ Range(Append(t, p)) = Range(t) \cup {p}
  BY <1>2, AppendProperties DEF Range
<1>4. PICK u : u = Append(t, p)
  OBVIOUS
<1>5. Newest(u) \in Seq(Response) /\ Range(Newest(u)) \subseteq Range(u)
  BY <1>3, <1>4, NewestFacts
<1>6. Stored(s, p) = Newest(u)
  BY <1>1, <1>4 DEF Stored
<1> QED
  BY <1>2, <1>3, <1>4, <1>5, <1>6

\* What a release or an abort leaves: the keys are not held, but remembered.
ReleasedAs(r, ks, artifact) ==
    [Released(r, ks) EXCEPT !.tombstones = Remember(r, ks, artifact)]

LEMMA ReleasedAsKeeps ==
    ASSUME NEW r, RouterInv(r), NEW ks \in SUBSET Key, IsFiniteSet(ks),
           NEW artifact, \A k \in ks : artifact[k] \in Nat
    PROVE  /\ RouterInv(ReleasedAs(r, ks, artifact))
           /\ ReleasedAs(r, ks, artifact).current = r.current
           /\ ReleasedAs(r, ks, artifact).generation = r.generation
           /\ ReleasedAs(r, ks, artifact).replays = r.replays
           /\ ReleasedAs(r, ks, artifact).tombstones = Remember(r, ks, artifact)
           /\ DOMAIN ReleasedAs(r, ks, artifact).sequences = DOMAIN r.sequences \ ks
           /\ \A k \in DOMAIN r.sequences \ ks :
                 ReleasedAs(r, ks, artifact).sequences[k] = r.sequences[k]
<1>1. PICK n : n = Released(r, ks)
  OBVIOUS
<1>2. /\ RouterInv(n)
      /\ n.current = r.current
      /\ n.generation = r.generation
      /\ n.tombstones = r.tombstones
      /\ n.replays = r.replays
      /\ DOMAIN n.sequences = DOMAIN r.sequences \ ks
      /\ \A k \in DOMAIN r.sequences \ ks : n.sequences[k] = r.sequences[k]
  BY <1>1, ReleasedKeeps
<1>3. PICK t : t = Remember(r, ks, artifact)
  OBVIOUS
<1>4. PICK m : m = [n EXCEPT !.tombstones = t]
  OBVIOUS
<1>5. m = ReleasedAs(r, ks, artifact)
  BY <1>1, <1>3, <1>4 DEF ReleasedAs
<1>6. /\ t \in Seq(Tombstone)
      /\ \A x \in Range(t) : x.key \notin DOMAIN n.sequences
      /\ \A x, y \in Range(t) : x.key = y.key => x = y
  <2>1. t = Remember(n, ks, artifact)
    BY <1>2, <1>3, SameMemory
  <2>2. \A k \in ks : k \notin DOMAIN n.sequences
    BY <1>2
  <2> QED
    BY <1>2, <2>1, <2>2, RemembersKeeps
<1>7. n \in Router /\ Balanced(n) /\ Owned(n)
  BY <1>2 DEF RouterInv
<1>8. /\ m \in Router
      /\ m.current = n.current
      /\ m.resident = n.resident
      /\ m.inFlight = n.inFlight
      /\ m.sequences = n.sequences
      /\ m.generation = n.generation
      /\ m.replays = n.replays
      /\ m.tombstones = t
  BY <1>4, <1>6, <1>7 DEF Router
<1>9. Balanced(m)
  BY <1>7, <1>8, SameAccount
<1>10. Owned(m)
  BY <1>6, <1>7, <1>8 DEF Owned
<1> QED
  BY <1>2, <1>3, <1>5, <1>8, <1>9, <1>10 DEF RouterInv

(***************************************************************************)
(* Types of the state                                                      *)
(***************************************************************************)

Entry == [request : Request, attempts : Nat]

TypeInv ==
    /\ frozen \in BOOLEAN /\ loaded \in BOOLEAN
    /\ queue \in Seq(Request)
    /\ lookahead \in Seq(Request)
    /\ batch \in Seq(Request)
    /\ incarnation \in [Actor -> Nat]
    /\ nextRequest \in [Actor -> Nat]
    /\ pending \in [Actor -> Maps(Nat, Entry)]
    /\ inbox \in [Actor -> Seq(Response)]
    /\ binding \in [Actor -> Maps(Seat, Nat)]
    /\ closing \in [Actor -> SUBSET Seat]
    /\ ended \in [Actor -> SUBSET Seat]

\* Nothing is of a process that was not started yet, and what an actor waits
\* for is its own.
PastInv ==
    /\ \A q \in Range(queue) : q.incarnation <= incarnation[q.actor]
    /\ \A q \in Range(lookahead) : q.incarnation <= incarnation[q.actor]
    /\ \A q \in Range(batch) : q.incarnation <= incarnation[q.actor]
    /\ \A a \in Actor : router.generation[a] <= incarnation[a]
    /\ \A a \in Actor : \A id \in DOMAIN pending[a] :
          /\ pending[a][id].request.actor = a
          /\ pending[a][id].request.incarnation = incarnation[a]
          /\ pending[a][id].request.id = id
          /\ id < nextRequest[a]

StateInv == TypeInv /\ RouterInv(router) /\ PastInv

(***************************************************************************)
(* Sequences and their parts                                               *)
(***************************************************************************)

LEMMA TailFacts ==
    ASSUME NEW T, NEW s \in Seq(T), s # <<>>
    PROVE  /\ Tail(s) \in Seq(T)
           /\ Head(s) \in T
           /\ Head(s) \in Range(s)
           /\ Range(Tail(s)) \subseteq Range(s)
<1>1. /\ Len(s) \in Nat /\ Len(s) # 0
      /\ Tail(s) \in Seq(T)
      /\ Len(Tail(s)) = Len(s) - 1
      /\ \A i \in 1 .. Len(Tail(s)) : Tail(s)[i] = s[i + 1]
      /\ Head(s) = s[1]
  BY EmptySeq, HeadTailProperties
<1>2. DOMAIN s = 1 .. Len(s) /\ DOMAIN Tail(s) = 1 .. Len(Tail(s))
  BY <1>1
<1>3. s[1] \in T /\ s[1] \in Range(s)
  BY <1>1, <1>2 DEF Range
<1>4. \A i \in DOMAIN Tail(s) : i + 1 \in DOMAIN s
  BY <1>1, <1>2
<1>5. Range(Tail(s)) \subseteq Range(s)
  BY <1>1, <1>2, <1>4 DEF Range
<1> QED
  BY <1>1, <1>3, <1>5

LEMMA AppendFacts ==
    ASSUME NEW T, NEW s \in Seq(T), NEW x \in T
    PROVE  /\ Append(s, x) \in Seq(T)
           /\ Range(Append(s, x)) = Range(s) \cup {x}
BY AppendProperties DEF Range

LEMMA PartFacts ==
    ASSUME NEW T, NEW s \in Seq(T), NEW m \in Nat \ {0}, NEW n \in 0 .. Len(s)
    PROVE  /\ SubSeq(s, m, n) \in Seq(T)
           /\ Range(SubSeq(s, m, n)) \subseteq Range(s)
           /\ \A x \in Range(SubSeq(s, m, n)) :
                 \E i \in DOMAIN s : i <= n /\ m <= i /\ s[i] = x
           /\ Len(SubSeq(s, m, n)) = IF m <= n THEN n - m + 1 ELSE 0
           /\ \A i \in DOMAIN SubSeq(s, m, n) : SubSeq(s, m, n)[i] = s[i + m - 1]
<1>1. /\ Len(s) \in Nat /\ DOMAIN s = 1 .. Len(s)
      /\ n \in Nat /\ n <= Len(s)
      /\ \A i \in 1 .. Len(s) : s[i] \in T
  BY LenProperties, ElementOfSeq
<1>2. /\ SubSeq(s, m, n) \in Seq(T)
      /\ Len(SubSeq(s, m, n)) = IF m <= n THEN n - m + 1 ELSE 0
      /\ \A i \in 1 .. n - m + 1 : SubSeq(s, m, n)[i] = s[m + i - 1]
  BY <1>1, SubSeqProperties
<1>3. \A i \in DOMAIN SubSeq(s, m, n) :
         /\ SubSeq(s, m, n)[i] = s[i + m - 1]
         /\ i + m - 1 \in DOMAIN s
         /\ m <= i + m - 1 /\ i + m - 1 <= n
  BY <1>1, <1>2
<1>4. \A x \in Range(SubSeq(s, m, n)) :
         \E i \in DOMAIN s : i <= n /\ m <= i /\ s[i] = x
  BY <1>3 DEF Range
<1> QED
  BY <1>2, <1>3, <1>4 DEF Range

LEMMA JoinFacts ==
    ASSUME NEW T, NEW s \in Seq(T), NEW t \in Seq(T)
    PROVE  /\ s \o t \in Seq(T)
           /\ Range(s \o t) = Range(s) \cup Range(t)
BY ConcatProperties, RangeConcatenation

LEMMA MaxOfTwo ==
    ASSUME NEW x \in Int
    PROVE  Max({1, x}) = IF x > 1 THEN x ELSE 1
<1>1. \E y \in {1, x} : \A z \in {1, x} : y >= z
  OBVIOUS
<1>2. Max({1, x}) \in {1, x} /\ \A z \in {1, x} : Max({1, x}) >= z
  BY <1>1 DEF Max
<1> QED
  BY <1>2

\* The numbers of a sequence have a bound.
LEMMA BoundedEntries ==
    ASSUME NEW n \in Nat, NEW f, \A i \in 1 .. n : f[i] \in Nat
    PROVE  \E m \in Nat : \A i \in 1 .. n : f[i] <= m
<1> DEFINE Good == {k \in Nat : \E m \in Nat : \A i \in 1 .. n : i <= k => f[i] <= m}
<1>1. 0 \in Good
  <2>1. \A i \in 1 .. n : i <= 0 => f[i] <= 0
    OBVIOUS
  <2> QED
    BY <2>1
<1>2. ASSUME NEW k \in 0 .. n, k # n, k \in Good PROVE k + 1 \in Good
  <2>1. PICK m \in Nat : \A i \in 1 .. n : i <= k => f[i] <= m
    BY <1>2
  <2>2. f[k + 1] \in Nat /\ m + f[k + 1] \in Nat
    BY <1>2
  <2>3. \A i \in 1 .. n : i <= k + 1 => f[i] <= m + f[k + 1]
    <3>1. TAKE i \in 1 .. n
    <3>2. f[i] \in Nat
      OBVIOUS
    <3>3. CASE i = k + 1
      BY <2>1, <2>2, <3>2, <3>3
    <3>4. CASE i # k + 1
      <4>1. i <= k + 1 => i <= k
        BY <3>4
      <4> QED
        BY <2>1, <2>2, <3>2, <4>1
    <3> QED
      BY <3>3, <3>4
  <2> QED
    BY <1>2, <2>2, <2>3
<1>3. n \in Good
  <2> HIDE DEF Good
  <2> QED
    BY <1>1, <1>2, UpTo
<1> QED
  BY <1>3

\* the newest stamp of the requests that were put back
Stamp == Max({0} \cup {lookahead[i].at : i \in DOMAIN lookahead})

LEMMA StampFacts ==
    ASSUME TypeInv
    PROVE  /\ Stamp \in Nat
           /\ \A i \in DOMAIN lookahead : lookahead[i].at <= Stamp
<1>1. /\ Len(lookahead) \in Nat /\ DOMAIN lookahead = 1 .. Len(lookahead)
      /\ \A i \in 1 .. Len(lookahead) : lookahead[i].at \in Nat
  <2>1. lookahead \in Seq(Request)
    BY DEF TypeInv
  <2>2. \A i \in 1 .. Len(lookahead) : lookahead[i] \in Request
    BY <2>1, ElementOfSeq
  <2> QED
    BY <2>1, <2>2, LenProperties DEF Request
<1> DEFINE f == [i \in 1 .. Len(lookahead) |-> lookahead[i].at]
           d == {0} \cup {lookahead[i].at : i \in DOMAIN lookahead}
<1>2. PICK m \in Nat : \A i \in 1 .. Len(lookahead) : f[i] <= m
  <2>1. \A i \in 1 .. Len(lookahead) : f[i] \in Nat
    BY <1>1
  <2> HIDE DEF f
  <2> QED
    BY <1>1, <2>1, BoundedEntries
<1>3. d \in SUBSET (0 .. m) /\ d # {}
  BY <1>1, <1>2
<1>4. Max(d) \in d /\ \A k \in d : k <= Max(d)
  <2> HIDE DEF d
  <2> QED
    BY <1>3, MaxFacts
<1>5. Stamp = Max(d)
  BY DEF Stamp
<1> QED
  BY <1>1, <1>4, <1>5

\* a request as it was stamped
SameBut(p, q) ==
    /\ p.actor = q.actor /\ p.incarnation = q.incarnation /\ p.id = q.id
    /\ p.kind = q.kind /\ p.seats = q.seats /\ p.expected = q.expected

LEMMA ArrivingFacts ==
    ASSUME TypeInv
    PROVE  /\ Arriving \in Seq(Request)
           /\ Len(Arriving) = Len(lookahead) + Len(queue)
           /\ \A i \in 1 .. Len(lookahead) : Arriving[i] = lookahead[i]
           /\ \A i \in 1 .. Len(queue) :
                 /\ SameBut(Arriving[Len(lookahead) + i], queue[i])
                 /\ Arriving[Len(lookahead) + i].at = Stamp + i
<1> DEFINE new == [i \in DOMAIN queue |-> [queue[i] EXCEPT !.at = Stamp + i]]
<1>1. /\ lookahead \in Seq(Request) /\ queue \in Seq(Request)
      /\ Len(lookahead) \in Nat /\ Len(queue) \in Nat
      /\ DOMAIN queue = 1 .. Len(queue)
      /\ \A i \in 1 .. Len(queue) : queue[i] \in Request
  BY ElementOfSeq, LenProperties DEF TypeInv
<1>2. Arriving = lookahead \o new
  BY DEF Arriving, Stamp
<1>3. \A i \in 1 .. Len(queue) :
         /\ new[i] \in Request
         /\ SameBut(new[i], queue[i])
         /\ new[i].at = Stamp + i
  <2>1. TAKE i \in 1 .. Len(queue)
  <2>2. i \in Nat /\ queue[i] \in Request /\ Stamp + i \in Nat
    BY <1>1, StampFacts
  <2>3. new[i] = [queue[i] EXCEPT !.at = Stamp + i]
    BY <1>1
  <2> HIDE DEF new
  <2> QED
    BY <2>2, <2>3 DEF Request, SameBut
<1>4. new \in Seq(Request) /\ Len(new) = Len(queue)
  <2>1. new \in [1 .. Len(queue) -> Request]
    BY <1>1, <1>3
  <2> HIDE DEF new
  <2> QED
    BY <1>1, <2>1, SeqDef, LenProperties
<1> HIDE DEF new
<1>5. /\ Arriving \in Seq(Request)
      /\ Len(Arriving) = Len(lookahead) + Len(new)
      /\ \A i \in 1 .. Len(lookahead) + Len(new) :
            Arriving[i] = IF i <= Len(lookahead) THEN lookahead[i]
                          ELSE new[i - Len(lookahead)]
  BY <1>1, <1>2, <1>4, ConcatProperties
<1>6. \A i \in 1 .. Len(lookahead) : Arriving[i] = lookahead[i]
  BY <1>1, <1>4, <1>5
<1>7. \A i \in 1 .. Len(queue) : Arriving[Len(lookahead) + i] = new[i]
  <2>1. TAKE i \in 1 .. Len(queue)
  <2>2. /\ Len(lookahead) + i \in 1 .. Len(lookahead) + Len(new)
        /\ ~(Len(lookahead) + i <= Len(lookahead))
        /\ (Len(lookahead) + i) - Len(lookahead) = i
    BY <1>1, <1>4
  <2> QED
    BY <1>5, <2>2
<1> QED
  BY <1>3, <1>4, <1>5, <1>6, <1>7

\* a request of a process that was started
Started(q) == q.incarnation <= incarnation[q.actor]

LEMMA ArrivingStarted ==
    ASSUME TypeInv, PastInv
    PROVE  \A i \in DOMAIN Arriving : Started(Arriving[i])
<1>1. /\ lookahead \in Seq(Request) /\ queue \in Seq(Request)
      /\ Len(lookahead) \in Nat /\ Len(queue) \in Nat
      /\ DOMAIN queue = 1 .. Len(queue)
      /\ DOMAIN lookahead = 1 .. Len(lookahead)
  BY LenProperties DEF TypeInv
<1>2. DOMAIN Arriving = 1 .. Len(lookahead) + Len(queue)
  BY ArrivingFacts, LenProperties
<1>3. TAKE i \in DOMAIN Arriving
<1>4. CASE i <= Len(lookahead)
  <2>1. i \in DOMAIN lookahead /\ Arriving[i] = lookahead[i]
    BY <1>1, <1>2, <1>4, ArrivingFacts
  <2> QED
    BY <2>1 DEF Started, PastInv, Range
<1>5. CASE ~(i <= Len(lookahead))
  <2>1. PICK j \in 1 .. Len(queue) : i = Len(lookahead) + j
    <3>1. i - Len(lookahead) \in 1 .. Len(queue)
          /\ i = Len(lookahead) + (i - Len(lookahead))
      BY <1>1, <1>2, <1>5
    <3> QED
      BY <3>1
  <2>2. SameBut(Arriving[i], queue[j])
    BY <2>1, ArrivingFacts
  <2>3. queue[j] \in Range(queue)
    BY <1>1 DEF Range
  <2>4. queue[j].incarnation <= incarnation[queue[j].actor]
    BY <2>3 DEF PastInv
  <2> QED
    BY <2>2, <2>4 DEF Started, SameBut
<1> QED
  BY <1>4, <1>5

\* What is taken is a permutation of the sequence.
LEMMA InOrderFacts ==
    ASSUME NEW s \in Seq(Request), NEW t \in InOrder(s)
    PROVE  /\ t \in Seq(Request)
           /\ Len(t) = Len(s)
           /\ \A i, j \in DOMAIN t : i < j => t[i].at < t[j].at
           /\ \E p \in [1 .. Len(s) -> 1 .. Len(s)] :
                 /\ \A i, j \in 1 .. Len(s) : i # j => p[i] # p[j]
                 /\ \A i \in 1 .. Len(s) : t[i] = s[p[i]]
<1>1. Len(s) \in Nat /\ DOMAIN s = 1 .. Len(s) /\ \A i \in 1 .. Len(s) : s[i] \in Request
  BY ElementOfSeq, LenProperties
<1>2. Cardinality(DOMAIN s) = Len(s)
  <2>1. Cardinality(1 .. Len(s)) = IF 1 > Len(s) THEN 0 ELSE Len(s) - 1 + 1
    BY <1>1, FS_Interval
  <2> QED
    BY <1>1, <2>1
<1>3. /\ t \in Reordered(s)
      /\ \A i, j \in DOMAIN t : i < j => t[i].at < t[j].at
  BY DEF InOrder
<1>4. PICK p \in SetToSeqs(DOMAIN s) : t = [i \in DOMAIN s |-> s[p[i]]]
  BY <1>3 DEF Reordered
<1>5. /\ p \in [1 .. Len(s) -> 1 .. Len(s)]
      /\ \A i, j \in 1 .. Len(s) : i # j => p[i] # p[j]
  BY <1>1, <1>2, <1>4 DEF SetToSeqs
<1>6. \A i \in 1 .. Len(s) : t[i] = s[p[i]]
  BY <1>1, <1>4
<1>7. t \in [1 .. Len(s) -> Request]
  BY <1>1, <1>4, <1>5
<1>8. t \in Seq(Request) /\ Len(t) = Len(s)
  BY <1>1, <1>7, SeqDef, LenProperties
<1> QED
  BY <1>3, <1>5, <1>6, <1>8

LEMMA LatestFacts ==
    ASSUME TypeInv, NEW taken \in Seq(Request),
           \A i \in DOMAIN taken : Started(taken[i])
    PROVE  /\ Latest(taken) \in Generations
           /\ \A a \in DOMAIN Latest(taken) : Latest(taken)[a] <= incarnation[a]
           /\ \A i \in DOMAIN taken :
                 /\ taken[i].actor \in DOMAIN Latest(taken)
                 /\ taken[i].incarnation <= Latest(taken)[taken[i].actor]
           /\ \A a \in DOMAIN Latest(taken) :
                 \E i \in DOMAIN taken : /\ taken[i].actor = a
                                         /\ taken[i].incarnation = Latest(taken)[a]
<1> DEFINE of(a) == {q.incarnation : q \in {p \in Range(taken) : p.actor = a}}
           actors == {q.actor : q \in Range(taken)}
<1>1. Latest(taken) = [a \in actors |-> Max(of(a))]
  BY DEF Latest
<1>2. \A i \in DOMAIN taken : taken[i] \in Request /\ taken[i] \in Range(taken)
  BY ElementOfSeq, LenProperties DEF Range
<1>3. \A q \in Range(taken) : \E i \in DOMAIN taken : taken[i] = q
  BY DEF Range
<1>4. ASSUME NEW a \in actors
      PROVE  /\ a \in Actor
             /\ Max(of(a)) \in Nat
             /\ Max(of(a)) <= incarnation[a]
             /\ \A i \in DOMAIN taken :
                   taken[i].actor = a => taken[i].incarnation <= Max(of(a))
             /\ \E i \in DOMAIN taken : /\ taken[i].actor = a
                                        /\ taken[i].incarnation = Max(of(a))
  <2>1. PICK i \in DOMAIN taken : taken[i].actor = a
    BY <1>3
  <2>2. taken[i].actor \in Actor
    BY <1>2, <2>1 DEF Request
  <2>3. a \in Actor /\ incarnation[a] \in Nat
    BY <2>1, <2>2 DEF TypeInv
  <2>4. \A j \in DOMAIN taken : taken[j].actor = a =>
             taken[j].incarnation \in 0 .. incarnation[a]
    <3>1. TAKE j \in DOMAIN taken
    <3>2. taken[j].incarnation \in Nat /\ Started(taken[j])
      BY <1>2 DEF Request
    <3> QED
      BY <2>3, <3>2 DEF Started
  <2>5. of(a) \in SUBSET (0 .. incarnation[a])
    BY <1>3, <2>4
  <2>6. \A j \in DOMAIN taken : taken[j].actor = a => taken[j].incarnation \in of(a)
    BY <1>2
  <2>7. of(a) # {}
    BY <2>1, <2>6
  <2>8. \A k \in of(a) : \E j \in DOMAIN taken :
             taken[j].actor = a /\ taken[j].incarnation = k
    BY <1>3
  <2> HIDE DEF of, actors
  <2>9. Max(of(a)) \in of(a) /\ \A k \in of(a) : k <= Max(of(a))
    BY <2>3, <2>5, <2>7, MaxFacts
  <2> QED
    BY <2>3, <2>5, <2>6, <2>8, <2>9
<1>5. \A i \in DOMAIN taken : taken[i].actor \in actors
  BY <1>2
<1> HIDE DEF of, actors
<1>6. DOMAIN Latest(taken) = actors /\ \A a \in actors : Latest(taken)[a] = Max(of(a))
  BY <1>1
<1>7. Latest(taken) \in Generations
  <2>1. Latest(taken) = [a \in DOMAIN Latest(taken) |-> Latest(taken)[a]]
    BY <1>1
  <2>2. DOMAIN Latest(taken) \subseteq Actor
        /\ \A a \in DOMAIN Latest(taken) : Latest(taken)[a] \in Nat
    BY <1>4, <1>6
  <2> QED
    BY <2>1, <2>2, MapFacts DEF Generations
<1> QED
  BY <1>4, <1>5, <1>6, <1>7

\* A generation that some request of a started process speaks for is started.
LEMMA GenerationStarted ==
    ASSUME NEW r, RouterInv(r), TypeInv, NEW latest \in Generations,
           \A a \in Actor : r.generation[a] <= incarnation[a],
           \A a \in DOMAIN latest : latest[a] <= incarnation[a]
    PROVE  \A a \in Actor : /\ Generation(r, latest)[a] <= incarnation[a]
                            /\ Generation(r, latest)[a] >= r.generation[a]
                            /\ Generation(r, latest)[a] \in Int
<1>1. r.generation \in [Actor -> Int]
  BY DEF RouterInv, Router
<1>2. DOMAIN latest \subseteq Actor /\ \A a \in DOMAIN latest : latest[a] \in Nat
  BY MapFacts DEF Generations
<1>3. incarnation \in [Actor -> Nat]
  BY DEF TypeInv
<1> QED
  BY <1>1, <1>2, <1>3 DEF Generation, Newer

\* What the drain takes, keeps and leaves.
LEMMA DrainParts ==
    ASSUME TypeInv, NEW n \in 1 .. Len(Arriving), NEW peeked \in 0 .. 1,
           NEW taken \in InOrder(SubSeq(Arriving, 1, n)), MayTake(n, peeked)
    PROVE  /\ SubSeq(Arriving, 1, n) \in Seq(Request)
           /\ Len(SubSeq(Arriving, 1, n)) = n
           /\ \A i \in 1 .. n : SubSeq(Arriving, 1, n)[i] = Arriving[i]
           /\ taken \in Seq(Request)
           /\ Range(taken) \subseteq Range(Arriving)
           /\ SubSeq(lookahead, n + peeked + 1, Len(lookahead)) \in Seq(Request)
           /\ Range(SubSeq(lookahead, n + peeked + 1, Len(lookahead)))
                 \subseteq Range(lookahead)
           /\ n + peeked <= Len(Arriving)
           /\ SubSeq(Arriving, n + 1, n + peeked) \in Seq(Request)
           /\ Range(SubSeq(Arriving, n + 1, n + peeked)) \subseteq Range(Arriving)
           /\ Max({1, (n + peeked + 1) - Len(lookahead)}) \in Nat \ {0}
           /\ SubSeq(queue, Max({1, (n + peeked + 1) - Len(lookahead)}), Len(queue))
                 \in Seq(Request)
           /\ Range(SubSeq(queue, Max({1, (n + peeked + 1) - Len(lookahead)}), Len(queue)))
                 \subseteq Range(queue)
<1>1. /\ Arriving \in Seq(Request) /\ Len(Arriving) \in Nat
      /\ DOMAIN Arriving = 1 .. Len(Arriving)
      /\ lookahead \in Seq(Request) /\ Len(lookahead) \in Nat
      /\ queue \in Seq(Request) /\ Len(queue) \in Nat
  BY ArrivingFacts, LenProperties DEF TypeInv
<1>2. n \in Nat \ {0} /\ n <= Len(Arriving) /\ peeked \in Nat /\ peeked <= 1
  BY <1>1
<1>3. n + peeked <= Len(Arriving)
  <2>1. peeked = 0 \/ n < Len(Arriving)
    BY DEF MayTake
  <2> QED
    BY <1>1, <1>2, <2>1
<1>4. PICK s : s = SubSeq(Arriving, 1, n)
  OBVIOUS
<1>5. /\ s \in Seq(Request) /\ Range(s) \subseteq Range(Arriving) /\ Len(s) = n
      /\ \A i \in 1 .. n : s[i] = Arriving[i]
  <2>1. 1 \in Nat \ {0} /\ n \in 0 .. Len(Arriving)
    BY <1>2
  <2>2. /\ s \in Seq(Request) /\ Range(s) \subseteq Range(Arriving)
        /\ Len(s) = IF 1 <= n THEN n - 1 + 1 ELSE 0
        /\ \A i \in DOMAIN s : s[i] = Arriving[i + 1 - 1]
    BY <1>1, <1>4, <2>1, PartFacts
  <2>3. Len(s) = n
    BY <1>2, <2>2
  <2>4. DOMAIN s = 1 .. n
    BY <2>2, <2>3, LenProperties
  <2>5. \A i \in 1 .. n : i + 1 - 1 = i
    OBVIOUS
  <2> QED
    BY <2>2, <2>3, <2>4, <2>5
<1>6. taken \in Seq(Request) /\ Range(taken) \subseteq Range(Arriving)
  <2>1. taken \in InOrder(s)
    BY <1>4
  <2>2. /\ taken \in Seq(Request)
        /\ Len(taken) = n
        /\ \E p \in [1 .. n -> 1 .. n] : \A i \in 1 .. n : taken[i] = s[p[i]]
    BY <1>5, <2>1, InOrderFacts
  <2>3. DOMAIN taken = 1 .. n /\ DOMAIN s = 1 .. n
    BY <1>5, <2>2, LenProperties
  <2>4. Range(taken) \subseteq Range(s)
    BY <2>2, <2>3 DEF Range
  <2> QED
    BY <1>5, <2>2, <2>4
<1>7. /\ SubSeq(lookahead, n + peeked + 1, Len(lookahead)) \in Seq(Request)
      /\ Range(SubSeq(lookahead, n + peeked + 1, Len(lookahead))) \subseteq Range(lookahead)
  <2>1. n + peeked + 1 \in Nat \ {0} /\ Len(lookahead) \in 0 .. Len(lookahead)
    BY <1>1, <1>2
  <2> QED
    BY <1>1, <2>1, PartFacts
<1>8. /\ SubSeq(Arriving, n + 1, n + peeked) \in Seq(Request)
      /\ Range(SubSeq(Arriving, n + 1, n + peeked)) \subseteq Range(Arriving)
  <2>1. n + 1 \in Nat \ {0} /\ n + peeked \in 0 .. Len(Arriving)
    BY <1>1, <1>2, <1>3
  <2> QED
    BY <1>1, <2>1, PartFacts
<1>9. PICK m : m = Max({1, (n + peeked + 1) - Len(lookahead)})
  OBVIOUS
<1>10. m \in Nat \ {0}
  BY <1>1, <1>2, <1>9, MaxOfTwo
<1>11. SubSeq(queue, m, Len(queue)) \in Seq(Request)
       /\ Range(SubSeq(queue, m, Len(queue))) \subseteq Range(queue)
  <2>1. Len(queue) \in 0 .. Len(queue)
    BY <1>1
  <2> QED
    BY <1>1, <1>10, <2>1, PartFacts
<1> QED
  BY <1>3, <1>4, <1>5, <1>6, <1>7, <1>8, <1>9, <1>10, <1>11

LEMMA EmptyFacts == ASSUME NEW T PROVE <<>> \in Seq(T) /\ Range(<<>>) = {}
<1>1. DOMAIN <<>> = {}
  OBVIOUS
<1> QED
  BY <1>1, EmptySeq DEF Range

LEMMA DrainKeeps == StateInv /\ Drain => StateInv'
<1> SUFFICES ASSUME StateInv, Drain PROVE StateInv'
  OBVIOUS
<1>0. TypeInv /\ RouterInv(router) /\ PastInv
  BY DEF StateInv
<1>1. PICK n \in 1 .. Len(Arriving), peeked \in 0 .. 1 :
        \E taken \in InOrder(SubSeq(Arriving, 1, n)) :
         LET next == n + peeked + 1
         IN /\ MayTake(n, peeked)
            /\ lookahead' = SubSeq(lookahead, next, Len(lookahead))
                            \o SubSeq(Arriving, n + 1, n + peeked)
                            \o PutBack(taken)
            /\ queue' = SubSeq(queue, Max({1, next - Len(lookahead)}), Len(queue))
            /\ batch' = IF loaded THEN taken ELSE <<>>
            /\ router' = IF loaded THEN Admitted(router, Latest(taken)) ELSE router
  BY DEF Drain
<1>2. PICK taken \in InOrder(SubSeq(Arriving, 1, n)) :
            /\ MayTake(n, peeked)
            /\ lookahead' = SubSeq(lookahead, n + peeked + 1, Len(lookahead))
                            \o SubSeq(Arriving, n + 1, n + peeked)
                            \o PutBack(taken)
            /\ queue' = SubSeq(queue, Max({1, (n + peeked + 1) - Len(lookahead)}), Len(queue))
            /\ batch' = IF loaded THEN taken ELSE <<>>
            /\ router' = IF loaded THEN Admitted(router, Latest(taken)) ELSE router
  BY <1>1
<1>3. UNCHANGED <<frozen, loaded, actorVars, inbox>>
  BY DEF Drain
<1>4. /\ taken \in Seq(Request)
      /\ Range(taken) \subseteq Range(Arriving)
      /\ SubSeq(lookahead, n + peeked + 1, Len(lookahead)) \in Seq(Request)
      /\ Range(SubSeq(lookahead, n + peeked + 1, Len(lookahead))) \subseteq Range(lookahead)
      /\ SubSeq(Arriving, n + 1, n + peeked) \in Seq(Request)
      /\ Range(SubSeq(Arriving, n + 1, n + peeked)) \subseteq Range(Arriving)
      /\ queue' \in Seq(Request)
      /\ Range(queue') \subseteq Range(queue)
  BY <1>0, <1>2, DrainParts
<1>5. \A q \in Range(Arriving) : q.incarnation <= incarnation[q.actor]
  BY <1>0, ArrivingStarted DEF Started, Range
<1>6. PutBack(taken) \in Seq(Request) /\ Range(PutBack(taken)) \subseteq Range(Arriving)
  BY <1>4, EmptyFacts DEF PutBack
<1>7. /\ lookahead' \in Seq(Request)
      /\ \A q \in Range(lookahead') : q.incarnation <= incarnation[q.actor]
  <2>1. PICK s, t, u : /\ s = SubSeq(lookahead, n + peeked + 1, Len(lookahead))
                       /\ t = SubSeq(Arriving, n + 1, n + peeked)
                       /\ u = PutBack(taken)
    OBVIOUS
  <2>2. s \in Seq(Request) /\ t \in Seq(Request) /\ u \in Seq(Request)
    BY <1>4, <1>6, <2>1
  <2>3. s \o t \in Seq(Request) /\ Range(s \o t) = Range(s) \cup Range(t)
    BY <2>2, JoinFacts
  <2>4. PICK st : st = s \o t
    OBVIOUS
  <2>5. st \o u \in Seq(Request) /\ Range(st \o u) = Range(st) \cup Range(u)
    <3>1. st \in Seq(Request) /\ u \in Seq(Request)
      BY <2>2, <2>3, <2>4
    <3> QED
      BY <3>1, JoinFacts
  <2>6. lookahead' = st \o u
    BY <1>2, <2>1, <2>4
  <2>7. \A q \in Range(lookahead) : q.incarnation <= incarnation[q.actor]
    BY <1>0 DEF PastInv
  <2> QED
    BY <1>4, <1>5, <1>6, <2>1, <2>3, <2>4, <2>5, <2>6, <2>7
<1>8. batch' \in Seq(Request) /\ \A q \in Range(batch') : q.incarnation <= incarnation[q.actor]
  <2>1. batch' = taken \/ batch' = <<>>
    BY <1>2
  <2> QED
    BY <1>4, <1>5, <2>1, EmptyFacts
<1>9. RouterInv(router') /\ \A a \in Actor : router'.generation[a] <= incarnation[a]
  <2>1. CASE loaded
    <3>1. \A i \in DOMAIN taken : Started(taken[i])
      BY <1>4, <1>5 DEF Started, Range
    <3>2. PICK latest : latest = Latest(taken)
      OBVIOUS
    <3>3. latest \in Generations /\ \A a \in DOMAIN latest : latest[a] <= incarnation[a]
      BY <1>0, <1>4, <3>1, <3>2, LatestFacts
    <3>4. router' = Admitted(router, latest)
      BY <1>2, <2>1, <3>2
    <3>5. RouterInv(router') /\ router'.generation = Generation(router, latest)
      BY <1>0, <3>3, <3>4, AdmittedKeeps
    <3>6. \A a \in Actor : router.generation[a] <= incarnation[a]
      BY <1>0 DEF PastInv
    <3> QED
      BY <1>0, <3>3, <3>5, <3>6, GenerationStarted
  <2>2. CASE ~loaded
    BY <1>0, <1>2, <2>2 DEF PastInv
  <2> QED
    BY <2>1, <2>2
<1>10. TypeInv'
  BY <1>0, <1>3, <1>4, <1>7, <1>8 DEF TypeInv, actorVars
<1>11. PastInv'
  BY <1>0, <1>3, <1>4, <1>7, <1>8, <1>9 DEF PastInv, actorVars
<1> QED
  BY <1>9, <1>10, <1>11 DEF StateInv

LEMMA AnswerFacts ==
    ASSUME NEW q \in Request, NEW ok \in BOOLEAN, NEW v \in Nat
    PROVE  Answer(q, ok, v) \in Response /\ Error(q) \in Response
BY DEF Request, Response, Answer, Error, Unbound

\* Whatever router answers, the state stays sound.
LEMMA ReplyKeeps ==
    ASSUME StateInv, NEW r, RouterInv(r),
           \A a \in Actor : r.generation[a] <= incarnation[a],
           NEW answer \in Response, batch # <<>>, Reply(r, answer)
    PROVE  StateInv'
<1>0. TypeInv /\ RouterInv(router) /\ PastInv
  BY DEF StateInv
<1>1. /\ router' = [r EXCEPT !.replays = Stored(r.replays, answer)]
      /\ inbox' = [inbox EXCEPT ![answer.actor] = Append(@, answer)]
      /\ batch' = Tail(batch)
      /\ UNCHANGED <<frozen, loaded, lookahead, queue, actorVars>>
  BY DEF Reply
<1>2. r \in Router /\ r.replays \in Seq(Response)
  BY DEF RouterInv, Router
<1>3. RouterInv(router') /\ router'.generation = r.generation
  <2>1. Stored(r.replays, answer) \in Seq(Response)
    BY <1>2, StoredFacts
  <2>2. RouterInv([r EXCEPT !.replays = Stored(r.replays, answer)])
    BY <2>1, RepliesKeep
  <2> QED
    BY <1>1, <1>2, <2>2 DEF Router
<1>4. Tail(batch) \in Seq(Request) /\ Range(Tail(batch)) \subseteq Range(batch)
  BY <1>0, TailFacts DEF TypeInv
<1>5. inbox' \in [Actor -> Seq(Response)]
  <2>1. answer.actor \in Actor
    BY DEF Response
  <2>2. inbox \in [Actor -> Seq(Response)]
    BY <1>0 DEF TypeInv
  <2>3. Append(inbox[answer.actor], answer) \in Seq(Response)
    BY <2>1, <2>2, AppendFacts
  <2> QED
    BY <1>1, <2>2, <2>3
<1>6. TypeInv'
  BY <1>0, <1>1, <1>4, <1>5 DEF TypeInv, actorVars
<1>7. PastInv'
  BY <1>0, <1>1, <1>3, <1>4 DEF PastInv, actorVars
<1> QED
  BY <1>3, <1>6, <1>7 DEF StateInv

LEMMA HeadFacts ==
    ASSUME StateInv, batch # <<>>
    PROVE  Head(batch) \in Request /\ Started(Head(batch))
<1>1. Head(batch) \in Request /\ Head(batch) \in Range(batch)
  BY TailFacts DEF StateInv, TypeInv
<1> QED
  BY <1>1 DEF StateInv, PastInv, Started

LEMMA OneGeneration ==
    ASSUME NEW q \in Request
    PROVE  /\ [a \in {q.actor} |-> q.incarnation] \in Generations
           /\ DOMAIN [a \in {q.actor} |-> q.incarnation] = {q.actor}
           /\ [a \in {q.actor} |-> q.incarnation][q.actor] = q.incarnation
<1> DEFINE f == [a \in {q.actor} |-> q.incarnation]
<1>1. q.actor \in Actor /\ q.incarnation \in Nat
  BY DEF Request
<1>2. DOMAIN f = {q.actor} /\ f[q.actor] = q.incarnation /\ f = [a \in DOMAIN f |-> f[a]]
  OBVIOUS
<1> HIDE DEF f
<1>3. f \in Generations
  BY <1>1, <1>2, MapFacts DEF Generations
<1> QED
  BY <1>2, <1>3 DEF f

\* The router after the request's own generation was admitted.
LEMMA AdmittedForFacts ==
    ASSUME StateInv, NEW q \in Request, Started(q)
    PROVE  /\ RouterInv(AdmittedFor(router, q))
           /\ AdmittedFor(router, q).current = router.current
           /\ \A a \in Actor :
                 AdmittedFor(router, q).generation[a] <= incarnation[a]
           /\ ~Stale(router, q) =>
                 AdmittedFor(router, q).generation[q.actor] = q.incarnation
<1>0. TypeInv /\ RouterInv(router) /\ PastInv
  BY DEF StateInv
<1>1. PICK f : f = [a \in {q.actor} |-> q.incarnation]
  OBVIOUS
<1>2. f \in Generations /\ DOMAIN f = {q.actor} /\ f[q.actor] = q.incarnation
  BY <1>1, OneGeneration
<1>3. AdmittedFor(router, q) = Admitted(router, f)
  BY <1>1 DEF AdmittedFor
<1>4. \A a \in Actor : router.generation[a] <= incarnation[a]
  BY <1>0 DEF PastInv
<1>5. \A a \in DOMAIN f : f[a] <= incarnation[a]
  BY <1>2 DEF Started
<1>6. \A a \in Actor : Generation(router, f)[a] <= incarnation[a]
  BY <1>0, <1>2, <1>4, <1>5, GenerationStarted
<1>7. /\ RouterInv(Admitted(router, f))
      /\ Admitted(router, f).current = router.current
      /\ Admitted(router, f).generation = Generation(router, f)
  BY <1>0, <1>2, AdmittedKeeps
<1>8. ASSUME ~Stale(router, q)
      PROVE  Generation(router, f)[q.actor] = q.incarnation
  <2>1. q.actor \in Actor /\ q.incarnation \in Nat
    BY DEF Request
  <2>2. router.generation \in [Actor -> Int]
    BY <1>0 DEF RouterInv, Router
  <2> QED
    BY <1>2, <1>8, <2>1, <2>2 DEF Generation, Newer, Stale
<1> QED
  BY <1>3, <1>6, <1>7, <1>8

LEMMA ServeReplayKeeps == StateInv /\ ServeReplay => StateInv'
<1> SUFFICES ASSUME StateInv, ServeReplay PROVE StateInv'
  OBVIOUS
<1>1. batch # <<>>
  BY DEF ServeReplay
<1>2. PICK answer \in Cached(router, Head(batch)) : Reply(router, answer)
  BY DEF ServeReplay
<1>3. answer \in Response
  <2>1. router.replays \in Seq(Response)
    BY DEF StateInv, RouterInv, Router
  <2> QED
    BY <1>2, <2>1, RangeOfSeq DEF Cached
<1>4. RouterInv(router) /\ \A a \in Actor : router.generation[a] <= incarnation[a]
  BY DEF StateInv, PastInv
<1> QED
  BY <1>1, <1>2, <1>3, <1>4, ReplyKeeps

LEMMA ServeDecodeKeeps == StateInv /\ ServeDecode => StateInv'
<1> SUFFICES ASSUME StateInv, ServeDecode PROVE StateInv'
  OBVIOUS
<1>1. batch # <<>>
  BY DEF ServeDecode, Serve
<1>2. PICK q : q = Head(batch)
  OBVIOUS
<1>3. q \in Request /\ Started(q)
  BY <1>1, <1>2, HeadFacts
<1>4. PICK r : r = AdmittedFor(router, q)
  OBVIOUS
<1>5. /\ RouterInv(r) /\ r.current = router.current
      /\ \A a \in Actor : r.generation[a] <= incarnation[a]
      /\ ~Stale(router, q) => r.generation[q.actor] = q.incarnation
  BY <1>3, <1>4, AdmittedForFacts
<1>6. /\ RouterInv(router) /\ \A a \in Actor : router.generation[a] <= incarnation[a]
      /\ router.current \in Nat
  BY DEF StateInv, PastInv, RouterInv, Router
<1>7. \/ /\ Stale(router, q)
         /\ Reply(router, Error(q))
      \/ /\ ~Stale(router, q) /\ q.expected = Unbound /\ CanBind(r, q)
         /\ Reply(BoundTo(r, KeysOf(q)), Answer(q, TRUE, r.current))
      \/ /\ ~Stale(router, q) /\ q.expected # Unbound /\ Holds(r, q)
         /\ Reply(r, Answer(q, TRUE, q.expected))
      \/ /\ ~Stale(router, q)
         /\ IF q.expected = Unbound THEN ~CanBind(r, q) ELSE ~Holds(r, q)
         /\ Reply(r, Error(q))
  BY <1>2, <1>4 DEF ServeDecode
<1>8. q.expected \in Nat /\ Error(q) \in Response
  BY <1>3, AnswerFacts DEF Request
<1>9. Answer(q, TRUE, q.expected) \in Response /\ Answer(q, TRUE, r.current) \in Response
  BY <1>3, <1>5, <1>6, <1>8, AnswerFacts
<1>10. CASE Reply(router, Error(q))
  BY <1>1, <1>6, <1>8, <1>10, ReplyKeeps
<1>11. CASE ~Stale(router, q) /\ CanBind(r, q)
             /\ Reply(BoundTo(r, KeysOf(q)), Answer(q, TRUE, r.current))
  <2>1. PICK ks : ks = KeysOf(q)
    OBVIOUS
  <2>2. /\ ks \in SUBSET Key /\ IsFiniteSet(ks)
        /\ Cardinality(ks) = Cardinality(q.seats)
        /\ \A k \in ks : k.actor = q.actor /\ k.incarnation = q.incarnation
    BY <1>3, <2>1, KeysFacts
  <2>3. /\ ks \cap DOMAIN r.sequences = {}
        /\ Cardinality(DOMAIN r.sequences) + Cardinality(ks) <= MaxSequences
        /\ r.inFlight + Cardinality(ks) <= MaxInFlight
    BY <1>11, <2>1, <2>2 DEF CanBind
  <2>4. \A k \in ks : k.incarnation = r.generation[k.actor]
    BY <1>5, <1>11, <2>2
  <2>5. PICK b : b = BoundTo(r, ks)
    OBVIOUS
  <2>6. RouterInv(b) /\ b.generation = r.generation
    BY <1>5, <2>2, <2>3, <2>4, <2>5, BoundKeeps
  <2>7. Reply(b, Answer(q, TRUE, r.current))
    BY <1>11, <2>1, <2>5
  <2> QED
    BY <1>1, <1>5, <1>9, <2>6, <2>7, ReplyKeeps
<1>12. CASE Reply(r, Answer(q, TRUE, q.expected))
  BY <1>1, <1>5, <1>9, <1>12, ReplyKeeps
<1>13. CASE Reply(r, Error(q))
  BY <1>1, <1>5, <1>8, <1>13, ReplyKeeps
<1> QED
  BY <1>7, <1>10, <1>11, <1>12, <1>13

LEMMA ServeReleaseKeeps == StateInv /\ ServeRelease => StateInv'
<1> SUFFICES ASSUME StateInv, ServeRelease PROVE StateInv'
  OBVIOUS
<1>1. batch # <<>>
  BY DEF ServeRelease, Serve
<1>2. PICK q : q = Head(batch)
  OBVIOUS
<1>3. q \in Request /\ Started(q)
  BY <1>1, <1>2, HeadFacts
<1>4. PICK r : r = AdmittedFor(router, q)
  OBVIOUS
<1>5. RouterInv(r) /\ \A a \in Actor : r.generation[a] <= incarnation[a]
  BY <1>3, <1>4, AdmittedForFacts
<1>6. RouterInv(router) /\ \A a \in Actor : router.generation[a] <= incarnation[a]
  BY DEF StateInv, PastInv
<1>7. PICK ks : ks = KeysOf(q)
  OBVIOUS
<1>8. PICK art : art = [k \in ks |-> q.expected]
  OBVIOUS
<1>9. \/ /\ Stale(router, q)
         /\ Reply(router, Error(q))
      \/ /\ ~Stale(router, q) /\ CanRelease(r, q)
         /\ Reply(ReleasedAs(r, ks, art), Answer(q, TRUE, q.expected))
      \/ /\ ~Stale(router, q) /\ ~CanRelease(r, q)
         /\ Reply(r, Error(q))
  BY <1>2, <1>4, <1>7, <1>8 DEF ServeRelease, ReleasedAs
<1>10. q.expected \in Nat /\ Error(q) \in Response
  BY <1>3, AnswerFacts DEF Request
<1>11. Answer(q, TRUE, q.expected) \in Response
  BY <1>3, <1>10, AnswerFacts
<1>12. CASE Reply(router, Error(q))
  BY <1>1, <1>6, <1>10, <1>12, ReplyKeeps
<1>13. CASE Reply(ReleasedAs(r, ks, art), Answer(q, TRUE, q.expected))
  <2>1. ks \in SUBSET Key /\ IsFiniteSet(ks)
    BY <1>3, <1>7, KeysFacts
  <2>2. \A k \in ks : art[k] \in Nat
    BY <1>8, <1>10
  <2>3. PICK n : n = ReleasedAs(r, ks, art)
    OBVIOUS
  <2>4. RouterInv(n) /\ n.generation = r.generation
    BY <1>5, <2>1, <2>2, <2>3, ReleasedAsKeeps
  <2>5. Reply(n, Answer(q, TRUE, q.expected))
    BY <1>13, <2>3
  <2> QED
    BY <1>1, <1>5, <1>11, <2>4, <2>5, ReplyKeeps
<1>14. CASE Reply(r, Error(q))
  BY <1>1, <1>5, <1>10, <1>14, ReplyKeeps
<1> QED
  BY <1>9, <1>12, <1>13, <1>14

LEMMA ServeAbortKeeps == StateInv /\ ServeAbort => StateInv'
<1> SUFFICES ASSUME StateInv, ServeAbort PROVE StateInv'
  OBVIOUS
<1>1. batch # <<>>
  BY DEF ServeAbort, Serve
<1>2. PICK q : q = Head(batch)
  OBVIOUS
<1>3. q \in Request /\ Started(q)
  BY <1>1, <1>2, HeadFacts
<1>4. PICK r : r = AdmittedFor(router, q)
  OBVIOUS
<1>5. RouterInv(r) /\ \A a \in Actor : r.generation[a] <= incarnation[a]
  BY <1>3, <1>4, AdmittedForFacts
<1>6. RouterInv(router) /\ \A a \in Actor : router.generation[a] <= incarnation[a]
  BY DEF StateInv, PastInv
<1>7. PICK held : held = KeysOf(q) \cap DOMAIN r.sequences
  OBVIOUS
<1>8. PICK art : art = r.sequences
  OBVIOUS
<1>9. \/ /\ Stale(router, q)
         /\ Reply(router, Error(q))
      \/ /\ ~Stale(router, q)
         /\ Reply(ReleasedAs(r, held, art), Answer(q, TRUE, Unbound))
  BY <1>2, <1>4, <1>7, <1>8 DEF ServeAbort, ReleasedAs
<1>10. Error(q) \in Response /\ Answer(q, TRUE, Unbound) \in Response
  <2>1. Unbound \in Nat
    BY DEF Unbound
  <2> QED
    BY <1>3, <2>1, AnswerFacts
<1>11. CASE Reply(router, Error(q))
  BY <1>1, <1>6, <1>10, <1>11, ReplyKeeps
<1>12. CASE Reply(ReleasedAs(r, held, art), Answer(q, TRUE, Unbound))
  <2>1. KeysOf(q) \in SUBSET Key /\ IsFiniteSet(KeysOf(q))
    BY <1>3, KeysFacts
  <2>2. held \in SUBSET Key /\ IsFiniteSet(held)
    <3>1. held \in SUBSET KeysOf(q)
      BY <1>7
    <3> QED
      BY <2>1, <3>1, FS_Subset
  <2>3. \A k \in held : art[k] \in Nat
    <3>1. r.sequences \in Maps(Key, Nat)
      BY <1>5 DEF RouterInv, Router
    <3> QED
      BY <1>7, <1>8, <3>1, MapFacts
  <2>4. PICK n : n = ReleasedAs(r, held, art)
    OBVIOUS
  <2>5. RouterInv(n) /\ n.generation = r.generation
    BY <1>5, <2>2, <2>3, <2>4, ReleasedAsKeeps
  <2>6. Reply(n, Answer(q, TRUE, Unbound))
    BY <1>12, <2>4
  <2> QED
    BY <1>1, <1>5, <1>10, <2>5, <2>6, ReplyKeeps
<1> QED
  BY <1>9, <1>11, <1>12

LEMMA LoadRouteKeeps == StateInv /\ LoadRoute => StateInv'
<1> SUFFICES ASSUME StateInv, LoadRoute PROVE StateInv'
  OBVIOUS
<1>1. /\ loaded' = TRUE
      /\ UNCHANGED <<router, frozen, lookahead, batch, queue, incarnation,
                     nextRequest, pending, binding, closing, ended, inbox>>
  BY DEF LoadRoute, actorVars
<1>2. TypeInv'
  BY <1>1 DEF StateInv, TypeInv
<1>3. PastInv' /\ RouterInv(router')
  BY <1>1 DEF StateInv, PastInv
<1> QED
  BY <1>2, <1>3 DEF StateInv

LEMMA PublishKeeps == StateInv /\ Publish => StateInv'
<1> SUFFICES ASSUME StateInv, Publish PROVE StateInv'
  OBVIOUS
<1>1. PICK v \in Version : CanPublish(router, v) /\ router' = PublishedTo(router, v)
  BY DEF Publish
<1>2. UNCHANGED <<frozen, loaded, lookahead, batch, queue, incarnation,
                  nextRequest, pending, binding, closing, ended, inbox>>
  BY DEF Publish, actorVars
<1>3. v \in Nat
  BY RecurrentAssumption DEF Version
<1>4. RouterInv(router') /\ router'.generation = router.generation
  BY <1>1, <1>3, PublishedKeeps DEF StateInv
<1>5. TypeInv'
  BY <1>2 DEF StateInv, TypeInv
<1>6. PastInv'
  BY <1>2, <1>4 DEF StateInv, PastInv
<1> QED
  BY <1>4, <1>5, <1>6 DEF StateInv

(***************************************************************************)
(* The actors                                                              *)
(***************************************************************************)

LEMMA SubmitKeeps ==
    ASSUME StateInv, NEW a \in Actor, NEW kind \in Kind, NEW ss \in SUBSET Seat,
           NEW v \in Nat, Submit(a, kind, ss, v)
    PROVE  StateInv'
<1>0. TypeInv /\ RouterInv(router) /\ PastInv
  BY DEF StateInv
<1>1. PICK q : q = [actor |-> a, incarnation |-> incarnation[a],
                    id |-> nextRequest[a], kind |-> kind, seats |-> ss,
                    expected |-> v, at |-> 0]
  OBVIOUS
<1>2. /\ queue' = Append(queue, q)
      /\ pending' = [pending EXCEPT
             ![a] = Put(@, {q.id}, [request |-> q, attempts |-> 0])]
      /\ nextRequest' = [nextRequest EXCEPT ![a] = @ + 1]
      /\ closing' = IF kind = "decode" THEN closing
                    ELSE [closing EXCEPT ![a] = @ \cup ss]
      /\ UNCHANGED <<router, frozen, loaded, lookahead, batch, incarnation,
                     binding, ended, inbox>>
  BY <1>1 DEF Submit, serverVars
<1>3. /\ incarnation[a] \in Nat /\ nextRequest[a] \in Nat
      /\ pending \in [Actor -> Maps(Nat, Entry)]
      /\ closing \in [Actor -> SUBSET Seat]
      /\ queue \in Seq(Request)
  BY <1>0 DEF TypeInv
<1>4. q \in Request /\ q.id = nextRequest[a] /\ q.actor = a /\ q.incarnation = incarnation[a]
  BY <1>1, <1>3 DEF Request
<1>5. queue' \in Seq(Request) /\ Range(queue') = Range(queue) \cup {q}
  BY <1>2, <1>3, <1>4, AppendFacts
<1>6. PICK e : e = [request |-> q, attempts |-> 0]
  OBVIOUS
<1>7. e \in Entry /\ e.request = q
  BY <1>4, <1>6 DEF Entry
<1>8. PICK p : p = pending[a]
  OBVIOUS
<1>9. /\ Put(p, {q.id}, e) \in Maps(Nat, Entry)
      /\ DOMAIN Put(p, {q.id}, e) = {q.id} \cup DOMAIN p
      /\ Put(p, {q.id}, e)[q.id] = e
      /\ \A id \in DOMAIN p \ {q.id} : Put(p, {q.id}, e)[id] = p[id]
  <2>1. p \in Maps(Nat, Entry) /\ {q.id} \in SUBSET Nat
    BY <1>3, <1>4, <1>8
  <2>2. Put(p, {q.id}, e) \in Maps(Nat, Entry)
    BY <1>7, <2>1, PutMaps
  <2> QED
    BY <2>2 DEF Put
<1>10. pending' = [pending EXCEPT ![a] = Put(p, {q.id}, e)]
  BY <1>2, <1>6, <1>8
<1>11. pending' \in [Actor -> Maps(Nat, Entry)]
  BY <1>3, <1>9, <1>10
<1>12. closing' \in [Actor -> SUBSET Seat]
  BY <1>2, <1>3
<1>13. nextRequest' \in [Actor -> Nat] /\ nextRequest'[a] = nextRequest[a] + 1
       /\ \A b \in Actor : b # a => nextRequest'[b] = nextRequest[b]
  BY <1>0, <1>2, <1>3 DEF TypeInv
<1>14. TypeInv'
  BY <1>0, <1>2, <1>5, <1>11, <1>12, <1>13 DEF TypeInv
<1>15. PastInv'
  <2>1. \A x \in Range(queue') : x.incarnation <= incarnation'[x.actor]
    BY <1>0, <1>2, <1>3, <1>4, <1>5 DEF PastInv
  <2>2. ASSUME NEW b \in Actor, NEW id \in DOMAIN pending'[b]
        PROVE  /\ pending'[b][id].request.actor = b
               /\ pending'[b][id].request.incarnation = incarnation'[b]
               /\ pending'[b][id].request.id = id
               /\ id < nextRequest'[b]
    <3>1. CASE b # a
      BY <1>0, <1>2, <1>3, <1>10, <1>13, <2>2, <3>1 DEF PastInv
    <3>2. CASE b = a
      <4>1. pending'[b] = Put(p, {q.id}, e)
        BY <1>3, <1>10, <3>2
      <4>2. CASE id = q.id
        BY <1>2, <1>3, <1>4, <1>7, <1>9, <1>13, <3>2, <4>1, <4>2
      <4>3. CASE id # q.id
        <5>1. id \in DOMAIN pending[a] /\ pending'[b][id] = pending[a][id]
          BY <1>8, <1>9, <2>2, <4>1, <4>3
        <5>2. /\ pending[a][id].request.actor = a
              /\ pending[a][id].request.incarnation = incarnation[a]
              /\ pending[a][id].request.id = id
              /\ id < nextRequest[a]
          BY <1>0, <5>1 DEF PastInv
        <5>3. id \in Nat
          <6>1. pending[a] \in Maps(Nat, Entry)
            BY <1>3
          <6> QED
            BY <5>1, <6>1, MapFacts
        <5> QED
          BY <1>2, <1>3, <1>13, <3>2, <5>1, <5>2, <5>3
      <4> QED
        BY <4>2, <4>3
    <3> QED
      BY <3>1, <3>2
  <2> QED
    BY <1>0, <1>2, <2>1, <2>2 DEF PastInv
<1> QED
  BY <1>0, <1>2, <1>14, <1>15 DEF StateInv

\* A pending table with one entry less, or another number of attempts.
LEMMA PendingKeeps ==
    ASSUME TypeInv, PastInv, NEW a \in Actor, NEW p \in Maps(Nat, Entry),
           DOMAIN p \subseteq DOMAIN pending[a],
           \A id \in DOMAIN p : p[id].request = pending[a][id].request,
           pending' = [pending EXCEPT ![a] = p],
           incarnation' = incarnation, nextRequest' = nextRequest
    PROVE  /\ pending' \in [Actor -> Maps(Nat, Entry)]
           /\ \A b \in Actor : \A id \in DOMAIN pending'[b] :
                 /\ pending'[b][id].request.actor = b
                 /\ pending'[b][id].request.incarnation = incarnation'[b]
                 /\ pending'[b][id].request.id = id
                 /\ id < nextRequest'[b]
<1>1. pending \in [Actor -> Maps(Nat, Entry)]
  BY DEF TypeInv
<1>2. /\ pending' \in [Actor -> Maps(Nat, Entry)]
      /\ pending'[a] = p
      /\ \A b \in Actor : b # a => pending'[b] = pending[b]
  BY <1>1
<1>3. ASSUME NEW b \in Actor, NEW id \in DOMAIN pending'[b]
      PROVE  /\ id \in DOMAIN pending[b]
             /\ pending'[b][id].request = pending[b][id].request
  BY <1>2, <1>3
<1>4. \A b \in Actor : \A id \in DOMAIN pending'[b] :
                 /\ pending'[b][id].request.actor = b
                 /\ pending'[b][id].request.incarnation = incarnation'[b]
                 /\ pending'[b][id].request.id = id
                 /\ id < nextRequest'[b]
  BY <1>3 DEF PastInv
<1> QED
  BY <1>2, <1>4

LEMMA ReceiveKeeps == \A a \in Actor : StateInv /\ Receive(a) => StateInv'
<1> SUFFICES ASSUME NEW a \in Actor, StateInv, Receive(a) PROVE StateInv'
  OBVIOUS
<1>0. TypeInv /\ RouterInv(router) /\ PastInv
  BY DEF StateInv
<1>1. PICK p : p = Head(inbox[a])
  OBVIOUS
<1>2. PICK mine : mine = (p.incarnation = incarnation[a] /\ p.id \in DOMAIN pending[a])
  OBVIOUS
<1>3. /\ inbox[a] # <<>>
      /\ inbox' = [inbox EXCEPT ![a] = Tail(@)]
      /\ pending' = IF mine THEN [pending EXCEPT ![a] = Restrict(@, DOMAIN @ \ {p.id})]
                    ELSE pending
      /\ binding' = [binding EXCEPT ![a] =
             CASE mine /\ p.ok /\ p.kind = "decode" -> Put(@, p.seats, p.artifact)
               [] mine /\ p.ok /\ p.kind = "release" ->
                      Restrict(@, DOMAIN binding[a] \ p.seats)
               [] OTHER -> @]
      /\ closing' = IF mine /\ ~p.ok /\ p.kind = "decode"
                    THEN [closing EXCEPT ![a] = @ \cup p.seats] ELSE closing
      /\ ended' = IF mine /\ p.ok /\ p.kind # "decode"
                  THEN [ended EXCEPT ![a] = @ \cup p.seats] ELSE ended
      /\ UNCHANGED <<router, frozen, loaded, lookahead, batch, queue,
                     incarnation, nextRequest>>
  BY <1>1, <1>2 DEF Receive, serverVars
<1>4. /\ inbox \in [Actor -> Seq(Response)]
      /\ pending \in [Actor -> Maps(Nat, Entry)]
      /\ binding \in [Actor -> Maps(Seat, Nat)]
      /\ closing \in [Actor -> SUBSET Seat]
      /\ ended \in [Actor -> SUBSET Seat]
  BY <1>0 DEF TypeInv
<1>5. p \in Response /\ Tail(inbox[a]) \in Seq(Response)
  BY <1>1, <1>3, <1>4, TailFacts
<1>6. p.seats \in SUBSET Seat /\ p.artifact \in Nat
  BY <1>5 DEF Response
<1>7. inbox' \in [Actor -> Seq(Response)]
  BY <1>3, <1>4, <1>5
<1>8. closing' \in [Actor -> SUBSET Seat] /\ ended' \in [Actor -> SUBSET Seat]
  BY <1>3, <1>4, <1>6
<1>9. PICK b : b = binding[a]
  OBVIOUS
<1>10. b \in Maps(Seat, Nat)
  BY <1>4, <1>9
<1>11. Put(b, p.seats, p.artifact) \in Maps(Seat, Nat)
  <2>1. PICK R, x : R = Nat /\ x = p.artifact
    OBVIOUS
  <2>2. b \in Maps(Seat, R) /\ x \in R
    BY <1>6, <1>10, <2>1
  <2>3. Put(b, p.seats, x) \in Maps(Seat, R)
    BY <1>6, <2>2, PutMaps
  <2> QED
    BY <2>1, <2>3
<1>12. Restrict(b, DOMAIN b \ p.seats) \in Maps(Seat, Nat)
  BY <1>10, RestrictMaps
<1>13. binding' \in [Actor -> Maps(Seat, Nat)]
  <2>1. PICK c : c = CASE mine /\ p.ok /\ p.kind = "decode" -> Put(b, p.seats, p.artifact)
                       [] mine /\ p.ok /\ p.kind = "release" -> Restrict(b, DOMAIN b \ p.seats)
                       [] OTHER -> b
    OBVIOUS
  <2>2. c \in Maps(Seat, Nat)
    BY <1>10, <1>11, <1>12, <2>1
  <2>3. binding' = [binding EXCEPT ![a] = c]
    BY <1>3, <1>9, <2>1
  <2> QED
    BY <1>4, <2>2, <2>3
<1>14. PICK r : r = IF mine THEN Restrict(pending[a], DOMAIN pending[a] \ {p.id})
                    ELSE pending[a]
  OBVIOUS
<1>15. /\ r \in Maps(Nat, Entry)
       /\ DOMAIN r \subseteq DOMAIN pending[a]
       /\ \A id \in DOMAIN r : r[id].request = pending[a][id].request
  <2>1. pending[a] \in Maps(Nat, Entry)
    BY <1>4
  <2>2. PICK f : f = pending[a]
    OBVIOUS
  <2>3. PICK E : E = DOMAIN f \ {p.id}
    OBVIOUS
  <2>4. /\ Restrict(f, E) \in Maps(Nat, Entry)
        /\ DOMAIN Restrict(f, E) = E
        /\ \A x \in E : Restrict(f, E)[x] = f[x]
    BY <2>1, <2>2, <2>3, RestrictMaps
  <2> QED
    BY <1>14, <2>1, <2>2, <2>3, <2>4
<1>16. pending' = [pending EXCEPT ![a] = r]
  BY <1>3, <1>4, <1>14
<1>17. /\ pending' \in [Actor -> Maps(Nat, Entry)]
       /\ \A d \in Actor : \A id \in DOMAIN pending'[d] :
             /\ pending'[d][id].request.actor = d
             /\ pending'[d][id].request.incarnation = incarnation'[d]
             /\ pending'[d][id].request.id = id
             /\ id < nextRequest'[d]
  BY <1>0, <1>3, <1>15, <1>16, PendingKeeps
<1>18. TypeInv'
  BY <1>0, <1>3, <1>7, <1>8, <1>13, <1>17 DEF TypeInv
<1>19. PastInv'
  BY <1>0, <1>3, <1>17 DEF PastInv
<1> QED
  BY <1>0, <1>3, <1>18, <1>19 DEF StateInv

LEMMA RetryKeeps == \A a \in Actor : StateInv /\ Retry(a) => StateInv'
<1> SUFFICES ASSUME NEW a \in Actor, StateInv, Retry(a) PROVE StateInv'
  OBVIOUS
<1>0. TypeInv /\ RouterInv(router) /\ PastInv
  BY DEF StateInv
<1>1. PICK id \in DOMAIN pending[a] :
        /\ queue' = Append(queue, pending[a][id].request)
        /\ pending' = [pending EXCEPT ![a][id].attempts = @ + 1]
        /\ UNCHANGED <<router, frozen, loaded, lookahead, batch, incarnation,
                       nextRequest, binding, closing, ended, inbox>>
  BY DEF Retry, serverVars
<1>2. PICK f : f = pending[a]
  OBVIOUS
<1>3. pending \in [Actor -> Maps(Nat, Entry)] /\ f \in Maps(Nat, Entry)
  BY <1>0, <1>2 DEF TypeInv
<1>4. /\ DOMAIN f \subseteq Nat
      /\ f = [x \in DOMAIN f |-> f[x]]
      /\ \A x \in DOMAIN f : f[x] \in Entry
  BY <1>3, MapFacts
<1>5. PICK p : p = [f EXCEPT ![id].attempts = @ + 1]
  OBVIOUS
<1>6. pending' = [pending EXCEPT ![a] = p]
  BY <1>1, <1>2, <1>3, <1>5
<1>7. /\ DOMAIN p = DOMAIN f
      /\ p = [x \in DOMAIN p |-> p[x]]
      /\ p[id] = [f[id] EXCEPT !.attempts = @ + 1]
      /\ \A x \in DOMAIN f : x # id => p[x] = f[x]
  BY <1>1, <1>2, <1>4, <1>5
<1>8. p[id] \in Entry /\ p[id].request = f[id].request
  <2>1. PICK e : e = f[id]
    OBVIOUS
  <2>2. e \in Entry /\ p[id] = [e EXCEPT !.attempts = @ + 1]
    BY <1>1, <1>2, <1>4, <1>7, <2>1
  <2> QED
    BY <2>1, <2>2 DEF Entry
<1>9. p \in Maps(Nat, Entry)
  <2>1. \A x \in DOMAIN p : p[x] \in Entry
    BY <1>4, <1>7, <1>8
  <2> QED
    BY <1>4, <1>7, <2>1, MapFacts
<1>10. \A x \in DOMAIN p : p[x].request = pending[a][x].request
  BY <1>2, <1>7, <1>8
<1>11. DOMAIN p \subseteq DOMAIN pending[a]
  BY <1>2, <1>7
<1>12. /\ pending' \in [Actor -> Maps(Nat, Entry)]
       /\ \A d \in Actor : \A i \in DOMAIN pending'[d] :
             /\ pending'[d][i].request.actor = d
             /\ pending'[d][i].request.incarnation = incarnation'[d]
             /\ pending'[d][i].request.id = i
             /\ i < nextRequest'[d]
  <2>1. incarnation' = incarnation /\ nextRequest' = nextRequest
    BY <1>1
  <2> QED
    BY <1>0, <1>6, <1>9, <1>10, <1>11, <2>1, PendingKeeps
<1>13. PICK q : q = pending[a][id].request
  OBVIOUS
<1>14. q \in Request /\ q.incarnation = incarnation[a] /\ q.actor = a
  <2>1. f[id] \in Entry
    BY <1>1, <1>2, <1>4
  <2> QED
    BY <1>0, <1>1, <1>2, <1>13, <2>1 DEF Entry, PastInv
<1>15. queue' \in Seq(Request) /\ Range(queue') = Range(queue) \cup {q}
  BY <1>0, <1>1, <1>13, <1>14, AppendFacts DEF TypeInv
<1>16. TypeInv'
  BY <1>0, <1>1, <1>12, <1>15 DEF TypeInv
<1>17. incarnation[a] \in Nat
  BY <1>0 DEF TypeInv
<1>18. PastInv'
  BY <1>0, <1>1, <1>12, <1>14, <1>15, <1>17 DEF PastInv
<1> QED
  BY <1>0, <1>1, <1>16, <1>18 DEF StateInv

LEMMA AbandonKeeps == \A a \in Actor : StateInv /\ Abandon(a) => StateInv'
<1> SUFFICES ASSUME NEW a \in Actor, StateInv, Abandon(a) PROVE StateInv'
  OBVIOUS
<1>0. TypeInv /\ RouterInv(router) /\ PastInv
  BY DEF StateInv
<1>1. PICK id \in DOMAIN pending[a] :
        /\ pending' = [pending EXCEPT ![a] = Restrict(@, DOMAIN @ \ {id})]
        /\ closing' = IF pending[a][id].request.kind = "decode"
                      THEN [closing EXCEPT ![a] = @ \cup pending[a][id].request.seats]
                      ELSE closing
        /\ UNCHANGED <<router, frozen, loaded, lookahead, batch, queue,
                       incarnation, nextRequest, binding, ended, inbox>>
  BY DEF Abandon, serverVars
<1>2. PICK f : f = pending[a]
  OBVIOUS
<1>3. pending \in [Actor -> Maps(Nat, Entry)] /\ f \in Maps(Nat, Entry)
  BY <1>0, <1>2 DEF TypeInv
<1>4. PICK E : E = DOMAIN f \ {id}
  OBVIOUS
<1>5. PICK p : p = Restrict(f, E)
  OBVIOUS
<1>6. /\ p \in Maps(Nat, Entry)
      /\ DOMAIN p = E
      /\ \A x \in E : p[x] = f[x]
  BY <1>3, <1>4, <1>5, RestrictMaps
<1>7. pending' = [pending EXCEPT ![a] = p]
  BY <1>1, <1>2, <1>3, <1>4, <1>5
<1>8. /\ DOMAIN p \subseteq DOMAIN pending[a]
      /\ \A x \in DOMAIN p : p[x].request = pending[a][x].request
  BY <1>2, <1>4, <1>6
<1>9. /\ pending' \in [Actor -> Maps(Nat, Entry)]
      /\ \A d \in Actor : \A i \in DOMAIN pending'[d] :
             /\ pending'[d][i].request.actor = d
             /\ pending'[d][i].request.incarnation = incarnation'[d]
             /\ pending'[d][i].request.id = i
             /\ i < nextRequest'[d]
  <2>1. incarnation' = incarnation /\ nextRequest' = nextRequest
    BY <1>1
  <2> QED
    BY <1>0, <1>6, <1>7, <1>8, <2>1, PendingKeeps
<1>10. closing' \in [Actor -> SUBSET Seat]
  <2>1. f[id] \in Entry
    BY <1>1, <1>2, <1>3, MapFacts
  <2>2. pending[a][id].request.seats \in SUBSET Seat
    BY <1>2, <2>1 DEF Entry, Request
  <2> QED
    BY <1>0, <1>1, <2>2 DEF TypeInv
<1>11. TypeInv'
  BY <1>0, <1>1, <1>9, <1>10 DEF TypeInv
<1>12. PastInv'
  BY <1>0, <1>1, <1>9 DEF PastInv
<1> QED
  BY <1>0, <1>1, <1>11, <1>12 DEF StateInv

LEMMA RestartKeeps == \A a \in Actor : StateInv /\ Restart(a) => StateInv'
<1> SUFFICES ASSUME NEW a \in Actor, StateInv, Restart(a) PROVE StateInv'
  OBVIOUS
<1>0. TypeInv /\ RouterInv(router) /\ PastInv
  BY DEF StateInv
<1>1. /\ incarnation' = [incarnation EXCEPT ![a] = @ + 1]
      /\ nextRequest' = [nextRequest EXCEPT ![a] = 1]
      /\ pending' = [pending EXCEPT ![a] = <<>>]
      /\ binding' = [binding EXCEPT ![a] = <<>>]
      /\ closing' = [closing EXCEPT ![a] = {}]
      /\ ended' = [ended EXCEPT ![a] = {}]
      /\ UNCHANGED <<router, frozen, loaded, lookahead, batch, queue, inbox>>
  BY DEF Restart, serverVars
<1>2. /\ <<>> \in Maps(Nat, Entry) /\ <<>> \in Maps(Seat, Nat)
      /\ DOMAIN <<>> = {}
  BY EmptyMap
<1>3. /\ incarnation \in [Actor -> Nat]
      /\ nextRequest \in [Actor -> Nat]
      /\ pending \in [Actor -> Maps(Nat, Entry)]
      /\ binding \in [Actor -> Maps(Seat, Nat)]
      /\ closing \in [Actor -> SUBSET Seat]
      /\ ended \in [Actor -> SUBSET Seat]
  BY <1>0 DEF TypeInv
<1>4. /\ incarnation' \in [Actor -> Nat]
      /\ nextRequest' \in [Actor -> Nat]
      /\ closing' \in [Actor -> SUBSET Seat]
      /\ ended' \in [Actor -> SUBSET Seat]
  BY <1>1, <1>3
<1>5. /\ pending' \in [Actor -> Maps(Nat, Entry)]
      /\ binding' \in [Actor -> Maps(Seat, Nat)]
  BY <1>1, <1>2, <1>3
<1>6. TypeInv'
  BY <1>0, <1>1, <1>4, <1>5 DEF TypeInv
<1>7. \A b \in Actor : incarnation[b] \in Nat /\ incarnation[b] <= incarnation'[b]
  BY <1>1, <1>3
<1>8. ASSUME NEW s \in Seq(Request), \A q \in Range(s) : q.incarnation <= incarnation[q.actor]
      PROVE  \A q \in Range(s) : q.incarnation <= incarnation'[q.actor]
  <2>1. TAKE q \in Range(s)
  <2>2. q \in Request
    BY RangeOfSeq
  <2>3. q.actor \in Actor /\ q.incarnation \in Nat
    BY <2>2 DEF Request
  <2>4. /\ incarnation[q.actor] \in Nat /\ incarnation'[q.actor] \in Nat
        /\ incarnation[q.actor] <= incarnation'[q.actor]
    BY <1>4, <1>7, <2>3
  <2>5. q.incarnation <= incarnation[q.actor]
    BY <1>8
  <2> QED
    BY <2>3, <2>4, <2>5
<1>9. /\ \A q \in Range(queue) : q.incarnation <= incarnation'[q.actor]
      /\ \A q \in Range(lookahead) : q.incarnation <= incarnation'[q.actor]
      /\ \A q \in Range(batch) : q.incarnation <= incarnation'[q.actor]
  BY <1>0, <1>8 DEF TypeInv, PastInv
<1>10. \A b \in Actor : router.generation[b] <= incarnation'[b]
  <2>1. router.generation \in [Actor -> Int]
    BY <1>0 DEF RouterInv, Router
  <2>2. TAKE b \in Actor
  <2>3. router.generation[b] \in Int /\ router.generation[b] <= incarnation[b]
    BY <1>0, <2>1 DEF PastInv
  <2>4. /\ incarnation[b] \in Nat /\ incarnation'[b] \in Nat
        /\ incarnation[b] <= incarnation'[b]
    BY <1>4, <1>7
  <2> QED
    BY <2>3, <2>4
<1>11. ASSUME NEW b \in Actor, NEW id \in DOMAIN pending'[b]
       PROVE  /\ pending'[b][id].request.actor = b
              /\ pending'[b][id].request.incarnation = incarnation'[b]
              /\ pending'[b][id].request.id = id
              /\ id < nextRequest'[b]
  <2>1. b # a
    BY <1>1, <1>2, <1>3, <1>11
  <2>2. pending'[b] = pending[b] /\ incarnation'[b] = incarnation[b]
        /\ nextRequest'[b] = nextRequest[b]
    BY <1>1, <1>3, <2>1
  <2> QED
    BY <1>0, <1>11, <2>2 DEF PastInv
<1>12. PastInv'
  BY <1>1, <1>9, <1>10, <1>11 DEF PastInv
<1> QED
  BY <1>0, <1>1, <1>6, <1>12 DEF StateInv

LEMMA ClientKeeps == \A a \in Actor : StateInv /\ Client(a) => StateInv'
<1> SUFFICES ASSUME NEW a \in Actor, StateInv, Client(a) PROVE StateInv'
  OBVIOUS
<1>1. Idle(a) \subseteq Seat /\ Version \subseteq Nat /\ Unbound \in Nat
  BY RecurrentAssumption DEF Idle, Version, Unbound
<1>2. "decode" \in Kind /\ "release" \in Kind /\ "abort" \in Kind
  BY DEF Kind
<1>3. CASE SubmitFirst(a)
  <2>1. PICK ss \in SUBSET Seat : Submit(a, "decode", ss, Unbound)
    BY <1>1, <1>3 DEF SubmitFirst
  <2> QED
    BY <1>1, <1>2, <2>1, SubmitKeeps
<1>4. CASE SubmitNext(a)
  <2>1. PICK ss \in SUBSET Seat, v \in Nat : Submit(a, "decode", ss, v)
    BY <1>1, <1>4 DEF SubmitNext
  <2> QED
    BY <1>2, <2>1, SubmitKeeps
<1>5. CASE SubmitRelease(a)
  <2>1. PICK ss \in SUBSET Seat, v \in Nat : Submit(a, "release", ss, v)
    BY <1>1, <1>5 DEF SubmitRelease
  <2> QED
    BY <1>2, <2>1, SubmitKeeps
<1>6. CASE SubmitAbort(a)
  <2>1. PICK ss \in SUBSET Seat : Submit(a, "abort", ss, Unbound)
    BY <1>1, <1>6 DEF SubmitAbort
  <2> QED
    BY <1>1, <1>2, <2>1, SubmitKeeps
<1> QED
  BY <1>3, <1>4, <1>5, <1>6, ReceiveKeeps, RetryKeeps, AbandonKeeps, RestartKeeps
  DEF Client

LEMMA InitState == Init => StateInv
<1> SUFFICES ASSUME Init PROVE StateInv
  OBVIOUS
<1>1. /\ router.current = 1
      /\ router.resident = [v \in {1} |-> 0]
      /\ router.inFlight = 0
      /\ router.sequences = <<>>
      /\ router.generation = [a \in Actor |-> -1]
      /\ router.tombstones = <<>>
      /\ router.replays = <<>>
      /\ RouterOf(router)
  BY DEF Init, RouterOf
<1>2. /\ queue = <<>> /\ lookahead = <<>> /\ batch = <<>>
      /\ frozen \in FrozenRoutes /\ loaded = ~frozen
      /\ incarnation = [a \in Actor |-> 0]
      /\ nextRequest = [a \in Actor |-> 1]
      /\ pending = [a \in Actor |-> <<>>]
      /\ inbox = [a \in Actor |-> <<>>]
      /\ binding = [a \in Actor |-> <<>>]
      /\ closing = [a \in Actor |-> {}]
      /\ ended = [a \in Actor |-> {}]
  BY DEF Init
<1>3. /\ <<>> \in Seq(Request) /\ <<>> \in Seq(Response) /\ <<>> \in Seq(Tombstone)
      /\ Range(<<>>) = {}
  BY EmptyFacts
<1>4. /\ <<>> \in Maps(Nat, Entry) /\ <<>> \in Maps(Seat, Nat) /\ <<>> \in Maps(Key, Nat)
      /\ DOMAIN <<>> = {}
  BY EmptyMap
<1>5. TypeInv
  BY <1>2, <1>3, <1>4, RecurrentAssumption DEF TypeInv
<1>6. router \in Router
  <2>1. router.resident \in Maps(Nat, Int)
    <3>1. PICK f : f = [v \in {1} |-> 0]
      OBVIOUS
    <3>2. DOMAIN f \subseteq Nat /\ f = [v \in DOMAIN f |-> f[v]]
          /\ \A v \in DOMAIN f : f[v] \in Int
      BY <3>1
    <3> QED
      BY <1>1, <3>1, <3>2, MapFacts
  <2>2. router.generation \in [Actor -> Int] /\ router.current \in Nat /\ router.inFlight \in Int
    BY <1>1
  <2> QED
    BY <1>1, <1>3, <1>4, <2>1, <2>2 DEF Router, RouterOf
<1>7. Balanced(router)
  <2>1. IsFiniteSet(DOMAIN router.sequences) /\ Cardinality(DOMAIN router.sequences) = 0
    BY <1>1, <1>4, FS_EmptySet
  <2>2. DOMAIN router.resident = {1} /\ router.resident[1] = 0
    BY <1>1
  <2>3. \A v : Pinned(router, v) = {}
    BY <1>1, <1>4 DEF Pinned
  <2>4. IsFiniteSet({1}) /\ Cardinality({1}) = 1
    BY FS_Singleton
  <2>5. Cardinality({}) = 0
    BY FS_EmptySet
  <2>6. MaxResident >= 1 /\ MaxInFlight >= 0 /\ MaxSequences >= 0
    BY RecurrentAssumption
  <2> QED
    BY <1>1, <2>1, <2>2, <2>3, <2>4, <2>5, <2>6 DEF Balanced
<1>8. Owned(router)
  BY <1>1, <1>3, <1>4 DEF Owned
<1>9. PastInv
  BY <1>1, <1>2, <1>3, <1>4 DEF PastInv
<1> QED
  BY <1>5, <1>6, <1>7, <1>8, <1>9 DEF StateInv, RouterInv

LEMMA NextState == StateInv /\ [Next]_vars => StateInv'
<1> SUFFICES ASSUME StateInv, [Next]_vars PROVE StateInv'
  OBVIOUS
<1>1. CASE UNCHANGED vars
  BY <1>1 DEF StateInv, TypeInv, PastInv, vars, serverVars, actorVars
<1>2. CASE \E a \in Actor : Client(a)
  BY <1>2, ClientKeeps
<1> QED
  BY <1>1, <1>2, LoadRouteKeeps, PublishKeeps, DrainKeeps, ServeReplayKeeps,
     ServeDecodeKeeps, ServeReleaseKeeps, ServeAbortKeeps DEF Next, Server

LEMMA StateHolds == Spec => []StateInv
BY InitState, NextState, PTL DEF Spec

(***************************************************************************)
(* The account of leases, and who holds them                               *)
(***************************************************************************)

LEMMA MinOfTwo ==
    ASSUME NEW x \in Int, NEW y \in Int, NEW n \in Int, n <= x, n <= y
    PROVE  n <= Min({x, y})
<1>1. \E z \in {x, y} : \A u \in {x, y} : z <= u
  OBVIOUS
<1>2. Min({x, y}) \in {x, y}
  BY <1>1 DEF Min
<1> QED
  BY <1>2

LEMMA BalancedPool == StateInv => PoolIsBalanced
<1> SUFFICES ASSUME StateInv PROVE PoolIsBalanced
  OBVIOUS
<1>1. router \in Router /\ Balanced(router)
  BY DEF StateInv, RouterInv
<1>2. \A v : HeldBy(v) = Pinned(router, v)
  BY DEF HeldBy, Pinned
<1>3. DOMAIN router.resident = {router.current} \cup Range(router.sequences)
  <2>1. \A v : v \in Range(router.sequences) <=> Pinned(router, v) # {}
    BY DEF Range, Pinned
  <2> QED
    BY <1>1, <2>1 DEF Balanced
<1>4. \A v \in DOMAIN router.resident : router.resident[v] = Cardinality(HeldBy(v))
  BY <1>1, <1>2 DEF Balanced
<1>5. router.inFlight <= Min({MaxInFlight, MaxSequences})
  <2>1. MaxInFlight \in Int /\ MaxSequences \in Int
    BY RecurrentAssumption
  <2>2. router.inFlight \in Int
    BY <1>1 DEF Router
  <2> QED
    BY <1>1, <2>1, <2>2, MinOfTwo DEF Balanced
<1> QED
  BY <1>1, <1>3, <1>4, <1>5 DEF PoolIsBalanced, Balanced

\* The pool's counts are those of the sequences the router holds, residents are
\* the current snapshot and the pinned ones, and no capacity is exceeded:
\* whatever requests were late, repeated, reordered or of a dead process.
THEOREM LeasesBalance == Spec => []PoolIsBalanced
BY StateHolds, BalancedPool, PTL

LEMMA OwnedOnce == StateInv => OneOwner
<1> SUFFICES ASSUME StateInv PROVE OneOwner
  OBVIOUS
<1>1. router \in Router /\ Owned(router)
  BY DEF StateInv, RouterInv
<1>2. ASSUME NEW k \in DOMAIN router.sequences
      PROVE  TombstoneOf(router, k) = {} /\ k.incarnation = router.generation[k.actor]
  BY <1>1 DEF Owned, TombstoneOf
<1>3. ASSUME NEW k \in {t.key : t \in Range(router.tombstones)}
      PROVE  Cardinality(TombstoneOf(router, k)) = 1
  <2>1. PICK t \in Range(router.tombstones) : t.key = k
    OBVIOUS
  <2>2. TombstoneOf(router, k) = {t.artifact}
    BY <1>1, <2>1 DEF Owned, TombstoneOf
  <2> QED
    BY <2>2, FS_Singleton
<1>4. \A a \in Actor : router.generation[a] <= incarnation[a]
  BY DEF StateInv, PastInv
<1> QED
  BY <1>2, <1>3, <1>4 DEF OneOwner

\* A sequence is held or remembered as released, never both and never twice, and
\* only the newest process of its actor that was heard of holds anything.
THEOREM SequencesHaveOneOwner == Spec => []OneOwner
BY StateHolds, OwnedOnce, PTL

(***************************************************************************)
(* What an actor asked to be cleaned up stays released                     *)
(***************************************************************************)

\* of the process that runs
Mine(q) == q.incarnation = incarnation[q.actor]
Cleanup(q) == q.kind # "decode"

\* Nothing decodes these seats of the running process any more, and nothing will.
Closed(a, ss) ==
    /\ ss \subseteq closing[a]
    /\ \A id \in DOMAIN pending[a] :
          ~Cleanup(pending[a][id].request) =>
              pending[a][id].request.seats \cap ss = {}

\* the requests on the way to the router
OnTheWay == Range(batch) \cup Range(lookahead) \cup Range(queue)

Undecoded(a, ss) ==
    \A q \in OnTheWay :
        q.actor = a /\ ~Cleanup(q) /\ Mine(q) => q.seats \cap ss = {}

Unheld(a, ss) == \A s \in ss : KeyOf(a, s) \notin DOMAIN router.sequences

Done(a, ss) == Closed(a, ss) /\ Undecoded(a, ss) /\ Unheld(a, ss)

\* y is no decode of a sequence that x, of the same process, cleans up
Apart(x, y) ==
    Cleanup(x) /\ ~Cleanup(y) /\ x.actor = y.actor /\ x.incarnation = y.incarnation
        => x.seats \cap y.seats = {}

\* No decode comes after a cleanup of its sequence.
OrderInv ==
    /\ \A i, j \in DOMAIN batch : i < j => Apart(batch[i], batch[j])
    /\ \A i, j \in DOMAIN lookahead : i < j => Apart(lookahead[i], lookahead[j])
    /\ \A i, j \in DOMAIN queue : i < j => Apart(queue[i], queue[j])
    /\ \A x \in Range(batch), y \in Range(lookahead) \cup Range(queue) : Apart(x, y)
    /\ \A x \in Range(lookahead), y \in Range(queue) : Apart(x, y)

ClosedInv ==
    /\ \A q \in OnTheWay : Cleanup(q) /\ Mine(q) => Closed(q.actor, q.seats)
    /\ \A a \in Actor : \A id \in DOMAIN pending[a] :
          Cleanup(pending[a][id].request) =>
              Closed(a, pending[a][id].request.seats)

DoneInv ==
    /\ \A p \in Range(router.replays) :
          Cleanup(p) /\ p.ok /\ Mine(p) => Done(p.actor, p.seats)
    /\ \A a \in Actor : \A p \in Range(inbox[a]) :
          Cleanup(p) /\ p.ok /\ Mine(p) => Done(a, p.seats)
    /\ \A a \in Actor : Done(a, ended[a])

\* Answers are of processes that were started, in the queue of their actor.
AnswerInv ==
    /\ \A p \in Range(router.replays) : p.incarnation <= incarnation[p.actor]
    /\ \A a \in Actor : \A p \in Range(inbox[a]) :
          p.actor = a /\ p.incarnation <= incarnation[a]

LoadedInv == ~frozen => loaded /\ Len(lookahead) <= 1

CleanInv == LoadedInv /\ AnswerInv /\ (~frozen => OrderInv /\ ClosedInv /\ DoneInv)

\* A request that was stamped asks for the same.
LEMMA SameRequest ==
    ASSUME NEW x, NEW y, SameBut(x, y)
    PROVE  /\ Cleanup(x) <=> Cleanup(y)
           /\ Mine(x) <=> Mine(y)
           /\ x.actor = y.actor /\ x.seats = y.seats /\ x.incarnation = y.incarnation
           /\ KeysOf(x) = KeysOf(y)
BY DEF SameBut, Cleanup, Mine, KeysOf

\* Every request on the way is typed.
LEMMA OnTheWayTyped == TypeInv => \A q \in OnTheWay : q \in Request
<1> SUFFICES ASSUME TypeInv PROVE \A q \in OnTheWay : q \in Request
  OBVIOUS
<1>1. batch \in Seq(Request) /\ lookahead \in Seq(Request) /\ queue \in Seq(Request)
  BY DEF TypeInv
<1>2. /\ \A q \in Range(batch) : q \in Request
      /\ \A q \in Range(lookahead) : q \in Request
      /\ \A q \in Range(queue) : q \in Request
  BY <1>1, RangeOfSeq
<1> QED
  BY <1>2 DEF OnTheWay

\* What is cleaned up stays so in the step.
StaysDone == \A b \in Actor : \A ss : Done(b, ss) => Done(b, ss)'

\* No request is new.
NothingNew == \A y \in OnTheWay' : \E x \in OnTheWay : SameBut(y, x)

\* A step of the server, which serves, keeps or stamps requests and may bind the
\* sequences of a decode it serves, undoes no cleanup.
LEMMA ServerCleans ==
    ASSUME TypeInv, ClosedInv, UNCHANGED actorVars, NothingNew,
           \A k \in DOMAIN router'.sequences :
              \/ k \in DOMAIN router.sequences
              \/ \E q \in OnTheWay : ~Cleanup(q) /\ k \in KeysOf(q)
    PROVE  ClosedInv' /\ StaysDone
<1>1. /\ incarnation' = incarnation /\ pending' = pending /\ closing' = closing
  BY DEF actorVars
<1>2. ASSUME NEW a \in Actor, NEW ss PROVE Closed(a, ss)' <=> Closed(a, ss)
  BY <1>1 DEF Closed, Cleanup
<1>3. ASSUME NEW q PROVE Mine(q)' <=> Mine(q)
  BY <1>1 DEF Mine
<1>4. ASSUME NEW y, y \in OnTheWay', Cleanup(y), Mine(y)'
      PROVE  Closed(y.actor, y.seats)'
  <2>1. PICK x \in OnTheWay : SameBut(y, x)
    BY <1>4 DEF NothingNew
  <2>2. Cleanup(x) /\ Mine(x) /\ x.actor = y.actor /\ x.seats = y.seats
    BY <1>3, <1>4, <2>1, SameRequest
  <2>3. Closed(y.actor, y.seats)
    BY <2>2 DEF ClosedInv
  <2>4. y.actor \in Actor
    BY <2>2, OnTheWayTyped DEF Request
  <2> QED
    BY <1>2, <2>3, <2>4
<1>5. \A a \in Actor : \A id \in DOMAIN pending[a] :
         Cleanup(pending[a][id].request) => Closed(a, pending[a][id].request.seats)
  BY DEF ClosedInv
<1>6. ClosedInv'
  <2>1. \A q \in OnTheWay' : Cleanup(q) /\ Mine(q)' => Closed(q.actor, q.seats)'
    BY <1>4
  <2>2. (\A a \in Actor : \A id \in DOMAIN pending[a] :
         Cleanup(pending[a][id].request) => Closed(a, pending[a][id].request.seats))'
    BY <1>1, <1>5 DEF Closed, Cleanup
  <2> QED
    BY <2>1, <2>2 DEF ClosedInv, Cleanup
<1>7. ASSUME NEW a \in Actor, NEW ss, Done(a, ss) PROVE Done(a, ss)'
  <2>0. Closed(a, ss) /\ Undecoded(a, ss) /\ Unheld(a, ss)
    BY <1>7 DEF Done
  <2>1. Undecoded(a, ss)'
    <3>1. ASSUME NEW y, y \in OnTheWay', y.actor = a, ~Cleanup(y), Mine(y)'
          PROVE  y.seats \cap ss = {}
      <4>1. PICK x \in OnTheWay : SameBut(y, x)
        BY <3>1 DEF NothingNew
      <4>2. ~Cleanup(x) /\ Mine(x) /\ x.actor = a /\ x.seats = y.seats
        BY <1>3, <3>1, <4>1, SameRequest
      <4> QED
        BY <2>0, <4>2 DEF Undecoded
    <3> QED
      BY <3>1 DEF Undecoded, Cleanup
  <2>2. Unheld(a, ss)'
    <3>1. ASSUME NEW s \in ss PROVE KeyOf(a, s) \notin DOMAIN router'.sequences
      <4>1. KeyOf(a, s) \notin DOMAIN router.sequences
        BY <2>0 DEF Unheld
      <4>2. ASSUME NEW q \in OnTheWay, ~Cleanup(q), KeyOf(a, s) \in KeysOf(q) PROVE FALSE
        <5>1. q.actor = a /\ q.incarnation = incarnation[a] /\ s \in q.seats
          BY <4>2 DEF KeysOf, KeyOf
        <5>2. q.seats \cap ss = {}
          BY <2>0, <4>2, <5>1 DEF Undecoded, Mine
        <5> QED
          BY <5>1, <5>2
      <4> QED
        BY <4>1, <4>2
    <3>2. \A s \in ss : KeyOf(a, s)' = KeyOf(a, s)
      BY <1>1 DEF KeyOf
    <3> QED
      BY <3>1, <3>2 DEF Unheld
  <2> QED
    BY <1>2, <2>0, <2>1, <2>2 DEF Done
<1> QED
  BY <1>6, <1>7 DEF StaysDone

\* Serving the next request leaves the order of the others.
LEMMA ServedOrder ==
    ASSUME TypeInv, batch # <<>>, OrderInv, batch' = Tail(batch),
           lookahead' = lookahead, queue' = queue
    PROVE  /\ OrderInv'
           /\ OnTheWay' \subseteq OnTheWay
           /\ Head(batch) \in OnTheWay
           /\ \A y \in OnTheWay' : Apart(Head(batch), y)
<1>1. batch \in Seq(Request)
  BY DEF TypeInv
<1>2. /\ Range(Tail(batch)) \subseteq Range(batch)
      /\ Head(batch) \in Range(batch)
      /\ Len(batch) \in Nat /\ Len(batch) # 0
      /\ Len(Tail(batch)) = Len(batch) - 1
      /\ DOMAIN batch = 1 .. Len(batch)
      /\ DOMAIN Tail(batch) = 1 .. Len(Tail(batch))
      /\ \A i \in 1 .. Len(Tail(batch)) : Tail(batch)[i] = batch[i + 1]
      /\ Head(batch) = batch[1]
  BY <1>1, TailFacts, EmptySeq, HeadTailProperties
<1>3. PICK t : t = batch'
  OBVIOUS
<1>4. /\ Range(t) \subseteq Range(batch)
      /\ DOMAIN t = 1 .. Len(batch) - 1
      /\ \A i \in DOMAIN t : t[i] = batch[i + 1] /\ i + 1 \in DOMAIN batch
                             /\ 1 < i + 1
  BY <1>2, <1>3
<1>5. \A i, j \in DOMAIN t : i < j => Apart(t[i], t[j])
  <2>1. TAKE i, j \in DOMAIN t
  <2>2. HAVE i < j
  <2>3. i + 1 \in DOMAIN batch /\ j + 1 \in DOMAIN batch /\ i + 1 < j + 1
    BY <1>4, <2>2
  <2>4. Apart(batch[i + 1], batch[j + 1])
    BY <2>3 DEF OrderInv
  <2> QED
    BY <1>4, <2>4
<1>6. \A y \in Range(t) : Apart(Head(batch), y)
  <2>1. TAKE y \in Range(t)
  <2>2. PICK i \in DOMAIN t : y = t[i]
    BY DEF Range
  <2>3. 1 \in DOMAIN batch /\ i + 1 \in DOMAIN batch /\ 1 < i + 1
    BY <1>2, <1>4
  <2>4. Apart(batch[1], batch[i + 1])
    BY <2>3 DEF OrderInv
  <2> QED
    BY <1>2, <1>4, <2>2, <2>4
<1>7. \A y \in Range(lookahead) \cup Range(queue) : Apart(Head(batch), y)
  BY <1>2 DEF OrderInv
<1>8. OnTheWay' = Range(t) \cup Range(lookahead) \cup Range(queue)
  BY <1>3 DEF OnTheWay
<1>9. OrderInv'
  <2>1. \A x \in Range(t), y \in Range(lookahead) \cup Range(queue) : Apart(x, y)
    BY <1>4 DEF OrderInv
  <2> QED
    BY <1>3, <1>5, <2>1 DEF OrderInv, Apart, Cleanup
<1> QED
  BY <1>2, <1>4, <1>6, <1>7, <1>8, <1>9 DEF OnTheWay

\* What an answer may say: what one in the cache says, or that the request that
\* was just served, a cleanup, is done.
Settled(r, answer) ==
    \/ answer \in Range(router.replays)
    \/ /\ Cleanup(answer) /\ answer.ok
       /\ Cleanup(Head(batch))
       /\ answer.actor = Head(batch).actor
       /\ answer.incarnation = Head(batch).incarnation
       /\ answer.seats = Head(batch).seats
       /\ KeysOf(Head(batch)) \cap DOMAIN r.sequences = {}
    \/ ~Cleanup(answer) \/ ~answer.ok

LEMMA ReplyCleans ==
    ASSUME StateInv, CleanInv, NEW r, RouterInv(r), NEW answer \in Response,
           batch # <<>>, Reply(r, answer),
           Range(r.replays) \subseteq Range(router.replays),
           \A k \in DOMAIN r.sequences :
              \/ k \in DOMAIN router.sequences
              \/ ~Cleanup(Head(batch)) /\ k \in KeysOf(Head(batch)),
           answer.incarnation <= incarnation[answer.actor],
           Settled(r, answer)
    PROVE  CleanInv'
<1>0. TypeInv /\ RouterInv(router) /\ PastInv
  BY DEF StateInv
<1>1. /\ router' = [r EXCEPT !.replays = Stored(r.replays, answer)]
      /\ inbox' = [inbox EXCEPT ![answer.actor] = Append(@, answer)]
      /\ batch' = Tail(batch)
      /\ UNCHANGED <<frozen, loaded, lookahead, queue, actorVars>>
  BY DEF Reply
<1>2. r \in Router /\ r.replays \in Seq(Response)
  BY DEF RouterInv, Router
<1>3. /\ router'.sequences = r.sequences
      /\ router'.replays = Stored(r.replays, answer)
  BY <1>1, <1>2 DEF Router
<1>4. \A p \in Range(router'.replays) : p = answer \/ p \in Range(router.replays)
  BY <1>2, <1>3, StoredFacts
<1>5. answer.actor \in Actor /\ inbox \in [Actor -> Seq(Response)]
  BY <1>0 DEF Response, TypeInv
<1>6. \A a \in Actor : \A p \in Range(inbox'[a]) :
         p \in Range(inbox[a]) \/ (p = answer /\ a = answer.actor)
  <2>1. TAKE a \in Actor
  <2>2. CASE a = answer.actor
    <3>1. Range(Append(inbox[a], answer)) = Range(inbox[a]) \cup {answer}
      BY <1>5, AppendFacts
    <3> QED
      BY <1>1, <1>5, <2>2, <3>1
  <2>3. CASE a # answer.actor
    BY <1>1, <1>5, <2>3
  <2> QED
    BY <2>2, <2>3
<1>7. incarnation' = incarnation /\ ended' = ended
  BY <1>1 DEF actorVars
<1>8. LoadedInv'
  BY <1>1 DEF CleanInv, LoadedInv
<1>9. AnswerInv'
  BY <1>4, <1>6, <1>7 DEF CleanInv, AnswerInv
<1>10. ASSUME ~frozen PROVE OrderInv' /\ ClosedInv' /\ DoneInv'
  <2>0. OrderInv /\ ClosedInv /\ DoneInv
    BY <1>10 DEF CleanInv
  <2>1. /\ OrderInv'
        /\ OnTheWay' \subseteq OnTheWay
        /\ Head(batch) \in OnTheWay
        /\ \A y \in OnTheWay' : Apart(Head(batch), y)
    BY <1>0, <1>1, <2>0, ServedOrder
  <2>2. /\ ClosedInv'
        /\ \A a \in Actor : \A ss : Done(a, ss) => Done(a, ss)'
    <3>1. NothingNew
      BY <2>1 DEF NothingNew, SameBut
    <3>2. \A k \in DOMAIN router'.sequences :
              \/ k \in DOMAIN router.sequences
              \/ \E q \in OnTheWay : ~Cleanup(q) /\ k \in KeysOf(q)
      BY <1>3, <2>1
    <3>3. UNCHANGED actorVars
      BY <1>1
    <3> QED
      BY <1>0, <2>0, <3>1, <3>2, <3>3, ServerCleans DEF StaysDone
  <2>3. ASSUME Cleanup(answer), answer.ok, Mine(answer)
        PROVE  Done(answer.actor, answer.seats)'
    <3>1. CASE answer \in Range(router.replays)
      <4>1. Done(answer.actor, answer.seats)
        BY <2>0, <2>3, <3>1 DEF DoneInv
      <4> QED
        BY <1>5, <2>2, <4>1
    <3>2. CASE /\ Cleanup(Head(batch))
               /\ answer.actor = Head(batch).actor
               /\ answer.incarnation = Head(batch).incarnation
               /\ answer.seats = Head(batch).seats
               /\ KeysOf(Head(batch)) \cap DOMAIN r.sequences = {}
      <4>1. Mine(Head(batch))
        BY <2>3, <3>2 DEF Mine
      <4>2. Closed(answer.actor, answer.seats)
        BY <2>0, <2>1, <3>2, <4>1 DEF ClosedInv
      <4>3. Closed(answer.actor, answer.seats)'
        BY <1>1, <4>2 DEF Closed, actorVars, Cleanup
      <4>4. Undecoded(answer.actor, answer.seats)'
        <5>1. ASSUME NEW y, y \in OnTheWay', y.actor = answer.actor, ~Cleanup(y), Mine(y)
              PROVE  y.seats \cap answer.seats = {}
          <6>1. Apart(Head(batch), y)
            BY <2>1, <5>1
          <6>2. y.incarnation = Head(batch).incarnation
            BY <3>2, <4>1, <5>1 DEF Mine
          <6> QED
            BY <3>2, <5>1, <6>1, <6>2 DEF Apart
        <5> QED
          BY <1>7, <5>1 DEF Undecoded, Mine, Cleanup
      <4>5. Unheld(answer.actor, answer.seats)'
        <5>1. ASSUME NEW s \in answer.seats
              PROVE  KeyOf(answer.actor, s) \notin DOMAIN r.sequences
          <6>1. KeyOf(answer.actor, s) \in KeysOf(Head(batch))
            BY <2>3, <3>2, <5>1 DEF KeyOf, KeysOf, Mine
          <6> QED
            BY <3>2, <6>1
        <5> QED
          BY <1>3, <1>7, <5>1 DEF Unheld, KeyOf
      <4> QED
        BY <4>3, <4>4, <4>5 DEF Done
    <3> QED
      BY <2>3, <3>1, <3>2 DEF Settled
  <2>4. Mine(answer)' <=> Mine(answer)
    BY <1>7 DEF Mine
  <2>5. DoneInv'
    <3>1. ASSUME NEW p, p \in Range(router'.replays), Cleanup(p), p.ok, Mine(p)'
          PROVE  Done(p.actor, p.seats)'
      <4>1. CASE p = answer
        BY <2>3, <2>4, <3>1, <4>1
      <4>2. CASE p \in Range(router.replays)
        <5>1. Mine(p)
          BY <1>7, <3>1 DEF Mine
        <5>2. Done(p.actor, p.seats)
          BY <2>0, <3>1, <4>2, <5>1 DEF DoneInv
        <5>3. p \in Response
          <6>1. router.replays \in Seq(Response)
            BY <1>0 DEF RouterInv, Router
          <6> QED
            BY <4>2, <6>1, RangeOfSeq
        <5>4. p.actor \in Actor
          BY <5>3 DEF Response
        <5> QED
          BY <2>2, <5>2, <5>4
      <4> QED
        BY <1>4, <3>1, <4>1, <4>2
    <3>2. ASSUME NEW a \in Actor, NEW p, p \in Range(inbox'[a]),
                 Cleanup(p), p.ok, Mine(p)'
          PROVE  Done(a, p.seats)'
      <4>1. CASE p = answer /\ a = answer.actor
        BY <2>3, <2>4, <3>2, <4>1
      <4>2. CASE p \in Range(inbox[a])
        <5>1. Mine(p)
          BY <1>7, <3>2 DEF Mine
        <5>2. Done(a, p.seats)
          BY <2>0, <3>2, <4>2, <5>1 DEF DoneInv
        <5> QED
          BY <2>2, <5>2
      <4> QED
        BY <1>6, <3>2, <4>1, <4>2
    <3>3. ASSUME NEW a \in Actor PROVE Done(a, ended[a])'
      <4>1. PICK ss : ss = ended[a]
        OBVIOUS
      <4>2. Done(a, ss)'
        BY <2>0, <2>2, <4>1 DEF DoneInv
      <4> QED
        BY <1>7, <4>1, <4>2 DEF Done, Closed, Undecoded, Unheld
    <3> QED
      BY <3>1, <3>2, <3>3 DEF DoneInv, Cleanup
  <2> QED
    BY <2>1, <2>2, <2>5
<1> QED
  BY <1>1, <1>8, <1>9, <1>10 DEF CleanInv

\* Admitting the request's own generation adds no lease and no answer.
LEMMA AdmittedForLess ==
    ASSUME StateInv, NEW q \in Request
    PROVE  /\ DOMAIN AdmittedFor(router, q).sequences \subseteq DOMAIN router.sequences
           /\ Range(AdmittedFor(router, q).replays) \subseteq Range(router.replays)
<1>1. PICK f : f = [a \in {q.actor} |-> q.incarnation]
  OBVIOUS
<1>2. f \in Generations
  BY <1>1, OneGeneration
<1>3. AdmittedFor(router, q) = Admitted(router, f)
  BY <1>1 DEF AdmittedFor
<1>4. /\ Admitted(router, f).replays = Only(router.replays, Current(router, f))
      /\ DOMAIN Admitted(router, f).sequences
            = DOMAIN router.sequences \ StaleKeys(router, f)
  BY <1>2, AdmittedKeeps DEF StateInv
<1>5. router.replays \in Seq(Response)
  BY DEF StateInv, RouterInv, Router
<1>6. Range(Only(router.replays, Current(router, f))) \subseteq Range(router.replays)
  BY <1>5, OnlyFacts
<1> QED
  BY <1>3, <1>4, <1>6

LEMMA ServeReplayCleans == StateInv /\ CleanInv /\ ServeReplay => CleanInv'
<1> SUFFICES ASSUME StateInv, CleanInv, ServeReplay PROVE CleanInv'
  OBVIOUS
<1>1. batch # <<>>
  BY DEF ServeReplay
<1>2. PICK answer \in Cached(router, Head(batch)) : Reply(router, answer)
  BY DEF ServeReplay
<1>3. answer \in Range(router.replays)
  BY <1>2 DEF Cached
<1>4. answer \in Response
  <2>1. router.replays \in Seq(Response)
    BY DEF StateInv, RouterInv, Router
  <2> QED
    BY <1>3, <2>1, RangeOfSeq
<1>5. answer.incarnation <= incarnation[answer.actor]
  BY <1>3 DEF CleanInv, AnswerInv
<1>6. RouterInv(router) /\ Settled(router, answer)
  BY <1>3 DEF StateInv, Settled
<1> QED
  BY <1>1, <1>2, <1>4, <1>5, <1>6, ReplyCleans

\* A refusal changes nothing but the answers.
LEMMA RefusalCleans ==
    ASSUME StateInv, CleanInv, batch # <<>>,
           NEW r \in {router, AdmittedFor(router, Head(batch))},
           Reply(r, Error(Head(batch)))
    PROVE  CleanInv'
<1>1. Head(batch) \in Request /\ Started(Head(batch))
  BY HeadFacts
<1>2. RouterInv(r)
  BY <1>1, AdmittedForFacts DEF StateInv
<1>3. /\ DOMAIN r.sequences \subseteq DOMAIN router.sequences
      /\ Range(r.replays) \subseteq Range(router.replays)
  BY <1>1, AdmittedForLess
<1>4. PICK answer : answer = Error(Head(batch))
  OBVIOUS
<1>5. /\ answer \in Response
      /\ ~answer.ok
      /\ answer.actor = Head(batch).actor
      /\ answer.incarnation = Head(batch).incarnation
  <2>1. answer \in Response
    BY <1>1, <1>4, AnswerFacts
  <2> QED
    BY <1>4, <2>1 DEF Error, Answer
<1>6. answer.incarnation <= incarnation[answer.actor] /\ Settled(r, answer)
  BY <1>1, <1>5 DEF Started, Settled
<1>7. Reply(r, answer)
  BY <1>4
<1> QED
  BY <1>2, <1>3, <1>5, <1>6, <1>7, ReplyCleans

LEMMA ServeDecodeCleans == StateInv /\ CleanInv /\ ServeDecode => CleanInv'
<1> SUFFICES ASSUME StateInv, CleanInv, ServeDecode PROVE CleanInv'
  OBVIOUS
<1>1. batch # <<>> /\ Head(batch).kind = "decode"
  BY DEF ServeDecode, Serve
<1>2. PICK q : q = Head(batch)
  OBVIOUS
<1>3. q \in Request /\ Started(q)
  BY <1>1, <1>2, HeadFacts
<1>4. PICK r : r = AdmittedFor(router, q)
  OBVIOUS
<1>5. /\ RouterInv(r) /\ r.current = router.current
      /\ ~Stale(router, q) => r.generation[q.actor] = q.incarnation
      /\ DOMAIN r.sequences \subseteq DOMAIN router.sequences
      /\ Range(r.replays) \subseteq Range(router.replays)
  BY <1>3, <1>4, AdmittedForFacts, AdmittedForLess
<1>6. \/ /\ Stale(router, q)
         /\ Reply(router, Error(q))
      \/ /\ ~Stale(router, q) /\ q.expected = Unbound /\ CanBind(r, q)
         /\ Reply(BoundTo(r, KeysOf(q)), Answer(q, TRUE, r.current))
      \/ /\ ~Stale(router, q) /\ q.expected # Unbound /\ Holds(r, q)
         /\ Reply(r, Answer(q, TRUE, q.expected))
      \/ /\ ~Stale(router, q)
         /\ IF q.expected = Unbound THEN ~CanBind(r, q) ELSE ~Holds(r, q)
         /\ Reply(r, Error(q))
  BY <1>2, <1>4 DEF ServeDecode
<1>7. ~Cleanup(q)
  BY <1>1, <1>2 DEF Cleanup
<1>8. ASSUME NEW v \in Nat, NEW n
      PROVE  /\ Answer(q, TRUE, v) \in Response
             /\ Answer(q, TRUE, v).incarnation <= incarnation[Answer(q, TRUE, v).actor]
             /\ Settled(n, Answer(q, TRUE, v))
  <2>1. Answer(q, TRUE, v) \in Response
    BY <1>3, AnswerFacts
  <2>2. PICK answer : answer = Answer(q, TRUE, v)
    OBVIOUS
  <2>3. /\ answer.actor = q.actor /\ answer.incarnation = q.incarnation
        /\ answer.kind = q.kind
    BY <2>2 DEF Answer
  <2>4. answer.incarnation <= incarnation[answer.actor]
    BY <1>3, <2>3 DEF Started
  <2>5. Settled(n, answer)
    BY <1>7, <2>3 DEF Settled, Cleanup
  <2> QED
    BY <2>1, <2>2, <2>4, <2>5
<1>9. q.expected \in Nat /\ r.current \in Nat
  BY <1>3, <1>5 DEF Request, RouterInv, Router
<1>10. CASE Reply(router, Error(q))
  BY <1>1, <1>2, <1>10, RefusalCleans
<1>11. CASE Reply(r, Error(q))
  BY <1>1, <1>2, <1>4, <1>11, RefusalCleans
<1>12. CASE Reply(r, Answer(q, TRUE, q.expected))
  BY <1>1, <1>5, <1>8, <1>9, <1>12, ReplyCleans
<1>13. CASE ~Stale(router, q) /\ CanBind(r, q)
             /\ Reply(BoundTo(r, KeysOf(q)), Answer(q, TRUE, r.current))
  <2>1. PICK ks : ks = KeysOf(q)
    OBVIOUS
  <2>2. /\ ks \in SUBSET Key /\ IsFiniteSet(ks)
        /\ Cardinality(ks) = Cardinality(q.seats)
        /\ \A k \in ks : k.actor = q.actor /\ k.incarnation = q.incarnation
    BY <1>3, <2>1, KeysFacts
  <2>3. /\ ks \cap DOMAIN r.sequences = {}
        /\ Cardinality(DOMAIN r.sequences) + Cardinality(ks) <= MaxSequences
        /\ r.inFlight + Cardinality(ks) <= MaxInFlight
    BY <1>13, <2>1, <2>2 DEF CanBind
  <2>4. \A k \in ks : k.incarnation = r.generation[k.actor]
    BY <1>5, <1>13, <2>2
  <2>5. PICK b : b = BoundTo(r, ks)
    OBVIOUS
  <2>6. RouterInv(b) /\ b.replays = r.replays
        /\ DOMAIN b.sequences = DOMAIN r.sequences \cup ks
    BY <1>5, <2>2, <2>3, <2>4, <2>5, BoundKeeps
  <2>7. Reply(b, Answer(q, TRUE, r.current))
    BY <1>13, <2>1, <2>5
  <2>8. \A k \in DOMAIN b.sequences :
              \/ k \in DOMAIN router.sequences
              \/ ~Cleanup(Head(batch)) /\ k \in KeysOf(Head(batch))
    BY <1>2, <1>5, <1>7, <2>1, <2>6
  <2>9. Range(b.replays) \subseteq Range(router.replays)
    BY <1>5, <2>6
  <2> QED
    BY <1>1, <1>8, <1>9, <2>6, <2>7, <2>8, <2>9, ReplyCleans
<1> QED
  BY <1>6, <1>10, <1>11, <1>12, <1>13

LEMMA ServeReleaseCleans == StateInv /\ CleanInv /\ ServeRelease => CleanInv'
<1> SUFFICES ASSUME StateInv, CleanInv, ServeRelease PROVE CleanInv'
  OBVIOUS
<1>1. batch # <<>> /\ Head(batch).kind = "release"
  BY DEF ServeRelease, Serve
<1>2. PICK q : q = Head(batch)
  OBVIOUS
<1>3. q \in Request /\ Started(q) /\ Cleanup(q)
  BY <1>1, <1>2, HeadFacts DEF Cleanup
<1>4. PICK r : r = AdmittedFor(router, q)
  OBVIOUS
<1>5. /\ RouterInv(r)
      /\ DOMAIN r.sequences \subseteq DOMAIN router.sequences
      /\ Range(r.replays) \subseteq Range(router.replays)
  BY <1>3, <1>4, AdmittedForFacts, AdmittedForLess
<1>7. PICK ks : ks = KeysOf(q)
  OBVIOUS
<1>8. PICK art : art = [k \in ks |-> q.expected]
  OBVIOUS
<1>9. \/ Reply(router, Error(q))
      \/ Reply(ReleasedAs(r, ks, art), Answer(q, TRUE, q.expected))
      \/ Reply(r, Error(q))
  BY <1>2, <1>4, <1>7, <1>8 DEF ServeRelease, ReleasedAs
<1>10. q.expected \in Nat
  BY <1>3 DEF Request
<1>12. CASE Reply(router, Error(q))
  BY <1>1, <1>2, <1>12, RefusalCleans
<1>13. CASE Reply(ReleasedAs(r, ks, art), Answer(q, TRUE, q.expected))
  <2>1. ks \in SUBSET Key /\ IsFiniteSet(ks)
    BY <1>3, <1>7, KeysFacts
  <2>2. \A k \in ks : art[k] \in Nat
    BY <1>8, <1>10
  <2>3. PICK n : n = ReleasedAs(r, ks, art)
    OBVIOUS
  <2>4. /\ RouterInv(n) /\ n.replays = r.replays
        /\ DOMAIN n.sequences = DOMAIN r.sequences \ ks
    BY <1>5, <2>1, <2>2, <2>3, ReleasedAsKeeps
  <2>5. PICK answer : answer = Answer(q, TRUE, q.expected)
    OBVIOUS
  <2>6. answer \in Response
    BY <1>3, <1>10, <2>5, AnswerFacts
  <2>7. Reply(n, answer)
    BY <1>13, <2>3, <2>5
  <2>8. /\ answer.actor = q.actor /\ answer.incarnation = q.incarnation
        /\ answer.seats = q.seats /\ answer.ok /\ answer.kind = q.kind
    BY <2>5 DEF Answer
  <2>9. answer.incarnation <= incarnation[answer.actor]
    BY <1>3, <2>8 DEF Started
  <2>10. Settled(n, answer)
    BY <1>2, <1>3, <1>7, <2>4, <2>8 DEF Settled, Cleanup
  <2>11. /\ Range(n.replays) \subseteq Range(router.replays)
         /\ DOMAIN n.sequences \subseteq DOMAIN router.sequences
    BY <1>5, <2>4
  <2> QED
    BY <1>1, <2>4, <2>6, <2>7, <2>9, <2>10, <2>11, ReplyCleans
<1>14. CASE Reply(r, Error(q))
  BY <1>1, <1>2, <1>4, <1>14, RefusalCleans
<1> QED
  BY <1>9, <1>12, <1>13, <1>14

LEMMA ServeAbortCleans == StateInv /\ CleanInv /\ ServeAbort => CleanInv'
<1> SUFFICES ASSUME StateInv, CleanInv, ServeAbort PROVE CleanInv'
  OBVIOUS
<1>1. batch # <<>> /\ Head(batch).kind = "abort"
  BY DEF ServeAbort, Serve
<1>2. PICK q : q = Head(batch)
  OBVIOUS
<1>3. q \in Request /\ Started(q) /\ Cleanup(q)
  BY <1>1, <1>2, HeadFacts DEF Cleanup
<1>4. PICK r : r = AdmittedFor(router, q)
  OBVIOUS
<1>5. /\ RouterInv(r)
      /\ DOMAIN r.sequences \subseteq DOMAIN router.sequences
      /\ Range(r.replays) \subseteq Range(router.replays)
  BY <1>3, <1>4, AdmittedForFacts, AdmittedForLess
<1>7. PICK held : held = KeysOf(q) \cap DOMAIN r.sequences
  OBVIOUS
<1>8. PICK art : art = r.sequences
  OBVIOUS
<1>9. \/ Reply(router, Error(q))
      \/ Reply(ReleasedAs(r, held, art), Answer(q, TRUE, Unbound))
  BY <1>2, <1>4, <1>7, <1>8 DEF ServeAbort, ReleasedAs
<1>11. CASE Reply(router, Error(q))
  BY <1>1, <1>2, <1>11, RefusalCleans
<1>12. CASE Reply(ReleasedAs(r, held, art), Answer(q, TRUE, Unbound))
  <2>1. KeysOf(q) \in SUBSET Key /\ IsFiniteSet(KeysOf(q))
    BY <1>3, KeysFacts
  <2>2. held \in SUBSET Key /\ IsFiniteSet(held)
    <3>1. held \in SUBSET KeysOf(q)
      BY <1>7
    <3> QED
      BY <2>1, <3>1, FS_Subset
  <2>3. \A k \in held : art[k] \in Nat
    <3>1. r.sequences \in Maps(Key, Nat)
      BY <1>5 DEF RouterInv, Router
    <3> QED
      BY <1>7, <1>8, <3>1, MapFacts
  <2>4. PICK n : n = ReleasedAs(r, held, art)
    OBVIOUS
  <2>5. /\ RouterInv(n) /\ n.replays = r.replays
        /\ DOMAIN n.sequences = DOMAIN r.sequences \ held
    BY <1>5, <2>2, <2>3, <2>4, ReleasedAsKeeps
  <2>6. PICK answer : answer = Answer(q, TRUE, Unbound)
    OBVIOUS
  <2>7. answer \in Response
    <3>1. Unbound \in Nat
      BY DEF Unbound
    <3> QED
      BY <1>3, <2>6, <3>1, AnswerFacts
  <2>8. Reply(n, answer)
    BY <1>12, <2>4, <2>6
  <2>9. /\ answer.actor = q.actor /\ answer.incarnation = q.incarnation
        /\ answer.seats = q.seats /\ answer.ok /\ answer.kind = q.kind
    BY <2>6 DEF Answer
  <2>10. answer.incarnation <= incarnation[answer.actor]
    BY <1>3, <2>9 DEF Started
  <2>11. KeysOf(q) \cap DOMAIN n.sequences = {}
    BY <1>7, <2>5
  <2>12. Settled(n, answer)
    BY <1>2, <1>3, <2>9, <2>11 DEF Settled, Cleanup
  <2>13. /\ Range(n.replays) \subseteq Range(router.replays)
         /\ DOMAIN n.sequences \subseteq DOMAIN router.sequences
    BY <1>5, <2>5
  <2> QED
    BY <1>1, <2>5, <2>7, <2>8, <2>10, <2>12, <2>13, ReplyCleans
<1> QED
  BY <1>9, <1>11, <1>12

\* A step of the server that answers nobody and binds nothing undoes no cleanup.
LEMMA QuietCleans ==
    ASSUME StateInv, CleanInv, ~frozen, UNCHANGED <<actorVars, inbox>>,
           NothingNew,
           DOMAIN router'.sequences \subseteq DOMAIN router.sequences,
           Range(router'.replays) \subseteq Range(router.replays)
    PROVE  ClosedInv' /\ DoneInv' /\ StaysDone
<1>0. /\ TypeInv /\ ClosedInv /\ DoneInv
      /\ UNCHANGED actorVars
      /\ inbox' = inbox /\ incarnation' = incarnation /\ ended' = ended
  BY DEF StateInv, CleanInv, actorVars
<1>1. /\ ClosedInv'
      /\ \A a \in Actor : \A ss : Done(a, ss) => Done(a, ss)'
  BY <1>0, ServerCleans DEF StaysDone
<1>2. ASSUME NEW p, p \in Range(router'.replays), Cleanup(p), p.ok, Mine(p)'
      PROVE  Done(p.actor, p.seats)'
  <2>1. Mine(p)
    BY <1>0, <1>2 DEF Mine
  <2>2. p \in Range(router.replays) /\ Done(p.actor, p.seats)
    BY <1>0, <1>2, <2>1 DEF DoneInv
  <2>3. p \in Response
    <3>1. router.replays \in Seq(Response)
      BY DEF StateInv, RouterInv, Router
    <3> QED
      BY <2>2, <3>1, RangeOfSeq
  <2>4. p.actor \in Actor
    BY <2>3 DEF Response
  <2> QED
    BY <1>1, <2>2, <2>4
<1>3. ASSUME NEW a \in Actor, NEW p, p \in Range(inbox[a]), Cleanup(p), p.ok, Mine(p)'
      PROVE  Done(a, p.seats)'
  <2>1. Mine(p)
    BY <1>0, <1>3 DEF Mine
  <2>2. Done(a, p.seats)
    BY <1>0, <1>3, <2>1 DEF DoneInv
  <2> QED
    BY <1>1, <2>2
<1>4. ASSUME NEW a \in Actor PROVE Done(a, ended[a])'
  <2>1. PICK ss : ss = ended[a]
    OBVIOUS
  <2>2. Done(a, ss)'
    BY <1>0, <1>1, <2>1 DEF DoneInv
  <2> QED
    BY <1>0, <2>1, <2>2 DEF Done, Closed, Undecoded, Unheld
<1> QED
  BY <1>0, <1>1, <1>2, <1>3, <1>4 DEF DoneInv, Cleanup, StaysDone

LEMMA LoadRouteCleans == StateInv /\ CleanInv /\ LoadRoute => CleanInv'
<1> SUFFICES ASSUME StateInv, CleanInv, LoadRoute PROVE CleanInv'
  OBVIOUS
<1>1. /\ ~loaded
      /\ UNCHANGED <<router, frozen, inbox, incarnation>>
  BY DEF LoadRoute, actorVars
<1>2. frozen /\ frozen'
  BY <1>1 DEF CleanInv, LoadedInv
<1>3. AnswerInv'
  BY <1>1 DEF CleanInv, AnswerInv
<1> QED
  BY <1>2, <1>3 DEF CleanInv, LoadedInv

LEMMA PublishCleans == StateInv /\ CleanInv /\ Publish => CleanInv' /\ StaysDone
<1> SUFFICES ASSUME StateInv, CleanInv, Publish PROVE CleanInv' /\ StaysDone
  OBVIOUS
<1>1. PICK v \in Version : CanPublish(router, v) /\ router' = PublishedTo(router, v)
  BY DEF Publish
<1>2. UNCHANGED <<frozen, loaded, lookahead, batch, queue, actorVars, inbox, incarnation>>
      /\ ~frozen
  BY DEF Publish, actorVars
<1>3. v \in Nat
  BY RecurrentAssumption DEF Version
<1>4. router'.sequences = router.sequences /\ router'.replays = router.replays
  BY <1>1, <1>3, PublishedKeeps DEF StateInv
<1>5. NothingNew
  BY <1>2 DEF NothingNew, OnTheWay, SameBut
<1>6. ClosedInv' /\ DoneInv' /\ StaysDone
  BY <1>2, <1>4, <1>5, QuietCleans
<1>7. OrderInv'
  BY <1>2 DEF CleanInv, OrderInv, Apart, Cleanup
<1>8. LoadedInv' /\ AnswerInv'
  BY <1>2, <1>4 DEF CleanInv, LoadedInv, AnswerInv
<1> QED
  BY <1>6, <1>7, <1>8 DEF CleanInv

LEMMA SameApart ==
    ASSUME NEW x, NEW y, NEW u, NEW v, SameBut(x, u), SameBut(y, v), Apart(u, v)
    PROVE  Apart(x, y)
BY DEF SameBut, Apart, Cleanup

\* What the drain reads is stamped in its order, and no decode in it comes after
\* a cleanup of its sequence.
LEMMA ArrivingOrdered ==
    ASSUME TypeInv, OrderInv, Len(lookahead) <= 1
    PROVE  /\ \A i, j \in 1 .. Len(Arriving) :
                 i < j => Arriving[i].at < Arriving[j].at /\ Apart(Arriving[i], Arriving[j])
           /\ \A i \in 1 .. Len(Arriving) : \E x \in OnTheWay : SameBut(Arriving[i], x)
           /\ \A i \in 1 .. Len(queue) : SameBut(queue[i], Arriving[Len(lookahead) + i])
<1>1. /\ Len(lookahead) \in Nat /\ Len(queue) \in Nat
      /\ DOMAIN lookahead = 1 .. Len(lookahead) /\ DOMAIN queue = 1 .. Len(queue)
      /\ \A i \in 1 .. Len(lookahead) : lookahead[i].at \in Nat
      /\ Stamp \in Nat
      /\ \A i \in 1 .. Len(lookahead) : lookahead[i].at <= Stamp
  <2>1. lookahead \in Seq(Request) /\ queue \in Seq(Request)
    BY DEF TypeInv
  <2>2. \A i \in 1 .. Len(lookahead) : lookahead[i] \in Request
    BY <2>1, ElementOfSeq
  <2> QED
    BY <2>1, <2>2, StampFacts, LenProperties DEF Request
<1>2. PICK m : m = Len(lookahead)
  OBVIOUS
<1>3. PICK A : A = Arriving
  OBVIOUS
<1>4. /\ Len(A) = m + Len(queue)
      /\ \A i \in 1 .. m : A[i] = lookahead[i]
      /\ \A i \in 1 .. Len(queue) : SameBut(A[m + i], queue[i]) /\ A[m + i].at = Stamp + i
  BY <1>2, <1>3, ArrivingFacts
<1>5. ASSUME NEW i \in 1 .. Len(A), ~(i <= m)
      PROVE  i - m \in 1 .. Len(queue) /\ m + (i - m) = i
  BY <1>1, <1>2, <1>4, <1>5
<1>6. ASSUME NEW i \in 1 .. Len(A), NEW j \in 1 .. Len(A), i < j
      PROVE  A[i].at < A[j].at /\ Apart(A[i], A[j])
  <2>1. ~(j <= m)
    BY <1>1, <1>2, <1>6
  <2>2. PICK l : l = j - m
    OBVIOUS
  <2>3. /\ l \in 1 .. Len(queue) /\ SameBut(A[j], queue[l]) /\ A[j].at = Stamp + l
    BY <1>4, <1>5, <2>1, <2>2
  <2>4. CASE i <= m
    <3>1. i \in 1 .. m /\ A[i] = lookahead[i]
      BY <1>1, <1>2, <1>4, <1>6, <2>4
    <3>2. A[i].at < A[j].at
      BY <1>1, <1>2, <2>3, <3>1
    <3>3. lookahead[i] \in Range(lookahead) /\ queue[l] \in Range(queue)
      BY <1>1, <1>2, <2>3, <3>1 DEF Range
    <3>4. Apart(A[i], queue[l])
      BY <3>1, <3>3 DEF OrderInv
    <3>5. Apart(A[i], A[j])
      BY <2>3, <3>4 DEF SameBut, Apart, Cleanup
    <3> QED
      BY <3>2, <3>5
  <2>5. CASE ~(i <= m)
    <3>1. PICK k : k = i - m
      OBVIOUS
    <3>2. k \in 1 .. Len(queue) /\ SameBut(A[i], queue[k]) /\ A[i].at = Stamp + k
      BY <1>4, <1>5, <2>5, <3>1
    <3>3. k < l
      BY <1>1, <1>2, <1>6, <2>2, <3>1
    <3>4. A[i].at < A[j].at
      BY <1>1, <2>3, <3>2, <3>3
    <3>5. Apart(queue[k], queue[l])
      BY <1>1, <2>3, <3>2, <3>3 DEF OrderInv
    <3>6. Apart(A[i], A[j])
      BY <2>3, <3>2, <3>5, SameApart
    <3> QED
      BY <3>4, <3>6
  <2> QED
    BY <2>4, <2>5
<1>7. ASSUME NEW i \in 1 .. Len(A) PROVE \E x \in OnTheWay : SameBut(A[i], x)
  <2>1. CASE i <= m
    <3>1. i \in 1 .. m /\ A[i] = lookahead[i]
      BY <1>1, <1>2, <1>4, <2>1
    <3>2. lookahead[i] \in OnTheWay
      BY <1>1, <1>2, <3>1 DEF OnTheWay, Range
    <3> QED
      BY <3>1, <3>2 DEF SameBut
  <2>2. CASE ~(i <= m)
    <3>1. PICK k : k = i - m
      OBVIOUS
    <3>2. k \in 1 .. Len(queue) /\ SameBut(A[i], queue[k])
      BY <1>4, <1>5, <2>2, <3>1
    <3>3. queue[k] \in OnTheWay
      BY <1>1, <3>2 DEF OnTheWay, Range
    <3> QED
      BY <3>2, <3>3
  <2> QED
    BY <2>1, <2>2
<1>8. \A i \in 1 .. Len(queue) : SameBut(queue[i], A[m + i])
  BY <1>4 DEF SameBut
<1> QED
  BY <1>2, <1>3, <1>6, <1>7, <1>8

\* Taken in order of their stamps, requests keep the order they arrived in.
LEMMA TakenOrdered ==
    ASSUME NEW A \in Seq(Request), NEW n \in Nat, n <= Len(A),
           \A i, j \in 1 .. Len(A) :
              i < j => A[i].at < A[j].at /\ Apart(A[i], A[j]),
           NEW f \in Seq(Request), Len(f) = n, \A i \in 1 .. n : f[i] = A[i],
           NEW taken \in InOrder(f)
    PROVE  /\ \A i, j \in DOMAIN taken : i < j => Apart(taken[i], taken[j])
           /\ \A x \in Range(taken) : \E k \in 1 .. n : x = A[k]
<1>1. /\ taken \in Seq(Request)
      /\ Len(taken) = n
      /\ \A i, j \in DOMAIN taken : i < j => taken[i].at < taken[j].at
      /\ \E p \in [1 .. n -> 1 .. n] :
            /\ \A i, j \in 1 .. n : i # j => p[i] # p[j]
            /\ \A i \in 1 .. n : taken[i] = f[p[i]]
  <2>1. /\ taken \in Seq(Request)
        /\ Len(taken) = Len(f)
        /\ \A i, j \in DOMAIN taken : i < j => taken[i].at < taken[j].at
        /\ \E p \in [1 .. Len(f) -> 1 .. Len(f)] :
              /\ \A i, j \in 1 .. Len(f) : i # j => p[i] # p[j]
              /\ \A i \in 1 .. Len(f) : taken[i] = f[p[i]]
    BY InOrderFacts
  <2> QED
    BY <2>1
<1>2. DOMAIN taken = 1 .. n /\ Len(A) \in Nat
  BY <1>1, LenProperties
<1>3. PICK p \in [1 .. n -> 1 .. n] :
            /\ \A i, j \in 1 .. n : i # j => p[i] # p[j]
            /\ \A i \in 1 .. n : taken[i] = f[p[i]]
  BY <1>1
<1>4. \A i \in 1 .. n : p[i] \in 1 .. n /\ p[i] \in 1 .. Len(A) /\ taken[i] = A[p[i]]
                        /\ A[p[i]].at \in Nat
  <2>1. TAKE i \in 1 .. n
  <2>2. p[i] \in 1 .. n /\ p[i] \in 1 .. Len(A)
    BY <1>2
  <2>3. A[p[i]] \in Request
    BY <2>2, ElementOfSeq
  <2>4. taken[i] = A[p[i]]
    BY <1>3, <2>2
  <2> QED
    BY <2>2, <2>3, <2>4 DEF Request
<1>5. ASSUME NEW i \in 1 .. n, NEW j \in 1 .. n, i < j
      PROVE  Apart(taken[i], taken[j])
  <2>1. i # j
    BY <1>5
  <2>2. PICK k, l : k = p[i] /\ l = p[j]
    OBVIOUS
  <2>3. k # l
    BY <1>3, <2>1, <2>2
  <2>4. /\ k \in 1 .. Len(A) /\ l \in 1 .. Len(A)
        /\ taken[i] = A[k] /\ taken[j] = A[l]
        /\ A[k].at \in Nat /\ A[l].at \in Nat
    BY <1>4, <2>2
  <2>5. A[k].at < A[l].at
    BY <1>1, <1>2, <1>5, <2>4
  <2>6. ASSUME l < k PROVE FALSE
    <3>1. A[l].at < A[k].at
      BY <2>4, <2>6
    <3>2. PICK x, y : x = A[l].at /\ y = A[k].at
      OBVIOUS
    <3>3. x \in Nat /\ y \in Nat /\ x < y /\ y < x
      BY <2>4, <2>5, <3>1, <3>2
    <3> QED
      BY <3>3
  <2>7. k < l
    BY <1>2, <2>3, <2>4, <2>6
  <2> QED
    BY <2>4, <2>7
<1>6. \A x \in Range(taken) : \E k \in 1 .. n : x = A[k]
  BY <1>2, <1>4 DEF Range
<1> QED
  BY <1>2, <1>5, <1>6

\* Of one request that was put back and read again nothing is left in front: only
\* the one that did not fit is.
LEMMA FrontFacts ==
    ASSUME NEW l \in Seq(Request), Len(l) <= 1, NEW A \in Seq(Request),
           NEW n \in Nat \ {0}, NEW peeked \in 0 .. 1, n + peeked <= Len(A)
    PROVE  /\ SubSeq(l, n + peeked + 1, Len(l)) = <<>>
           /\ SubSeq(A, n + 1, n + peeked) \in Seq(Request)
           /\ Len(SubSeq(A, n + 1, n + peeked)) = peeked
           /\ \A x \in Range(SubSeq(A, n + 1, n + peeked)) : \E k \in 1 .. Len(A) :
                 k = n + 1 /\ k <= n + peeked /\ x = A[k]
<1>1. Len(l) \in Nat /\ Len(A) \in Nat /\ DOMAIN A = 1 .. Len(A)
      /\ peeked \in Nat /\ peeked <= 1
  BY LenProperties
<1>2. PICK b, c, d, m : b = n + peeked + 1 /\ c = n + 1 /\ d = n + peeked /\ m = Len(l)
  OBVIOUS
<1>3. /\ b \in Nat \ {0} /\ m \in 0 .. Len(l) /\ ~(b <= m)
      /\ c \in Nat \ {0} /\ d \in 0 .. Len(A)
      /\ (IF c <= d THEN d - c + 1 ELSE 0) = peeked
      /\ \A k \in Nat : k <= d /\ c <= k => k = c
  BY <1>1, <1>2
<1>4. SubSeq(l, b, m) \in Seq(Request) /\ Len(SubSeq(l, b, m)) = 0
  BY <1>3, PartFacts
<1>5. SubSeq(l, b, m) = <<>>
  BY <1>4, EmptySeq
<1>6. /\ SubSeq(A, c, d) \in Seq(Request)
      /\ Len(SubSeq(A, c, d)) = IF c <= d THEN d - c + 1 ELSE 0
      /\ \A x \in Range(SubSeq(A, c, d)) :
            \E k \in DOMAIN A : k <= d /\ c <= k /\ A[k] = x
  BY <1>3, PartFacts
<1>7. Len(SubSeq(A, c, d)) = peeked
  BY <1>3, <1>6
<1>8. \A x \in Range(SubSeq(A, c, d)) : \E k \in 1 .. Len(A) :
                 k = c /\ k <= d /\ x = A[k]
  <2>1. TAKE x \in Range(SubSeq(A, c, d))
  <2>2. PICK k \in DOMAIN A : k <= d /\ c <= k /\ A[k] = x
    BY <1>6
  <2>3. k \in 1 .. Len(A) /\ k \in Nat
    BY <1>1
  <2>4. k = c
    BY <1>3, <2>2, <2>3
  <2> QED
    BY <2>2, <2>3, <2>4
<1> QED
  BY <1>2, <1>5, <1>6, <1>7, <1>8

\* What is left of a queue keeps its order.
LEMMA RestFacts ==
    ASSUME NEW s \in Seq(Request), NEW m \in Nat \ {0},
           \A i, j \in DOMAIN s : i < j => Apart(s[i], s[j])
    PROVE  /\ \A i, j \in DOMAIN SubSeq(s, m, Len(s)) :
                 i < j => Apart(SubSeq(s, m, Len(s))[i], SubSeq(s, m, Len(s))[j])
           /\ \A x \in Range(SubSeq(s, m, Len(s))) :
                 \E i \in 1 .. Len(s) : m <= i /\ x = s[i]
<1>1. PICK n, r : n = Len(s) /\ r = SubSeq(s, m, n)
  OBVIOUS
<1>2. n \in Nat /\ n \in 0 .. Len(s) /\ DOMAIN s = 1 .. n
  BY <1>1, LenProperties
<1>3. /\ r \in Seq(Request)
      /\ Len(r) = IF m <= n THEN n - m + 1 ELSE 0
      /\ \A i \in DOMAIN r : r[i] = s[i + m - 1]
      /\ \A x \in Range(r) : \E i \in DOMAIN s : i <= n /\ m <= i /\ s[i] = x
  <2>1. /\ SubSeq(s, m, n) \in Seq(Request)
        /\ Len(SubSeq(s, m, n)) = IF m <= n THEN n - m + 1 ELSE 0
        /\ \A x \in Range(SubSeq(s, m, n)) :
              \E i \in DOMAIN s : i <= n /\ m <= i /\ s[i] = x
    BY <1>2, PartFacts
  <2>3. \A i \in DOMAIN SubSeq(s, m, n) : SubSeq(s, m, n)[i] = s[i + m - 1]
    BY <1>2, PartFacts
  <2>2. r = SubSeq(s, m, n)
    BY <1>1
  <2> QED
    BY <2>1, <2>2, <2>3
<1>4. DOMAIN r = 1 .. Len(r)
  BY <1>3, LenProperties
<1>5. ASSUME NEW i \in DOMAIN r, NEW j \in DOMAIN r, i < j
      PROVE  Apart(r[i], r[j])
  <2>1. PICK k, l : k = i + m - 1 /\ l = j + m - 1
    OBVIOUS
  <2>2. k \in DOMAIN s /\ l \in DOMAIN s /\ k < l
    BY <1>2, <1>3, <1>4, <1>5, <2>1
  <2>3. Apart(s[k], s[l])
    BY <2>2
  <2> QED
    BY <1>3, <2>1, <2>3
<1>6. r = SubSeq(s, m, Len(s))
  BY <1>1
<1>7. \A x \in Range(r) : \E i \in 1 .. Len(s) : m <= i /\ x = s[i]
  BY <1>1, <1>2, <1>3
<1> QED
  BY <1>5, <1>6, <1>7

\* The order of the requests is that of their places in what the drain read.
LEMMA PlacedOrder ==
    ASSUME NEW A, NEW n \in Nat, NEW top \in Nat, n <= top,
           \A i, j \in 1 .. Len(A) : i < j => Apart(A[i], A[j]), Len(A) \in Nat,
           n <= Len(A),
           \A i, j \in DOMAIN batch' : i < j => Apart(batch'[i], batch'[j]),
           \A x \in Range(batch') : \E k \in 1 .. n : x = A[k],
           Len(lookahead') \in Nat, Len(lookahead') <= 1,
           DOMAIN lookahead' = 1 .. Len(lookahead'),
           \A x \in Range(lookahead') : \E k \in 1 .. Len(A) :
               k = n + 1 /\ k <= top /\ x = A[k],
           \A i, j \in DOMAIN queue' : i < j => Apart(queue'[i], queue'[j]),
           \A x \in Range(queue') : \E k \in 1 .. Len(A) :
               top < k /\ SameBut(x, A[k])
    PROVE  OrderInv'
<1>1. ASSUME NEW x \in Range(batch'), NEW y \in Range(lookahead')
      PROVE  Apart(x, y)
  <2>1. PICK k \in 1 .. n : x = A[k]
    BY <1>1
  <2>2. PICK l \in 1 .. Len(A) : l = n + 1 /\ y = A[l]
    BY <1>1
  <2>3. k \in 1 .. Len(A) /\ k < l
    BY <2>2
  <2> QED
    BY <2>1, <2>2, <2>3
<1>2. ASSUME NEW x, SameBut(x, x), NEW k \in 1 .. Len(A), k <= top, x = A[k],
             NEW y \in Range(queue')
      PROVE  Apart(x, y)
  <2>1. PICK l \in 1 .. Len(A) : top < l /\ SameBut(y, A[l])
    BY <1>2
  <2>2. k < l
    BY <1>2, <2>1
  <2>3. Apart(A[k], A[l])
    BY <2>2
  <2> QED
    BY <1>2, <2>1, <2>3, SameApart
<1>3. ASSUME NEW x PROVE SameBut(x, x)
  BY DEF SameBut
<1>4. ASSUME NEW x \in Range(batch'), NEW y \in Range(queue') PROVE Apart(x, y)
  <2>1. PICK k \in 1 .. n : x = A[k]
    BY <1>4
  <2>2. k \in 1 .. Len(A) /\ k <= top
    OBVIOUS
  <2> QED
    BY <1>2, <1>3, <2>1, <2>2
<1>5. ASSUME NEW x \in Range(lookahead'), NEW y \in Range(queue') PROVE Apart(x, y)
  <2>1. PICK k \in 1 .. Len(A) : k <= top /\ x = A[k]
    BY <1>5
  <2> QED
    BY <1>2, <1>3, <2>1
<1>6. \A i, j \in DOMAIN lookahead' : ~(i < j)
  OBVIOUS
<1>7. \A x \in Range(batch'), y \in Range(lookahead') \cup Range(queue') : Apart(x, y)
  BY <1>1, <1>4
<1>8. \A x \in Range(lookahead'), y \in Range(queue') : Apart(x, y)
  BY <1>5
<1> QED
  BY <1>6, <1>7, <1>8 DEF OrderInv, Apart, Cleanup

LEMMA DrainCleans == StateInv /\ CleanInv /\ Drain
        => CleanInv' /\ (~frozen => StaysDone /\ NothingNew)
<1> SUFFICES ASSUME StateInv, CleanInv, Drain
             PROVE  CleanInv' /\ (~frozen => StaysDone /\ NothingNew)
  OBVIOUS
<1>0. TypeInv /\ RouterInv(router) /\ PastInv
  BY DEF StateInv
<1>1. PICK n \in 1 .. Len(Arriving), peeked \in 0 .. 1 :
        \E taken \in InOrder(SubSeq(Arriving, 1, n)) :
         LET next == n + peeked + 1
         IN /\ MayTake(n, peeked)
            /\ lookahead' = SubSeq(lookahead, next, Len(lookahead))
                            \o SubSeq(Arriving, n + 1, n + peeked)
                            \o PutBack(taken)
            /\ queue' = SubSeq(queue, Max({1, next - Len(lookahead)}), Len(queue))
            /\ batch' = IF loaded THEN taken ELSE <<>>
            /\ router' = IF loaded THEN Admitted(router, Latest(taken)) ELSE router
  BY DEF Drain
<1>2. PICK taken \in InOrder(SubSeq(Arriving, 1, n)) :
            /\ MayTake(n, peeked)
            /\ lookahead' = SubSeq(lookahead, n + peeked + 1, Len(lookahead))
                            \o SubSeq(Arriving, n + 1, n + peeked)
                            \o PutBack(taken)
            /\ queue' = SubSeq(queue, Max({1, (n + peeked + 1) - Len(lookahead)}), Len(queue))
            /\ batch' = IF loaded THEN taken ELSE <<>>
            /\ router' = IF loaded THEN Admitted(router, Latest(taken)) ELSE router
  BY <1>1
<1>3. /\ UNCHANGED <<frozen, loaded, actorVars, inbox>>
      /\ UNCHANGED <<frozen, loaded, inbox, incarnation>>
  BY DEF Drain, actorVars
<1>4. /\ taken \in Seq(Request)
      /\ Range(taken) \subseteq Range(Arriving)
      /\ n + peeked <= Len(Arriving)
      /\ SubSeq(Arriving, 1, n) \in Seq(Request)
      /\ Len(SubSeq(Arriving, 1, n)) = n
      /\ \A i \in 1 .. n : SubSeq(Arriving, 1, n)[i] = Arriving[i]
  BY <1>0, <1>2, DrainParts
<1>5. /\ DOMAIN router'.sequences \subseteq DOMAIN router.sequences
      /\ Range(router'.replays) \subseteq Range(router.replays)
  <2>1. CASE loaded
    <3>1. \A q \in Range(Arriving) : q.incarnation <= incarnation[q.actor]
      BY <1>0, ArrivingStarted DEF Started, Range
    <3>2. \A i \in DOMAIN taken : Started(taken[i])
      BY <1>4, <3>1 DEF Started, Range
    <3>3. PICK latest : latest = Latest(taken)
      OBVIOUS
    <3>4. latest \in Generations
      BY <1>0, <1>4, <3>2, <3>3, LatestFacts
    <3>5. router' = Admitted(router, latest)
      BY <1>2, <2>1, <3>3
    <3>6. /\ router'.replays = Only(router.replays, Current(router, latest))
          /\ DOMAIN router'.sequences
                = DOMAIN router.sequences \ StaleKeys(router, latest)
      BY <1>0, <3>4, <3>5, AdmittedKeeps
    <3>7. router.replays \in Seq(Response)
      BY <1>0 DEF RouterInv, Router
    <3>8. Range(Only(router.replays, Current(router, latest))) \subseteq Range(router.replays)
      BY <3>7, OnlyFacts
    <3> QED
      BY <3>6, <3>8
  <2>2. CASE ~loaded
    BY <1>2, <2>2
  <2> QED
    BY <2>1, <2>2
<1>6. AnswerInv'
  BY <1>3, <1>5 DEF CleanInv, AnswerInv
<1>7. CASE frozen
  BY <1>3, <1>6, <1>7 DEF CleanInv, LoadedInv
<1>8. CASE ~frozen
  <2>0. loaded /\ Len(lookahead) <= 1 /\ OrderInv
    BY <1>8 DEF CleanInv, LoadedInv
  <2>1. /\ Arriving \in Seq(Request) /\ Len(Arriving) \in Nat
        /\ Len(Arriving) = Len(lookahead) + Len(queue)
        /\ lookahead \in Seq(Request) /\ Len(lookahead) \in Nat
        /\ queue \in Seq(Request) /\ Len(queue) \in Nat
        /\ DOMAIN queue = 1 .. Len(queue)
    BY <1>0, ArrivingFacts, LenProperties DEF TypeInv
  <2>2. n \in Nat \ {0} /\ n <= Len(Arriving) /\ peeked \in Nat /\ peeked <= 1
    BY <2>1
  <2>3. PICK A : A = Arriving
    OBVIOUS
  <2>4. /\ \A i, j \in 1 .. Len(A) : i < j => A[i].at < A[j].at /\ Apart(A[i], A[j])
        /\ \A i \in 1 .. Len(A) : \E x \in OnTheWay : SameBut(A[i], x)
        /\ \A i \in 1 .. Len(queue) : SameBut(queue[i], A[Len(lookahead) + i])
    BY <1>0, <2>0, <2>3, ArrivingOrdered
  <2>5. PICK f : f = SubSeq(A, 1, n)
    OBVIOUS
  <2>6. /\ \A i, j \in DOMAIN taken : i < j => Apart(taken[i], taken[j])
        /\ \A x \in Range(taken) : \E k \in 1 .. n : x = A[k]
    <3>1. /\ f \in Seq(Request) /\ Len(f) = n /\ \A i \in 1 .. n : f[i] = A[i]
          /\ taken \in InOrder(f)
          /\ A \in Seq(Request) /\ n \in Nat /\ n <= Len(A)
      BY <1>2, <1>4, <2>1, <2>2, <2>3, <2>5
    <3> QED
      BY <2>4, <3>1, TakenOrdered
  <2>7. batch' = taken
    BY <1>2, <2>0
  <2>8. /\ SubSeq(lookahead, n + peeked + 1, Len(lookahead)) = <<>>
        /\ SubSeq(A, n + 1, n + peeked) \in Seq(Request)
        /\ Len(SubSeq(A, n + 1, n + peeked)) = peeked
        /\ \A x \in Range(SubSeq(A, n + 1, n + peeked)) : \E k \in 1 .. Len(A) :
                 k = n + 1 /\ k <= n + peeked /\ x = A[k]
    <3>1. A \in Seq(Request) /\ n + peeked <= Len(A)
      BY <1>4, <2>1, <2>3
    <3> QED
      BY <2>0, <2>1, <2>2, <3>1, FrontFacts
  <2>9. PutBack(taken) = <<>>
    BY <2>0 DEF PutBack
  <2>10. lookahead' = SubSeq(A, n + 1, n + peeked)
    <3>1. PICK t : t = SubSeq(A, n + 1, n + peeked)
      OBVIOUS
    <3>2. t \in Seq(Request)
      BY <2>8, <3>1
    <3>3. lookahead' = (<<>> \o t) \o <<>>
      BY <1>2, <2>3, <2>8, <2>9, <3>1
    <3>4. <<>> \o t = t /\ t \o <<>> = t
      BY <3>2, ConcatEmptySeq
    <3> QED
      BY <3>1, <3>3, <3>4
  <2>11. PICK s : s = lookahead'
    OBVIOUS
  <2>12. /\ s \in Seq(Request) /\ Len(s) = peeked
         /\ \A x \in Range(s) : \E k \in 1 .. Len(A) :
                 k = n + 1 /\ k <= n + peeked /\ x = A[k]
    BY <2>8, <2>10, <2>11
  <2>13. DOMAIN s = 1 .. Len(s)
    BY <2>12, LenProperties
  <2>14. PICK m : m = Max({1, (n + peeked + 1) - Len(lookahead)})
    OBVIOUS
  <2>15. m \in Nat \ {0} /\ m >= (n + peeked + 1) - Len(lookahead)
    <3>1. PICK x : x = (n + peeked + 1) - Len(lookahead)
      OBVIOUS
    <3>2. x \in Int /\ m = Max({1, x})
      BY <2>1, <2>2, <2>14, <3>1
    <3>3. Max({1, x}) = IF x > 1 THEN x ELSE 1
      BY <3>2, MaxOfTwo
    <3> QED
      BY <3>1, <3>2, <3>3
  <2>16. PICK r : r = SubSeq(queue, m, Len(queue))
    OBVIOUS
  <2>17. queue' = r
    BY <1>2, <2>14, <2>16
  <2>18. /\ \A i, j \in DOMAIN r : i < j => Apart(r[i], r[j])
         /\ \A x \in Range(r) : \E i \in 1 .. Len(queue) : m <= i /\ x = queue[i]
    <3>1. \A i, j \in DOMAIN queue : i < j => Apart(queue[i], queue[j])
      BY <2>0 DEF OrderInv
    <3> QED
      BY <2>1, <2>15, <2>16, <3>1, RestFacts
  <2>19. \A x \in Range(r) : \E k \in 1 .. Len(A) : n + peeked < k /\ SameBut(x, A[k])
    <3>1. TAKE x \in Range(r)
    <3>2. PICK i \in 1 .. Len(queue) : m <= i /\ x = queue[i]
      BY <2>18
    <3>3. SameBut(x, A[Len(lookahead) + i])
      BY <2>4, <3>2
    <3>4. PICK len, l : len = Len(A) /\ l = Len(lookahead)
      OBVIOUS
    <3>5. l + i \in 1 .. len /\ n + peeked < l + i
      BY <2>1, <2>2, <2>3, <2>15, <3>2, <3>4
    <3> QED
      BY <3>3, <3>4, <3>5
  <2>20. OrderInv'
    <3>1. PICK top : top = n + peeked
      OBVIOUS
    <3>2. /\ top \in Nat /\ n \in Nat /\ n <= top /\ n <= Len(A) /\ Len(A) \in Nat
          /\ Len(s) \in Nat /\ Len(s) <= 1
      BY <2>1, <2>2, <2>3, <2>12, <3>1
    <3>3. \A i, j \in 1 .. Len(A) : i < j => Apart(A[i], A[j])
      BY <2>4
    <3>4. \A x \in Range(s) : \E k \in 1 .. Len(A) : k = n + 1 /\ k <= top /\ x = A[k]
      BY <2>12, <3>1
    <3>5. \A x \in Range(r) : \E k \in 1 .. Len(A) : top < k /\ SameBut(x, A[k])
      BY <2>19, <3>1
    <3> QED
      BY <2>6, <2>7, <2>11, <2>13, <2>17, <2>18, <3>2, <3>3, <3>4, <3>5, PlacedOrder
  <2>21. NothingNew
    <3>1. \A y \in Range(taken) \cup Range(s) : \E k \in 1 .. Len(A) : y = A[k]
      <4>1. \A k \in 1 .. n : k \in 1 .. Len(A)
        BY <2>1, <2>2, <2>3
      <4> QED
        BY <2>6, <2>12, <4>1
    <3>2. \A y \in Range(taken) \cup Range(s) : \E x \in OnTheWay : SameBut(y, x)
      BY <2>4, <3>1
    <3>3. \A y \in Range(r) : \E x \in OnTheWay : SameBut(y, x)
      <4>1. TAKE y \in Range(r)
      <4>2. y \in Range(queue)
        BY <2>1, <2>18 DEF Range
      <4> QED
        BY <4>2 DEF OnTheWay, SameBut
    <3>4. OnTheWay' = Range(taken) \cup Range(s) \cup Range(r)
      BY <2>7, <2>11, <2>17 DEF OnTheWay
    <3> QED
      BY <3>2, <3>3, <3>4 DEF NothingNew
  <2>22. ClosedInv' /\ DoneInv' /\ StaysDone
    BY <1>3, <1>5, <1>8, <2>21, QuietCleans
  <2>23. LoadedInv'
    <3>1. Len(s) <= 1
      BY <2>2, <2>12
    <3> QED
      BY <1>3, <2>0, <2>11, <3>1 DEF LoadedInv
  <2> QED
    BY <1>6, <2>20, <2>21, <2>22, <2>23 DEF CleanInv
<1> QED
  BY <1>7, <1>8

\* No request of a closed sequence.
Clear(q) == \A ss : Closed(q.actor, ss) => q.seats \cap ss = {}

\* What an actor closes, with what it closed before, stays so; what it asks for
\* is no decode of it.
LEMMA ActorCleans ==
    ASSUME StateInv, CleanInv, ~frozen, NEW a \in Actor, NEW fresh,
           \A ss \in fresh : Closed(a, ss)',
           router' = router, incarnation' = incarnation,
           \A b \in Actor : closing[b] \subseteq closing'[b],
           \A b \in Actor : \A id \in DOMAIN pending'[b] :
              /\ pending'[b][id].request.actor = b
              /\ ~Cleanup(pending'[b][id].request) => Clear(pending'[b][id].request)
              /\ Cleanup(pending'[b][id].request) =>
                    \/ Closed(b, pending'[b][id].request.seats)
                    \/ b = a /\ pending'[b][id].request.seats \in fresh,
           \A q \in OnTheWay' :
              \/ q \in OnTheWay
              \/ /\ q \in Request
                 /\ ~Cleanup(q) => Clear(q)
                 /\ Cleanup(q) => \/ Closed(q.actor, q.seats)
                                  \/ q.actor = a /\ q.seats \in fresh,
           \A b \in Actor : Range(inbox'[b]) \subseteq Range(inbox[b]),
           \A b \in Actor :
              \/ ended'[b] = ended[b]
              \/ \E p \in Range(inbox[b]) :
                    /\ Cleanup(p) /\ p.ok /\ Mine(p)
                    /\ ended'[b] = ended[b] \cup p.seats
    PROVE  ClosedInv' /\ DoneInv' /\ AnswerInv' /\ StaysDone
<1>0. TypeInv /\ ClosedInv /\ DoneInv /\ AnswerInv
  BY DEF StateInv, CleanInv
<1>1. ASSUME NEW b \in Actor, NEW ss, Closed(b, ss) PROVE Closed(b, ss)'
  <2>1. ss \subseteq closing'[b]
    BY <1>1 DEF Closed
  <2>2. ASSUME NEW id, id \in DOMAIN pending'[b], ~Cleanup(pending'[b][id].request)
        PROVE  pending'[b][id].request.seats \cap ss = {}
    BY <1>1, <2>2 DEF Clear
  <2> QED
    BY <2>1, <2>2 DEF Closed, Cleanup
<1>2. ASSUME NEW q PROVE Mine(q)' <=> Mine(q)
  BY DEF Mine
<1>3. ASSUME NEW b \in Actor, NEW ss, Done(b, ss) PROVE Done(b, ss)'
  <2>1. Closed(b, ss) /\ Undecoded(b, ss) /\ Unheld(b, ss)
    BY <1>3 DEF Done
  <2>2. ASSUME NEW q, q \in OnTheWay', q.actor = b, ~Cleanup(q), Mine(q)
        PROVE  q.seats \cap ss = {}
    BY <2>1, <2>2 DEF Undecoded, Clear
  <2>3. Undecoded(b, ss)'
    BY <1>2, <2>2 DEF Undecoded, Cleanup
  <2>4. Unheld(b, ss)'
    BY <2>1 DEF Unheld, KeyOf
  <2> QED
    BY <1>1, <2>1, <2>3, <2>4 DEF Done
<1>4. ASSUME NEW q, q \in OnTheWay', Cleanup(q), Mine(q)' PROVE Closed(q.actor, q.seats)'
  <2>1. CASE q \in OnTheWay
    <3>1. Closed(q.actor, q.seats)
      BY <1>0, <1>2, <1>4, <2>1 DEF ClosedInv
    <3>2. q.actor \in Actor
      BY <1>0, <2>1, OnTheWayTyped DEF Request
    <3> QED
      BY <1>1, <3>1, <3>2
  <2>2. CASE q \in Request /\ Closed(q.actor, q.seats)
    <3>1. q.actor \in Actor
      BY <2>2 DEF Request
    <3> QED
      BY <1>1, <2>2, <3>1
  <2>3. CASE q.actor = a /\ q.seats \in fresh
    BY <2>3
  <2> QED
    BY <1>4, <2>1, <2>2, <2>3
<1>5. ASSUME NEW b \in Actor, NEW id, id \in DOMAIN pending'[b],
             Cleanup(pending'[b][id].request),
             NEW ss, ss = pending'[b][id].request.seats
      PROVE  Closed(b, ss)'
  <2>1. CASE Closed(b, ss)
    BY <1>1, <2>1
  <2>2. CASE b = a /\ ss \in fresh
    BY <2>2
  <2> QED
    BY <1>5, <2>1, <2>2
<1>6. ClosedInv'
  <2>1. \A q \in OnTheWay' : Cleanup(q) /\ Mine(q)' => Closed(q.actor, q.seats)'
    BY <1>4
  <2>2. (\A b \in Actor : \A id \in DOMAIN pending[b] :
         Cleanup(pending[b][id].request) => Closed(b, pending[b][id].request.seats))'
    BY <1>5 DEF Closed, Cleanup
  <2> QED
    BY <2>1, <2>2 DEF ClosedInv, Cleanup
<1>7. ASSUME NEW p, p \in Range(router.replays), Cleanup(p), p.ok, Mine(p)
      PROVE  Done(p.actor, p.seats)'
  <2>1. Done(p.actor, p.seats)
    BY <1>0, <1>7 DEF DoneInv
  <2>2. p \in Response
    <3>1. router.replays \in Seq(Response)
      BY DEF StateInv, RouterInv, Router
    <3> QED
      BY <1>7, <3>1, RangeOfSeq
  <2>3. p.actor \in Actor
    BY <2>2 DEF Response
  <2> QED
    BY <1>3, <2>1, <2>3
<1>8. ASSUME NEW b \in Actor, NEW p, p \in Range(inbox'[b]), Cleanup(p), p.ok, Mine(p)
      PROVE  Done(b, p.seats)'
  <2>1. Done(b, p.seats)
    BY <1>0, <1>8 DEF DoneInv
  <2> QED
    BY <1>3, <2>1
<1>9. ASSUME NEW b \in Actor, NEW ss, ss = ended'[b] PROVE Done(b, ss)'
  <2>1. Done(b, ended[b])
    BY <1>0 DEF DoneInv
  <2>2. CASE ended'[b] = ended[b]
    BY <1>3, <1>9, <2>1, <2>2
  <2>3. ASSUME NEW p \in Range(inbox[b]), Cleanup(p), p.ok, Mine(p),
               ended'[b] = ended[b] \cup p.seats
        PROVE  Done(b, ss)'
    <3>1. Done(b, p.seats)
      BY <1>0, <2>3 DEF DoneInv
    <3>2. Done(b, ss)
      BY <1>9, <2>1, <2>3, <3>1 DEF Done, Closed, Undecoded, Unheld
    <3> QED
      BY <1>3, <3>2
  <2> QED
    BY <2>2, <2>3
<1>10. DoneInv'
  <2>1. \A p \in Range(router'.replays) :
          Cleanup(p) /\ p.ok /\ Mine(p)' => Done(p.actor, p.seats)'
    BY <1>2, <1>7
  <2>2. \A b \in Actor : \A p \in Range(inbox'[b]) :
          Cleanup(p) /\ p.ok /\ Mine(p)' => Done(b, p.seats)'
    BY <1>2, <1>8
  <2>3. (\A b \in Actor : Done(b, ended[b]))'
    BY <1>9 DEF Done, Closed, Undecoded, Unheld
  <2> QED
    BY <2>1, <2>2, <2>3 DEF DoneInv, Cleanup
<1>11. AnswerInv'
  BY <1>0 DEF AnswerInv
<1>12. StaysDone
  BY <1>3 DEF StaysDone
<1> QED
  BY <1>6, <1>10, <1>11, <1>12

\* A request that is no decode of a closed sequence goes behind the others.
LEMMA EnqueueOrder ==
    ASSUME StateInv, OrderInv, ClosedInv, NEW q \in Request, Mine(q),
           ~Cleanup(q) => Clear(q),
           queue' = Append(queue, q), batch' = batch, lookahead' = lookahead
    PROVE  OrderInv' /\ OnTheWay' = OnTheWay \cup {q}
<1>1. queue \in Seq(Request)
  BY DEF StateInv, TypeInv
<1>2. PICK s : s = queue'
  OBVIOUS
<1>3. /\ Len(queue) \in Nat /\ DOMAIN queue = 1 .. Len(queue)
      /\ Range(s) = Range(queue) \cup {q}
      /\ DOMAIN s = 1 .. Len(queue) + 1
      /\ s[Len(queue) + 1] = q
      /\ \A i \in 1 .. Len(queue) : s[i] = queue[i]
  <2>1. Range(Append(queue, q)) = Range(queue) \cup {q}
    BY <1>1, AppendFacts
  <2>2. /\ Len(queue) \in Nat /\ DOMAIN queue = 1 .. Len(queue)
        /\ DOMAIN Append(queue, q) = 1 .. Len(queue) + 1
        /\ Append(queue, q)[Len(queue) + 1] = q
        /\ \A i \in 1 .. Len(queue) : Append(queue, q)[i] = queue[i]
    BY <1>1, AppendProperties, LenProperties
  <2> QED
    BY <1>2, <2>1, <2>2
<1>4. ASSUME NEW x \in OnTheWay PROVE Apart(x, q)
  <2>1. ASSUME Cleanup(x), ~Cleanup(q), x.actor = q.actor, x.incarnation = q.incarnation
        PROVE  x.seats \cap q.seats = {}
    <3>1. Mine(x)
      BY <2>1 DEF Mine
    <3>2. Closed(q.actor, x.seats)
      BY <2>1, <3>1 DEF ClosedInv
    <3> QED
      BY <2>1, <3>2 DEF Clear
  <2> QED
    BY <2>1 DEF Apart
<1>5. ASSUME NEW i \in DOMAIN s, NEW j \in DOMAIN s, i < j PROVE Apart(s[i], s[j])
  <2>1. i \in 1 .. Len(queue) /\ s[i] = queue[i]
    BY <1>3, <1>5
  <2>2. CASE j = Len(queue) + 1
    <3>1. queue[i] \in OnTheWay
      BY <1>3, <2>1 DEF OnTheWay, Range
    <3> QED
      BY <1>3, <1>4, <2>1, <2>2, <3>1
  <2>3. CASE j # Len(queue) + 1
    <3>1. j \in 1 .. Len(queue) /\ s[j] = queue[j]
      BY <1>3, <2>3
    <3>2. Apart(queue[i], queue[j])
      BY <1>3, <1>5, <2>1, <3>1 DEF OrderInv
    <3> QED
      BY <2>1, <3>1, <3>2
  <2> QED
    BY <2>2, <2>3
<1>6. /\ \A x \in Range(batch), y \in Range(lookahead) \cup Range(s) : Apart(x, y)
      /\ \A x \in Range(lookahead), y \in Range(s) : Apart(x, y)
  <2>1. \A x \in Range(batch) \cup Range(lookahead) : x \in OnTheWay
    BY DEF OnTheWay
  <2> QED
    BY <1>3, <1>4, <2>1 DEF OrderInv
<1>7. OrderInv'
  BY <1>2, <1>5, <1>6 DEF OrderInv, Apart, Cleanup
<1>8. OnTheWay' = Range(batch) \cup Range(lookahead) \cup Range(s)
  BY <1>2 DEF OnTheWay
<1>9. OnTheWay' = OnTheWay \cup {q}
  BY <1>3, <1>8 DEF OnTheWay
<1> QED
  BY <1>7, <1>9

LEMMA ActorQuiet ==
    ASSUME CleanInv, router' = router, incarnation' = incarnation,
           frozen' = frozen, loaded' = loaded, lookahead' = lookahead,
           \A b \in Actor : Range(inbox'[b]) \subseteq Range(inbox[b])
    PROVE  LoadedInv' /\ AnswerInv'
BY DEF CleanInv, LoadedInv, AnswerInv

\* A process asks for cleanup of what it does not wait for, and decodes only what
\* it did not ask to clean up.
LEMMA SubmitCleans ==
    ASSUME StateInv, CleanInv, NEW a \in Actor, NEW kind \in Kind,
           NEW ss \in SUBSET Seat, NEW v \in Nat, Submit(a, kind, ss, v),
           kind = "decode" => ss \cap closing[a] = {},
           kind # "decode" => ss \cap Waiting(a) = {}
    PROVE  CleanInv' /\ (~frozen => StaysDone)
<1>0. TypeInv /\ PastInv
  BY DEF StateInv
<1>1. PICK q : q = [actor |-> a, incarnation |-> incarnation[a],
                    id |-> nextRequest[a], kind |-> kind, seats |-> ss,
                    expected |-> v, at |-> 0]
  OBVIOUS
<1>2. /\ queue' = Append(queue, q)
      /\ pending' = [pending EXCEPT
             ![a] = Put(@, {q.id}, [request |-> q, attempts |-> 0])]
      /\ closing' = IF kind = "decode" THEN closing
                    ELSE [closing EXCEPT ![a] = @ \cup ss]
      /\ UNCHANGED <<router, frozen, loaded, lookahead, batch, incarnation,
                     binding, ended, inbox>>
  BY <1>1 DEF Submit, serverVars
<1>3. /\ incarnation[a] \in Nat /\ nextRequest[a] \in Nat
      /\ pending \in [Actor -> Maps(Nat, Entry)]
      /\ closing \in [Actor -> SUBSET Seat]
  BY <1>0 DEF TypeInv
<1>4. /\ q \in Request /\ q.actor = a /\ Mine(q) /\ q.seats = ss
      /\ Cleanup(q) <=> kind # "decode"
  BY <1>1, <1>3 DEF Request, Mine, Cleanup
<1>5. PICK e : e = [request |-> q, attempts |-> 0]
  OBVIOUS
<1>6. e.request = q
  BY <1>5
<1>7. /\ \A b \in Actor : b # a => pending'[b] = pending[b]
      /\ DOMAIN pending'[a] = {q.id} \cup DOMAIN pending[a]
      /\ pending'[a][q.id] = e
      /\ \A id \in DOMAIN pending[a] : id # q.id => pending'[a][id] = pending[a][id]
  <2>1. PICK f : f = pending[a]
    OBVIOUS
  <2>2. pending' = [pending EXCEPT ![a] = Put(f, {q.id}, e)]
    BY <1>2, <1>5, <2>1
  <2>3. /\ \A b \in Actor : b # a => pending'[b] = pending[b]
        /\ pending'[a] = Put(f, {q.id}, e)
    BY <1>3, <2>2
  <2>4. /\ DOMAIN Put(f, {q.id}, e) = {q.id} \cup DOMAIN f
        /\ Put(f, {q.id}, e)[q.id] = e
        /\ \A id \in DOMAIN f : id # q.id => Put(f, {q.id}, e)[id] = f[id]
    BY DEF Put
  <2> QED
    BY <2>1, <2>3, <2>4
<1>8. \A b \in Actor : \A id \in DOMAIN pending'[b] :
         \/ id \in DOMAIN pending[b] /\ pending'[b][id] = pending[b][id]
         \/ b = a /\ pending'[b][id].request = q
  BY <1>6, <1>7
<1>9. \A b \in Actor : closing[b] \subseteq closing'[b]
  BY <1>2, <1>3
<1>10. kind = "decode" => Clear(q)
  <2>1. ASSUME kind = "decode", NEW S, Closed(q.actor, S) PROVE q.seats \cap S = {}
    <3>1. S \subseteq closing[a]
      BY <1>4, <2>1 DEF Closed
    <3> QED
      BY <1>4, <2>1, <3>1
  <2> QED
    BY <2>1 DEF Clear
<1>11. ASSUME kind # "decode" PROVE Closed(a, ss)'
  <2>1. ss \subseteq closing'[a]
    BY <1>2, <1>3, <1>11
  <2>2. ASSUME NEW id, id \in DOMAIN pending'[a], ~Cleanup(pending'[a][id].request)
        PROVE  pending'[a][id].request.seats \cap ss = {}
    <3>1. id \in DOMAIN pending[a] /\ pending'[a][id] = pending[a][id]
      BY <1>4, <1>8, <1>11, <2>2
    <3>2. pending[a][id].request.seats \subseteq Waiting(a)
      BY <3>1 DEF Waiting
    <3> QED
      BY <1>11, <3>1, <3>2
  <2> QED
    BY <2>1, <2>2 DEF Closed, Cleanup
<1>12. LoadedInv' /\ AnswerInv'
  BY <1>2, ActorQuiet
<1>13. CASE frozen
  BY <1>2, <1>12, <1>13 DEF CleanInv
<1>14. CASE ~frozen
  <2>1. OrderInv /\ ClosedInv
    BY <1>14 DEF CleanInv
  <2>2. OrderInv' /\ OnTheWay' = OnTheWay \cup {q}
    BY <1>2, <1>4, <1>10, <2>1, EnqueueOrder
  <2>3. PICK fresh : fresh = IF kind = "decode" THEN {} ELSE {ss}
    OBVIOUS
  <2>4. ASSUME NEW S, S \in fresh PROVE Closed(a, S)'
    <3>1. kind # "decode" /\ S = ss
      BY <2>3, <2>4
    <3> QED
      BY <1>11, <3>1
  <2>5. ASSUME NEW b \in Actor, NEW id, id \in DOMAIN pending'[b]
        PROVE  /\ pending'[b][id].request.actor = b
               /\ ~Cleanup(pending'[b][id].request) => Clear(pending'[b][id].request)
               /\ Cleanup(pending'[b][id].request) =>
                    \/ Closed(b, pending'[b][id].request.seats)
                    \/ b = a /\ pending'[b][id].request.seats \in fresh
    <3>1. CASE id \in DOMAIN pending[b] /\ pending'[b][id] = pending[b][id]
      <4>1. pending[b][id].request.actor = b
        BY <1>0, <3>1 DEF PastInv
      <4>2. Cleanup(pending[b][id].request) => Closed(b, pending[b][id].request.seats)
        BY <2>1, <3>1 DEF ClosedInv
      <4>3. ~Cleanup(pending[b][id].request) => Clear(pending[b][id].request)
        BY <3>1, <4>1 DEF Clear, Closed
      <4> QED
        BY <3>1, <4>1, <4>2, <4>3
    <3>2. CASE b = a /\ pending'[b][id].request = q
      BY <1>4, <1>10, <2>3, <3>2
    <3> QED
      BY <1>8, <2>5, <3>1, <3>2
  <2>6. \A x \in OnTheWay' :
              \/ x \in OnTheWay
              \/ /\ x \in Request
                 /\ ~Cleanup(x) => Clear(x)
                 /\ Cleanup(x) => \/ Closed(x.actor, x.seats)
                                  \/ x.actor = a /\ x.seats \in fresh
    BY <1>4, <1>10, <2>2, <2>3
  <2>7. ClosedInv' /\ DoneInv' /\ StaysDone
    <3>1. \A S \in fresh : Closed(a, S)'
      BY <2>4
    <3>2. \A b \in Actor : Range(inbox'[b]) \subseteq Range(inbox[b])
      BY <1>2
    <3>3. \A b \in Actor : ended'[b] = ended[b]
      BY <1>2
    <3>4. \A b \in Actor : \A id \in DOMAIN pending'[b] :
              /\ pending'[b][id].request.actor = b
              /\ ~Cleanup(pending'[b][id].request) => Clear(pending'[b][id].request)
              /\ Cleanup(pending'[b][id].request) =>
                    \/ Closed(b, pending'[b][id].request.seats)
                    \/ b = a /\ pending'[b][id].request.seats \in fresh
      BY <2>5
    <3>5. router' = router /\ incarnation' = incarnation
      BY <1>2
    <3> QED
      BY <1>9, <1>14, <2>6, <3>1, <3>2, <3>3, <3>4, <3>5, ActorCleans
  <2> QED
    BY <1>12, <2>2, <2>7 DEF CleanInv
<1> QED
  BY <1>13, <1>14

\* An actor that asks for nothing new.
LEMMA WaitingCleans ==
    ASSUME StateInv, CleanInv, NEW a \in Actor,
           UNCHANGED <<router, frozen, loaded, lookahead, batch, incarnation>>,
           \A b \in Actor : closing[b] \subseteq closing'[b],
           \A b \in Actor : \A id \in DOMAIN pending'[b] :
              id \in DOMAIN pending[b] /\ pending'[b][id].request = pending[b][id].request,
           \/ queue' = queue
           \/ \E id \in DOMAIN pending[a] : queue' = Append(queue, pending[a][id].request),
           \A b \in Actor : Range(inbox'[b]) \subseteq Range(inbox[b]),
           \A b \in Actor :
              \/ ended'[b] = ended[b]
              \/ \E p \in Range(inbox[b]) :
                    /\ Cleanup(p) /\ p.ok /\ Mine(p)
                    /\ ended'[b] = ended[b] \cup p.seats
    PROVE  CleanInv' /\ (~frozen => StaysDone)
<1>0. TypeInv /\ PastInv
  BY DEF StateInv
<1>1. LoadedInv' /\ AnswerInv'
  BY ActorQuiet
<1>2. CASE frozen
  BY <1>1, <1>2 DEF CleanInv
<1>3. CASE ~frozen
  <2>1. OrderInv /\ ClosedInv
    BY <1>3 DEF CleanInv
  <2>2. ASSUME NEW b \in Actor, NEW id \in DOMAIN pending[b]
        PROVE  /\ pending[b][id].request \in Request
               /\ pending[b][id].request.actor = b
               /\ Mine(pending[b][id].request)
               /\ ~Cleanup(pending[b][id].request) => Clear(pending[b][id].request)
               /\ Cleanup(pending[b][id].request) =>
                     Closed(b, pending[b][id].request.seats)
    <3>1. /\ pending[b][id].request.actor = b
          /\ pending[b][id].request.incarnation = incarnation[b]
      BY <1>0 DEF PastInv
    <3>2. pending[b][id].request \in Request
      <4>1. PICK f : f = pending[b]
        OBVIOUS
      <4>2. f \in Maps(Nat, Entry)
        BY <1>0, <4>1 DEF TypeInv
      <4>3. f[id] \in Entry
        BY <4>1, <4>2, MapFacts
      <4> QED
        BY <4>1, <4>3 DEF Entry
    <3>3. Cleanup(pending[b][id].request) => Closed(b, pending[b][id].request.seats)
      BY <2>1 DEF ClosedInv
    <3>4. ~Cleanup(pending[b][id].request) => Clear(pending[b][id].request)
      BY <3>1 DEF Clear, Closed
    <3> QED
      BY <3>1, <3>2, <3>3, <3>4 DEF Mine
  <2>3. /\ OrderInv'
        /\ \A x \in OnTheWay' :
              \/ x \in OnTheWay
              \/ x \in Request /\ (~Cleanup(x) => Clear(x))
                 /\ (Cleanup(x) => Closed(x.actor, x.seats))
    <3>1. CASE queue' = queue
      <4>1. OnTheWay' = OnTheWay
        BY <3>1 DEF OnTheWay
      <4>2. OrderInv'
        BY <2>1, <3>1 DEF OrderInv, Apart, Cleanup
      <4> QED
        BY <4>1, <4>2
    <3>2. ASSUME NEW id \in DOMAIN pending[a],
                 queue' = Append(queue, pending[a][id].request)
          PROVE  /\ OrderInv'
                 /\ \A x \in OnTheWay' :
                       \/ x \in OnTheWay
                       \/ x \in Request /\ (~Cleanup(x) => Clear(x))
                          /\ (Cleanup(x) => Closed(x.actor, x.seats))
      <4>1. PICK q : q = pending[a][id].request
        OBVIOUS
      <4>2. /\ q \in Request /\ q.actor = a /\ Mine(q) /\ (~Cleanup(q) => Clear(q))
            /\ Cleanup(q) => Closed(a, q.seats)
        BY <2>2, <3>2, <4>1
      <4>3. queue' = Append(queue, q)
        BY <3>2, <4>1
      <4>4. OrderInv' /\ OnTheWay' = OnTheWay \cup {q}
        BY <2>1, <4>2, <4>3, EnqueueOrder
      <4> QED
        BY <4>2, <4>4
    <3> QED
      BY <3>1, <3>2
  <2>4. \A b \in Actor : \A id \in DOMAIN pending'[b] :
              /\ pending'[b][id].request.actor = b
              /\ ~Cleanup(pending'[b][id].request) => Clear(pending'[b][id].request)
              /\ Cleanup(pending'[b][id].request) =>
                    Closed(b, pending'[b][id].request.seats)
    BY <2>2
  <2>5. ClosedInv' /\ DoneInv' /\ StaysDone
    <3>1. PICK fresh : fresh = {}
      OBVIOUS
    <3>2. \A ss \in fresh : Closed(a, ss)'
      BY <3>1
    <3>3. \A b \in Actor : \A id \in DOMAIN pending'[b] :
              /\ pending'[b][id].request.actor = b
              /\ ~Cleanup(pending'[b][id].request) => Clear(pending'[b][id].request)
              /\ Cleanup(pending'[b][id].request) =>
                    \/ Closed(b, pending'[b][id].request.seats)
                    \/ b = a /\ pending'[b][id].request.seats \in fresh
      BY <2>4
    <3>4. \A q \in OnTheWay' :
              \/ q \in OnTheWay
              \/ /\ q \in Request
                 /\ ~Cleanup(q) => Clear(q)
                 /\ Cleanup(q) => \/ Closed(q.actor, q.seats)
                                  \/ q.actor = a /\ q.seats \in fresh
      BY <2>3
    <3> QED
      BY <1>3, <3>2, <3>3, <3>4, ActorCleans
  <2> QED
    BY <1>1, <2>3, <2>5 DEF CleanInv
<1> QED
  BY <1>2, <1>3

LEMMA ReceiveCleans == \A a \in Actor : StateInv /\ CleanInv /\ Receive(a)
        => CleanInv' /\ (~frozen => StaysDone)
<1> SUFFICES ASSUME NEW a \in Actor, StateInv, CleanInv, Receive(a)
             PROVE  CleanInv' /\ (~frozen => StaysDone)
  OBVIOUS
<1>0. TypeInv
  BY DEF StateInv
<1>1. PICK p : p = Head(inbox[a])
  OBVIOUS
<1>2. PICK mine : mine = (p.incarnation = incarnation[a] /\ p.id \in DOMAIN pending[a])
  OBVIOUS
<1>3. /\ inbox[a] # <<>>
      /\ inbox' = [inbox EXCEPT ![a] = Tail(@)]
      /\ pending' = IF mine THEN [pending EXCEPT ![a] = Restrict(@, DOMAIN @ \ {p.id})]
                    ELSE pending
      /\ closing' = IF mine /\ ~p.ok /\ p.kind = "decode"
                    THEN [closing EXCEPT ![a] = @ \cup p.seats] ELSE closing
      /\ ended' = IF mine /\ p.ok /\ p.kind # "decode"
                  THEN [ended EXCEPT ![a] = @ \cup p.seats] ELSE ended
      /\ UNCHANGED <<router, frozen, loaded, lookahead, batch, queue,
                     incarnation, nextRequest>>
  BY <1>1, <1>2 DEF Receive, serverVars
<1>4. /\ inbox \in [Actor -> Seq(Response)]
      /\ pending \in [Actor -> Maps(Nat, Entry)]
      /\ closing \in [Actor -> SUBSET Seat]
      /\ ended \in [Actor -> SUBSET Seat]
  BY <1>0 DEF TypeInv
<1>5. p \in Range(inbox[a]) /\ Range(Tail(inbox[a])) \subseteq Range(inbox[a])
  BY <1>1, <1>3, <1>4, TailFacts
<1>6. \A b \in Actor : Range(inbox'[b]) \subseteq Range(inbox[b])
  BY <1>3, <1>4, <1>5
<1>7. \A b \in Actor : closing[b] \subseteq closing'[b]
  BY <1>3, <1>4
<1>8. \A b \in Actor : \A id \in DOMAIN pending'[b] :
         id \in DOMAIN pending[b] /\ pending'[b][id].request = pending[b][id].request
  <2>1. CASE mine
    <3>1. PICK f, E : f = pending[a] /\ E = DOMAIN f \ {p.id}
      OBVIOUS
    <3>2. f \in Maps(Nat, Entry) /\ E \subseteq DOMAIN f
      BY <1>4, <3>1
    <3>3. DOMAIN Restrict(f, E) = E /\ \A x \in E : Restrict(f, E)[x] = f[x]
      BY <3>2, RestrictMaps
    <3>4. pending' = [pending EXCEPT ![a] = Restrict(f, E)]
      BY <1>3, <2>1, <3>1
    <3>5. pending'[a] = Restrict(f, E) /\ \A b \in Actor : b # a => pending'[b] = pending[b]
      BY <1>4, <3>4
    <3>6. \A id \in DOMAIN pending'[a] :
             id \in DOMAIN pending[a] /\ pending'[a][id] = pending[a][id]
      BY <3>1, <3>2, <3>3, <3>5
    <3> QED
      BY <3>5, <3>6
  <2>2. CASE ~mine
    BY <1>3, <2>2
  <2> QED
    BY <2>1, <2>2
<1>9. \A b \in Actor :
         \/ ended'[b] = ended[b]
         \/ \E x \in Range(inbox[b]) :
               /\ Cleanup(x) /\ x.ok /\ Mine(x)
               /\ ended'[b] = ended[b] \cup x.seats
  <2>1. CASE mine /\ p.ok /\ p.kind # "decode"
    <3>1. p.actor = a
      BY <1>5 DEF CleanInv, AnswerInv
    <3>2. Cleanup(p) /\ p.ok /\ Mine(p)
      BY <1>2, <2>1, <3>1 DEF Cleanup, Mine
    <3>3. ended'[a] = ended[a] \cup p.seats /\ \A b \in Actor : b # a => ended'[b] = ended[b]
      BY <1>3, <1>4, <2>1
    <3> QED
      BY <1>5, <3>2, <3>3
  <2>2. CASE ~(mine /\ p.ok /\ p.kind # "decode")
    BY <1>3, <2>2
  <2> QED
    BY <2>1, <2>2
<1>10. UNCHANGED <<router, frozen, loaded, lookahead, batch, incarnation>>
  BY <1>3
<1>11. queue' = queue
  BY <1>3
<1> QED
  BY <1>6, <1>7, <1>8, <1>9, <1>10, <1>11, WaitingCleans

LEMMA RetryCleans == \A a \in Actor : StateInv /\ CleanInv /\ Retry(a)
        => CleanInv' /\ (~frozen => StaysDone)
<1> SUFFICES ASSUME NEW a \in Actor, StateInv, CleanInv, Retry(a)
             PROVE  CleanInv' /\ (~frozen => StaysDone)
  OBVIOUS
<1>0. TypeInv
  BY DEF StateInv
<1>1. PICK id \in DOMAIN pending[a] :
        /\ queue' = Append(queue, pending[a][id].request)
        /\ pending' = [pending EXCEPT ![a][id].attempts = @ + 1]
        /\ UNCHANGED <<router, frozen, loaded, lookahead, batch, incarnation,
                       nextRequest, binding, closing, ended, inbox>>
  BY DEF Retry, serverVars
<1>2. PICK f, p : f = pending[a] /\ p = [f EXCEPT ![id].attempts = @ + 1]
  OBVIOUS
<1>3. pending \in [Actor -> Maps(Nat, Entry)] /\ f \in Maps(Nat, Entry)
  BY <1>0, <1>2 DEF TypeInv
<1>4. pending'[a] = p /\ \A b \in Actor : b # a => pending'[b] = pending[b]
  BY <1>1, <1>2, <1>3
<1>5. DOMAIN p = DOMAIN f /\ \A x \in DOMAIN f : p[x].request = f[x].request
  <2>1. DOMAIN p = DOMAIN f /\ \A x \in DOMAIN f : x # id => p[x] = f[x]
    BY <1>2
  <2>2. p[id] = [f[id] EXCEPT !.attempts = @ + 1]
    BY <1>1, <1>2
  <2>3. p[id].request = f[id].request
    <3>1. f[id] \in Entry
      BY <1>1, <1>2, <1>3, MapFacts
    <3> QED
      BY <2>2, <3>1 DEF Entry
  <2> QED
    BY <2>1, <2>3
<1>6. \A b \in Actor : \A x \in DOMAIN pending'[b] :
         x \in DOMAIN pending[b] /\ pending'[b][x].request = pending[b][x].request
  <2>1. TAKE b \in Actor
  <2>2. CASE b = a
    <3>1. pending'[b] = p /\ pending[b] = f
      BY <1>2, <1>4, <2>2
    <3> QED
      BY <1>5, <3>1
  <2>3. CASE b # a
    BY <1>4, <2>3
  <2> QED
    BY <2>2, <2>3
<1>7. \E x \in DOMAIN pending[a] : queue' = Append(queue, pending[a][x].request)
  BY <1>1
<1>8. /\ UNCHANGED <<router, frozen, loaded, lookahead, batch, incarnation>>
      /\ \A b \in Actor : closing[b] \subseteq closing'[b]
      /\ \A b \in Actor : Range(inbox'[b]) \subseteq Range(inbox[b])
      /\ \A b \in Actor : ended'[b] = ended[b]
  BY <1>1
<1> QED
  BY <1>6, <1>7, <1>8, WaitingCleans

LEMMA AbandonCleans == \A a \in Actor : StateInv /\ CleanInv /\ Abandon(a)
        => CleanInv' /\ (~frozen => StaysDone)
<1> SUFFICES ASSUME NEW a \in Actor, StateInv, CleanInv, Abandon(a)
             PROVE  CleanInv' /\ (~frozen => StaysDone)
  OBVIOUS
<1>0. TypeInv
  BY DEF StateInv
<1>1. PICK id \in DOMAIN pending[a] :
        /\ pending' = [pending EXCEPT ![a] = Restrict(@, DOMAIN @ \ {id})]
        /\ closing' = IF pending[a][id].request.kind = "decode"
                      THEN [closing EXCEPT ![a] = @ \cup pending[a][id].request.seats]
                      ELSE closing
        /\ UNCHANGED <<router, frozen, loaded, lookahead, batch, queue,
                       incarnation, nextRequest, binding, ended, inbox>>
  BY DEF Abandon, serverVars
<1>2. PICK f, E : f = pending[a] /\ E = DOMAIN f \ {id}
  OBVIOUS
<1>3. /\ pending \in [Actor -> Maps(Nat, Entry)] /\ f \in Maps(Nat, Entry)
      /\ closing \in [Actor -> SUBSET Seat]
  BY <1>0, <1>2 DEF TypeInv
<1>4. E \subseteq DOMAIN f
  BY <1>2
<1>5. DOMAIN Restrict(f, E) = E /\ \A x \in E : Restrict(f, E)[x] = f[x]
  BY <1>3, <1>4, RestrictMaps
<1>6. pending' = [pending EXCEPT ![a] = Restrict(f, E)]
  BY <1>1, <1>2
<1>7. pending'[a] = Restrict(f, E) /\ \A b \in Actor : b # a => pending'[b] = pending[b]
  BY <1>3, <1>6
<1>8. \A x \in DOMAIN pending'[a] :
         x \in DOMAIN pending[a] /\ pending'[a][x] = pending[a][x]
  BY <1>2, <1>4, <1>5, <1>7
<1>9. \A b \in Actor : \A x \in DOMAIN pending'[b] :
         x \in DOMAIN pending[b] /\ pending'[b][x].request = pending[b][x].request
  BY <1>7, <1>8
<1>10. /\ UNCHANGED <<router, frozen, loaded, lookahead, batch, incarnation>>
       /\ queue' = queue
       /\ \A b \in Actor : Range(inbox'[b]) \subseteq Range(inbox[b])
       /\ \A b \in Actor : ended'[b] = ended[b]
  BY <1>1
<1>11. \A b \in Actor : closing[b] \subseteq closing'[b]
  BY <1>1, <1>3
<1> QED
  BY <1>9, <1>10, <1>11, WaitingCleans

\* A new process asked for nothing, and nothing that is under way is its own.
LEMMA RestartCleans == \A a \in Actor : StateInv /\ CleanInv /\ Restart(a) => CleanInv'
<1> SUFFICES ASSUME NEW a \in Actor, StateInv, CleanInv, Restart(a) PROVE CleanInv'
  OBVIOUS
<1>0. TypeInv /\ PastInv /\ AnswerInv
  BY DEF StateInv, CleanInv
<1>1. /\ incarnation' = [incarnation EXCEPT ![a] = @ + 1]
      /\ pending' = [pending EXCEPT ![a] = <<>>]
      /\ closing' = [closing EXCEPT ![a] = {}]
      /\ ended' = [ended EXCEPT ![a] = {}]
      /\ UNCHANGED <<router, frozen, loaded, lookahead, batch, queue, inbox>>
  BY DEF Restart, serverVars
<1>2. /\ incarnation \in [Actor -> Nat]
      /\ pending \in [Actor -> Maps(Nat, Entry)]
      /\ closing \in [Actor -> SUBSET Seat]
      /\ ended \in [Actor -> SUBSET Seat]
  BY <1>0 DEF TypeInv
<1>3. /\ incarnation[a] \in Nat
      /\ incarnation'[a] = incarnation[a] + 1
      /\ DOMAIN pending'[a] = {} /\ ended'[a] = {}
      /\ \A b \in Actor : b # a =>
            /\ incarnation'[b] = incarnation[b] /\ pending'[b] = pending[b]
            /\ closing'[b] = closing[b] /\ ended'[b] = ended[b]
  <2>1. DOMAIN <<>> = {}
    OBVIOUS
  <2> QED
    BY <1>1, <1>2, <2>1
<1>4. LoadedInv'
  BY <1>1 DEF CleanInv, LoadedInv
<1>5. \A p \in Range(router.replays) : p \in Response
  <2>1. router.replays \in Seq(Response)
    BY DEF StateInv, RouterInv, Router
  <2> QED
    BY <2>1, RangeOfSeq
<1>6. \A b \in Actor : \A p \in Range(inbox[b]) : p \in Response
  <2>1. TAKE b \in Actor
  <2>2. inbox[b] \in Seq(Response)
    BY <1>0 DEF TypeInv
  <2> QED
    BY <2>2, RangeOfSeq
<1>7. ASSUME NEW b \in Actor, NEW i \in Nat, i <= incarnation[b]
      PROVE  /\ i <= incarnation'[b]
             /\ i = incarnation'[b] => b # a /\ i = incarnation[b]
  BY <1>2, <1>3, <1>7
<1>8. AnswerInv'
  <2>1. \A p \in Range(router.replays) : p.incarnation <= incarnation'[p.actor]
    BY <1>0, <1>5, <1>7 DEF AnswerInv, Response
  <2>2. \A b \in Actor : \A p \in Range(inbox[b]) :
          p.actor = b /\ p.incarnation <= incarnation'[b]
    BY <1>0, <1>6, <1>7 DEF AnswerInv, Response
  <2> QED
    BY <1>1, <2>1, <2>2 DEF AnswerInv
<1>9. CASE frozen
  BY <1>1, <1>4, <1>8, <1>9 DEF CleanInv
<1>10. CASE ~frozen
  <2>0. OrderInv /\ ClosedInv /\ DoneInv
    BY <1>10 DEF CleanInv
  <2>1. OrderInv'
    BY <1>1, <2>0 DEF OrderInv, Apart, Cleanup
  <2>2. OnTheWay' = OnTheWay
    BY <1>1 DEF OnTheWay
  <2>3. ASSUME NEW q \in OnTheWay, Mine(q)'
        PROVE  q.actor \in Actor /\ q.actor # a /\ Mine(q)
    <3>1. q \in Request
      BY <1>0, OnTheWayTyped
    <3>2. q.incarnation <= incarnation[q.actor]
      BY <1>0 DEF PastInv, OnTheWay
    <3>3. q.actor \in Actor /\ q.incarnation \in Nat
      BY <3>1 DEF Request
    <3>4. q.incarnation = incarnation'[q.actor]
      BY <2>3 DEF Mine
    <3> QED
      BY <1>7, <3>2, <3>3, <3>4 DEF Mine
  <2>4. ASSUME NEW b \in Actor, b # a, NEW ss, Closed(b, ss) PROVE Closed(b, ss)'
    BY <1>3, <2>4 DEF Closed, Cleanup
  <2>5. ASSUME NEW b \in Actor, b # a, NEW ss, Done(b, ss) PROVE Done(b, ss)'
    <3>1. Closed(b, ss) /\ Undecoded(b, ss) /\ Unheld(b, ss)
      BY <2>5 DEF Done
    <3>2. ASSUME NEW q \in OnTheWay, q.actor = b, ~Cleanup(q), Mine(q)'
          PROVE  q.seats \cap ss = {}
      BY <2>3, <3>1, <3>2 DEF Undecoded
    <3>3. Undecoded(b, ss)'
      BY <2>2, <3>2 DEF Undecoded, Cleanup
    <3>4. Unheld(b, ss)'
      BY <1>1, <1>3, <2>5, <3>1 DEF Unheld, KeyOf
    <3> QED
      BY <2>4, <2>5, <3>1, <3>3, <3>4 DEF Done
  <2>6. ClosedInv'
    <3>1. \A q \in OnTheWay : Cleanup(q) /\ Mine(q)' => Closed(q.actor, q.seats)'
      BY <2>0, <2>3, <2>4 DEF ClosedInv
    <3>2. ASSUME NEW b \in Actor, NEW id, id \in DOMAIN pending'[b],
                 Cleanup(pending'[b][id].request),
                 NEW ss, ss = pending'[b][id].request.seats
          PROVE  Closed(b, ss)'
      <4>1. b # a /\ pending'[b] = pending[b]
        BY <1>3, <3>2
      <4>2. Closed(b, ss)
        BY <2>0, <3>2, <4>1 DEF ClosedInv
      <4> QED
        BY <2>4, <4>1, <4>2
    <3>3. (\A b \in Actor : \A id \in DOMAIN pending[b] :
         Cleanup(pending[b][id].request) => Closed(b, pending[b][id].request.seats))'
      BY <3>2 DEF Closed, Cleanup
    <3> QED
      BY <2>2, <3>1, <3>3 DEF ClosedInv, Cleanup
  <2>7. ASSUME NEW p \in Response, p.incarnation <= incarnation[p.actor], Mine(p)'
        PROVE  p.actor \in Actor /\ p.actor # a /\ Mine(p)
    <3>1. p.actor \in Actor /\ p.incarnation \in Nat
      BY DEF Response
    <3>2. p.incarnation = incarnation'[p.actor]
      BY <2>7 DEF Mine
    <3> QED
      BY <1>7, <2>7, <3>1, <3>2 DEF Mine
  <2>8. ASSUME NEW p \in Range(router.replays), Cleanup(p), p.ok, Mine(p)'
        PROVE  Done(p.actor, p.seats)'
    <3>1. p.actor \in Actor /\ p.actor # a /\ Mine(p)
      BY <1>0, <1>5, <2>7, <2>8 DEF AnswerInv
    <3>2. Done(p.actor, p.seats)
      BY <2>0, <2>8, <3>1 DEF DoneInv
    <3> QED
      BY <2>5, <3>1, <3>2
  <2>9. ASSUME NEW b \in Actor, NEW p \in Range(inbox[b]), Cleanup(p), p.ok, Mine(p)'
        PROVE  Done(b, p.seats)'
    <3>1. p.actor = b /\ p \in Response /\ p.incarnation <= incarnation[p.actor]
      BY <1>0, <1>6 DEF AnswerInv
    <3>2. b # a /\ Mine(p)
      BY <2>7, <2>9, <3>1
    <3>3. Done(b, p.seats)
      BY <2>0, <2>9, <3>2 DEF DoneInv
    <3> QED
      BY <2>5, <3>2, <3>3
  <2>10. ASSUME NEW b \in Actor, NEW ss, ss = ended'[b] PROVE Done(b, ss)'
    <3>1. CASE b = a
      <4>1. ss = {}
        BY <1>3, <2>10, <3>1
      <4> QED
        BY <4>1 DEF Done, Closed, Undecoded, Unheld
    <3>2. CASE b # a
      <4>1. Done(b, ss)
        BY <1>3, <2>0, <2>10, <3>2 DEF DoneInv
      <4> QED
        BY <2>5, <3>2, <4>1
    <3> QED
      BY <3>1, <3>2
  <2>11. DoneInv'
    <3>1. (\A b \in Actor : Done(b, ended[b]))'
      BY <2>10 DEF Done, Closed, Undecoded, Unheld
    <3>2. \A p \in Range(router'.replays) :
          Cleanup(p) /\ p.ok /\ Mine(p)' => Done(p.actor, p.seats)'
      BY <1>1, <2>8
    <3>3. \A b \in Actor : \A p \in Range(inbox'[b]) :
          Cleanup(p) /\ p.ok /\ Mine(p)' => Done(b, p.seats)'
      BY <1>1, <2>9
    <3> QED
      BY <3>1, <3>2, <3>3 DEF DoneInv, Cleanup
  <2> QED
    BY <1>4, <1>8, <2>1, <2>6, <2>11 DEF CleanInv
<1> QED
  BY <1>9, <1>10

LEMMA ClientCleans == \A a \in Actor : StateInv /\ CleanInv /\ Client(a) => CleanInv'
<1> SUFFICES ASSUME NEW a \in Actor, StateInv, CleanInv, Client(a) PROVE CleanInv'
  OBVIOUS
<1>1. /\ Idle(a) \subseteq Seat /\ Idle(a) \cap Waiting(a) = {}
      /\ Version \subseteq Nat /\ Unbound \in Nat
  BY RecurrentAssumption DEF Idle, Version, Unbound
<1>2. "decode" \in Kind /\ "release" \in Kind /\ "abort" \in Kind
  BY DEF Kind
<1>3. CASE SubmitFirst(a)
  <2>1. PICK ss \in SUBSET Seat : Submit(a, "decode", ss, Unbound) /\ ss \cap closing[a] = {}
    BY <1>1, <1>3 DEF SubmitFirst
  <2> QED
    BY <1>1, <1>2, <2>1, SubmitCleans
<1>4. CASE SubmitNext(a)
  <2>1. PICK ss \in SUBSET Seat, v \in Nat :
           Submit(a, "decode", ss, v) /\ ss \cap closing[a] = {}
    BY <1>1, <1>4 DEF SubmitNext
  <2> QED
    BY <1>2, <2>1, SubmitCleans
<1>5. CASE SubmitRelease(a)
  <2>1. PICK ss \in SUBSET Seat, v \in Nat :
           Submit(a, "release", ss, v) /\ ss \cap Waiting(a) = {}
    BY <1>1, <1>5 DEF SubmitRelease
  <2> QED
    BY <1>2, <2>1, SubmitCleans
<1>6. CASE SubmitAbort(a)
  <2>1. PICK ss \in SUBSET Seat :
           Submit(a, "abort", ss, Unbound) /\ ss \cap Waiting(a) = {}
    BY <1>1, <1>6 DEF SubmitAbort
  <2> QED
    BY <1>1, <1>2, <2>1, SubmitCleans
<1> QED
  BY <1>3, <1>4, <1>5, <1>6, ReceiveCleans, RetryCleans, AbandonCleans, RestartCleans
  DEF Client

LEMMA InitCleans == Init => CleanInv
<1> SUFFICES ASSUME Init PROVE CleanInv
  OBVIOUS
<1>1. /\ router.sequences = <<>> /\ router.replays = <<>>
      /\ queue = <<>> /\ lookahead = <<>> /\ batch = <<>>
      /\ loaded = ~frozen
      /\ \A a \in Actor : pending[a] = <<>> /\ inbox[a] = <<>> /\ ended[a] = {}
  BY DEF Init
<1>2. DOMAIN <<>> = {} /\ Range(<<>>) = {} /\ Len(<<>>) = 0
  BY EmptyFacts, EmptySeq
<1>3. OnTheWay = {}
  BY <1>1, <1>2 DEF OnTheWay
<1>4. LoadedInv /\ AnswerInv
  <2>1. AnswerInv
    BY <1>1, <1>2 DEF AnswerInv
  <2>2. Len(lookahead) <= 1
    BY <1>1, <1>2
  <2>3. ~frozen => loaded
    BY <1>1
  <2> QED
    BY <2>1, <2>2, <2>3 DEF LoadedInv
<1>5. OrderInv
  BY <1>1, <1>2 DEF OrderInv
<1>6. ClosedInv
  BY <1>1, <1>2, <1>3 DEF ClosedInv
<1>7. ASSUME NEW a \in Actor PROVE Done(a, ended[a])
  BY <1>1 DEF Done, Closed, Undecoded, Unheld
<1>8. DoneInv
  BY <1>1, <1>2, <1>7 DEF DoneInv
<1> QED
  BY <1>4, <1>5, <1>6, <1>8 DEF CleanInv

LEMMA NextCleans == StateInv /\ CleanInv /\ [Next]_vars => CleanInv'
<1> SUFFICES ASSUME StateInv, CleanInv, [Next]_vars PROVE CleanInv'
  OBVIOUS
<1>1. CASE UNCHANGED vars
  <2>1. UNCHANGED <<router, frozen, loaded, queue, lookahead, batch, incarnation,
                    pending, inbox, closing, ended>>
    BY <1>1 DEF vars, serverVars, actorVars
  <2>2. LoadedInv' /\ AnswerInv' /\ OnTheWay' = OnTheWay
    BY <2>1 DEF CleanInv, LoadedInv, AnswerInv, OnTheWay
  <2>3. OrderInv => OrderInv'
    BY <2>1 DEF OrderInv, Apart, Cleanup
  <2>4. ASSUME NEW a, NEW ss PROVE Closed(a, ss)' <=> Closed(a, ss)
    BY <2>1 DEF Closed, Cleanup
  <2>5. ASSUME NEW q PROVE Mine(q)' <=> Mine(q)
    BY <2>1 DEF Mine
  <2>6. ASSUME NEW a, NEW ss, Done(a, ss) PROVE Done(a, ss)'
    <3>1. Undecoded(a, ss)'
      BY <2>2, <2>5, <2>6 DEF Done, Undecoded, Cleanup
    <3>2. Unheld(a, ss)'
      BY <2>1, <2>6 DEF Done, Unheld, KeyOf
    <3> QED
      BY <2>4, <2>6, <3>1, <3>2 DEF Done
  <2>7. ClosedInv => ClosedInv'
    <3>1. SUFFICES ASSUME ClosedInv PROVE ClosedInv'
      OBVIOUS
    <3>2. \A q \in OnTheWay' : Cleanup(q) /\ Mine(q)' => Closed(q.actor, q.seats)'
      BY <2>2, <2>4, <2>5, <3>1 DEF ClosedInv
    <3>3. (\A b \in Actor : \A id \in DOMAIN pending[b] :
         Cleanup(pending[b][id].request) => Closed(b, pending[b][id].request.seats))'
      BY <2>1, <3>1 DEF ClosedInv, Closed, Cleanup
    <3> QED
      BY <3>2, <3>3 DEF ClosedInv, Cleanup
  <2>8. DoneInv => DoneInv'
    <3>1. SUFFICES ASSUME DoneInv PROVE DoneInv'
      OBVIOUS
    <3>2. \A p \in Range(router'.replays) :
            Cleanup(p) /\ p.ok /\ Mine(p)' => Done(p.actor, p.seats)'
      BY <2>1, <2>5, <2>6, <3>1 DEF DoneInv
    <3>3. \A b \in Actor : \A p \in Range(inbox'[b]) :
            Cleanup(p) /\ p.ok /\ Mine(p)' => Done(b, p.seats)'
      BY <2>1, <2>5, <2>6, <3>1 DEF DoneInv
    <3>4. ASSUME NEW b \in Actor, NEW ss, ss = ended[b] PROVE Done(b, ss)'
      BY <2>6, <3>1, <3>4 DEF DoneInv
    <3>5. (\A b \in Actor : Done(b, ended[b]))'
      BY <2>1, <3>4 DEF Done, Closed, Undecoded, Unheld
    <3> QED
      BY <3>2, <3>3, <3>5 DEF DoneInv, Cleanup
  <2> QED
    BY <2>1, <2>2, <2>3, <2>7, <2>8 DEF CleanInv
<1>2. CASE \E a \in Actor : Client(a)
  BY <1>2, ClientCleans
<1> QED
  BY <1>1, <1>2, LoadRouteCleans, PublishCleans, DrainCleans, ServeReplayCleans,
     ServeDecodeCleans, ServeReleaseCleans, ServeAbortCleans DEF Next, Server

LEMMA CleanedUp == CleanInv => EndedStaysReleased
BY DEF CleanInv, DoneInv, Done, Unheld, EndedStaysReleased

\* A release or an abort that was acknowledged stays done, on a route that was
\* loaded before its actors asked: no delayed or repeated decode, and no retry
\* whose answer came late, takes the lease again.
THEOREM CleanupStaysDone == Spec => []EndedStaysReleased
<1>1. Init => StateInv /\ CleanInv
  BY InitState, InitCleans
<1>2. StateInv /\ CleanInv /\ [Next]_vars => (StateInv /\ CleanInv)'
  BY NextState, NextCleans
<1>3. StateInv /\ CleanInv => EndedStaysReleased
  BY CleanedUp
<1> QED
  BY <1>1, <1>2, <1>3, PTL DEF Spec

(***************************************************************************)
(* The memory of released sequences                                        *)
(***************************************************************************)

\* The memory has room for what the running process of an actor released and for
\* all that others may release meanwhile.
Roomy ==
    \A a \in Actor :
        Cardinality([actor : Actor \ {a}, incarnation : 0 .. MaxIncarnation, seat : Seat])
            + Cardinality(Seat) <= ReplayCapacity

\* The keys in a memory are distinct, those of an actor in the order of its
\* processes, and none is of a process newer than generation g.
Ordered(T, g) ==
    /\ \A i, j \in DOMAIN T : T[i].key = T[j].key => i = j
    /\ \A i, j \in DOMAIN T : i < j /\ T[i].key.actor = T[j].key.actor =>
          T[i].key.incarnation <= T[j].key.incarnation
    /\ \A i \in DOMAIN T : T[i].key.incarnation <= g[T[i].key.actor]

\* entry of the newest process of its actor
Newborn(t, g) == t.key.incarnation = g[t.key.actor]

\* What others released at any time, and a itself with generation n.
Neighbours(a, n) ==
    [actor : Actor \ {a}, incarnation : 0 .. MaxIncarnation, seat : Seat]
        \cup {[actor |-> a, incarnation |-> n, seat |-> s] : s \in Seat}

LEMMA FiniteKeys ==
    ASSUME NEW A \in SUBSET Actor
    PROVE  IsFiniteSet([actor : A, incarnation : 0 .. MaxIncarnation, seat : Seat])
<1> DEFINE R == [actor : A, incarnation : 0 .. MaxIncarnation, seat : Seat]
           D == (A \X (0 .. MaxIncarnation)) \X Seat
           f == [d \in D |-> [actor |-> d[1][1], incarnation |-> d[1][2], seat |-> d[2]]]
<1>1. IsFiniteSet(A) /\ IsFiniteSet(0 .. MaxIncarnation) /\ IsFiniteSet(Seat)
  <2>1. MaxIncarnation \in Nat /\ IsFiniteSet(Actor) /\ IsFiniteSet(Seat)
    BY RecurrentAssumption
  <2>2. IsFiniteSet(A)
    BY <2>1, FS_Subset
  <2>3. IsFiniteSet(0 .. MaxIncarnation)
    BY <2>1, FS_Interval
  <2> QED
    BY <2>1, <2>2, <2>3
<1>2. IsFiniteSet(D)
  <2>1. IsFiniteSet(A \X (0 .. MaxIncarnation))
    BY <1>1, FS_Product
  <2> QED
    BY <1>1, <2>1, FS_Product
<1>3. f \in [D -> R]
  OBVIOUS
<1>4. \A k \in R : \E d \in D : f[d] = k
  <2>1. TAKE k \in R
  <2>2. k = [actor |-> k.actor, incarnation |-> k.incarnation, seat |-> k.seat]
    OBVIOUS
  <2>3. <<<<k.actor, k.incarnation>>, k.seat>> \in D
    OBVIOUS
  <2>4. f[<<<<k.actor, k.incarnation>>, k.seat>>] = k
    BY <2>2, <2>3
  <2> QED
    BY <2>3, <2>4
<1> HIDE DEF f, D, R
<1>5. f \in Surjection(D, R)
  BY <1>3, <1>4 DEF Surjection
<1>6. IsFiniteSet(R)
  BY <1>2, <1>5, FS_Surjection
<1> QED
  BY <1>6 DEF R

LEMMA SeatKeys ==
    ASSUME NEW a, NEW n
    PROVE  /\ IsFiniteSet({[actor |-> a, incarnation |-> n, seat |-> s] : s \in Seat})
           /\ Cardinality({[actor |-> a, incarnation |-> n, seat |-> s] : s \in Seat})
                 <= Cardinality(Seat)
<1> DEFINE K == {[actor |-> a, incarnation |-> n, seat |-> s] : s \in Seat}
           f == [s \in Seat |-> [actor |-> a, incarnation |-> n, seat |-> s]]
<1>1. f \in Surjection(Seat, K)
  BY DEF Surjection
<1>2. IsFiniteSet(Seat)
  BY RecurrentAssumption
<1> HIDE DEF f, K
<1>3. IsFiniteSet(K) /\ Cardinality(K) <= Cardinality(Seat)
  BY <1>1, <1>2, FS_Surjection
<1> QED
  BY <1>3 DEF K

LEMMA OthersBound ==
    ASSUME Roomy, NEW a \in Actor, NEW n
    PROVE  /\ IsFiniteSet(Neighbours(a, n))
           /\ Cardinality(Neighbours(a, n)) <= ReplayCapacity
<1>1. PICK X, Y :
        /\ X = [actor : Actor \ {a}, incarnation : 0 .. MaxIncarnation, seat : Seat]
        /\ Y = {[actor |-> a, incarnation |-> n, seat |-> s] : s \in Seat}
  OBVIOUS
<1>2. IsFiniteSet(X)
  BY <1>1, FiniteKeys
<1>3. IsFiniteSet(Y) /\ Cardinality(Y) <= Cardinality(Seat)
  BY <1>1, SeatKeys
<1>4. Neighbours(a, n) = X \cup Y
  BY <1>1 DEF Neighbours
<1>5. Cardinality(X) + Cardinality(Seat) <= ReplayCapacity
  BY <1>1 DEF Roomy
<1>6. /\ IsFiniteSet(X \cup Y)
      /\ Cardinality(X \cup Y) = Cardinality(X) + Cardinality(Y) - Cardinality(X \cap Y)
  BY <1>2, <1>3, FS_Union
<1>7. /\ Cardinality(X) \in Nat /\ Cardinality(Y) \in Nat /\ Cardinality(Seat) \in Nat
      /\ Cardinality(X \cap Y) \in Nat
  <2>1. IsFiniteSet(X \cap Y)
    BY <1>2, FS_Intersection
  <2> QED
    BY <1>2, <1>3, <2>1, FS_CardinalityType, RecurrentAssumption
<1>8. ReplayCapacity \in Nat
  BY RecurrentAssumption
<1> QED
  BY <1>3, <1>4, <1>5, <1>6, <1>7, <1>8

\* From an entry of a running process on, few are in the memory.
LEMMA FewAfter ==
    ASSUME Roomy, NEW T \in Seq(Tombstone), NEW g \in [Actor -> Int], Ordered(T, g),
           \A a \in Actor : g[a] <= MaxIncarnation,
           NEW i \in DOMAIN T, Newborn(T[i], g)
    PROVE  Len(T) - i + 1 <= ReplayCapacity
<1>1. /\ Len(T) \in Nat /\ DOMAIN T = 1 .. Len(T)
      /\ i \in Nat /\ 1 <= i /\ i <= Len(T)
      /\ \A j \in DOMAIN T : T[j] \in Tombstone
  BY LenProperties
<1>2. PICK a, n : a = T[i].key.actor /\ n = g[a]
  OBVIOUS
<1>3. a \in Actor /\ n \in Int
  BY <1>1, <1>2 DEF Tombstone, Key
<1>4. ASSUME NEW j \in i .. Len(T) PROVE T[j].key \in Neighbours(a, n)
  <2>1. j \in DOMAIN T /\ T[j] \in Tombstone
    BY <1>1
  <2>2. PICK k : k = T[j].key
    OBVIOUS
  <2>3. /\ k.actor \in Actor /\ k.incarnation \in Nat /\ k.seat \in Seat
        /\ k = [actor |-> k.actor, incarnation |-> k.incarnation, seat |-> k.seat]
    BY <2>1, <2>2 DEF Tombstone, Key
  <2>4. k.incarnation <= g[k.actor]
    BY <2>1, <2>2 DEF Ordered
  <2>5. k.incarnation \in 0 .. MaxIncarnation
    <3>1. g[k.actor] \in Int /\ g[k.actor] <= MaxIncarnation /\ MaxIncarnation \in Nat
      BY <2>3, RecurrentAssumption
    <3> QED
      BY <2>3, <2>4, <3>1
  <2>6. CASE k.actor # a
    BY <2>2, <2>3, <2>5, <2>6 DEF Neighbours
  <2>7. CASE k.actor = a
    <3>1. n <= k.incarnation
      <4>1. T[i].key.incarnation = n
        BY <1>2 DEF Newborn
      <4>2. i < j => T[i].key.incarnation <= T[j].key.incarnation
        BY <1>2, <2>1, <2>2, <2>7 DEF Ordered
      <4>3. i = j => k.incarnation = n
        BY <2>2, <4>1
      <4> QED
        BY <1>1, <1>3, <2>2, <4>1, <4>2, <4>3
    <3>2. k.incarnation = n
      BY <1>2, <1>3, <2>3, <2>4, <2>7, <3>1
    <3>3. k = [actor |-> a, incarnation |-> n, seat |-> k.seat]
      BY <2>3, <2>7, <3>2
    <3> QED
      BY <2>2, <2>3, <3>3 DEF Neighbours
  <2> QED
    BY <2>6, <2>7
<1> DEFINE f == [j \in i .. Len(T) |-> T[j].key]
<1>5. f \in Injection(i .. Len(T), Neighbours(a, n))
  <2>1. f \in [i .. Len(T) -> Neighbours(a, n)]
    BY <1>4
  <2>2. \A j, m \in i .. Len(T) : f[j] = f[m] => j = m
    BY <1>1 DEF Ordered
  <2> HIDE DEF f
  <2> QED
    BY <2>1, <2>2 DEF Injection, IsInjective
<1>6. IsFiniteSet(Neighbours(a, n)) /\ Cardinality(Neighbours(a, n)) <= ReplayCapacity
  BY <1>3, OthersBound
<1> HIDE DEF f
<1>7. Cardinality(i .. Len(T)) <= Cardinality(Neighbours(a, n))
  BY <1>5, <1>6, FS_Injection
<1>8. Cardinality(i .. Len(T)) = Len(T) - i + 1
  <2>1. i \in Int /\ Len(T) \in Int /\ ~(i > Len(T))
    BY <1>1
  <2>2. Cardinality(i .. Len(T)) = IF i > Len(T) THEN 0 ELSE Len(T) - i + 1
    BY <2>1, FS_Interval
  <2> QED
    BY <2>1, <2>2
<1>9. Cardinality(Neighbours(a, n)) \in Nat /\ ReplayCapacity \in Nat
  BY <1>6, FS_CardinalityType, RecurrentAssumption
<1> QED
  BY <1>1, <1>6, <1>7, <1>8, <1>9

LEMMA PartOrdered ==
    ASSUME NEW s \in Seq(Tombstone), NEW t \in Seq(Tombstone), NEW g,
           Ordered(s, g), Embeds(t, s, Len(s))
    PROVE  Ordered(t, g)
<1>1. PICK e \in [DOMAIN t -> 1 .. Len(s)] :
         /\ \A i \in DOMAIN t : t[i] = s[e[i]]
         /\ \A i, j \in DOMAIN t : i < j => e[i] < e[j]
  BY DEF Embeds
<1>2. DOMAIN s = 1 .. Len(s) /\ DOMAIN t = 1 .. Len(t) /\ Len(t) \in Nat /\ Len(s) \in Nat
  BY LenProperties
<1>3. \A i \in DOMAIN t : e[i] \in DOMAIN s /\ t[i] = s[e[i]]
  BY <1>1, <1>2
<1>4. \A i, j \in DOMAIN t : t[i].key = t[j].key => i = j
  <2>1. SUFFICES ASSUME NEW i \in DOMAIN t, NEW j \in DOMAIN t, t[i].key = t[j].key
                 PROVE  i = j
    OBVIOUS
  <2>2. e[i] = e[j]
    BY <1>3, <2>1 DEF Ordered
  <2>3. ~(i < j) /\ ~(j < i)
    BY <1>1, <1>2, <2>2
  <2> QED
    BY <1>2, <2>3
<1>5. \A i, j \in DOMAIN t : i < j /\ t[i].key.actor = t[j].key.actor =>
          t[i].key.incarnation <= t[j].key.incarnation
  <2>1. SUFFICES ASSUME NEW i \in DOMAIN t, NEW j \in DOMAIN t, i < j,
                        t[i].key.actor = t[j].key.actor
                 PROVE  t[i].key.incarnation <= t[j].key.incarnation
    OBVIOUS
  <2>2. e[i] < e[j] /\ e[i] \in DOMAIN s /\ e[j] \in DOMAIN s
    BY <1>1, <1>3, <2>1
  <2>3. s[e[i]].key.actor = s[e[j]].key.actor
    BY <1>3, <2>1
  <2>4. s[e[i]].key.incarnation <= s[e[j]].key.incarnation
    BY <2>2, <2>3 DEF Ordered
  <2> QED
    BY <1>3, <2>4
<1>6. \A i \in DOMAIN t : t[i].key.incarnation <= g[t[i].key.actor]
  BY <1>3 DEF Ordered
<1> QED
  BY <1>4, <1>5, <1>6 DEF Ordered

\* Newest is the rest of a memory from some place on.
LEMMA NewestIsRest ==
    ASSUME NEW T, NEW s \in Seq(T)
    PROVE  \E m \in Nat \ {0} :
              /\ Newest(s) = SubSeq(s, m, Len(s))
              /\ m = 1 \/ Len(s) - m + 1 = ReplayCapacity
<1>1. Len(s) \in Nat /\ ReplayCapacity \in Nat
  BY LenProperties, RecurrentAssumption
<1>2. CASE Len(s) > ReplayCapacity
  <2>1. Newest(s) = SubSeq(s, Len(s) - ReplayCapacity + 1, Len(s))
    BY <1>2 DEF Newest
  <2>2. Len(s) - ReplayCapacity + 1 \in Nat \ {0}
    BY <1>1, <1>2
  <2>3. Len(s) - (Len(s) - ReplayCapacity + 1) + 1 = ReplayCapacity
    BY <1>1
  <2> QED
    BY <2>1, <2>2, <2>3
<1>3. CASE ~(Len(s) > ReplayCapacity)
  <2>1. Newest(s) = SubSeq(s, 1, Len(s))
    BY <1>3 DEF Newest
  <2> QED
    BY <2>1
<1> QED
  BY <1>2, <1>3

\* The newest entries keep the order.
LEMMA NewestOrdered ==
    ASSUME NEW s \in Seq(Tombstone), NEW g, Ordered(s, g)
    PROVE  Ordered(Newest(s), g)
<1>1. PICK m \in Nat \ {0} : Newest(s) = SubSeq(s, m, Len(s))
  BY NewestIsRest
<1>2. Len(s) \in Nat /\ DOMAIN s = 1 .. Len(s)
  BY LenProperties
<1>3. PICK t : t = SubSeq(s, m, Len(s))
  OBVIOUS
<1>4. /\ t \in Seq(Tombstone)
      /\ Len(t) = IF m <= Len(s) THEN Len(s) - m + 1 ELSE 0
      /\ \A i \in DOMAIN t : t[i] = s[i + m - 1]
  BY <1>2, <1>3, PartFacts
<1>5. DOMAIN t = 1 .. Len(t)
  BY <1>4, LenProperties
<1>6. \A i \in DOMAIN t : i \in Nat /\ i + m - 1 \in 1 .. Len(s)
  BY <1>2, <1>4, <1>5
<1>7. [i \in DOMAIN t |-> i + m - 1] \in [DOMAIN t -> 1 .. Len(s)]
  BY <1>6
<1>8. \A i, j \in DOMAIN t : i < j => i + m - 1 < j + m - 1
  BY <1>6
<1>9. Embeds(t, s, Len(s))
  BY <1>4, <1>7, <1>8 DEF Embeds
<1> QED
  BY <1>1, <1>3, <1>4, <1>9, PartOrdered

\* What a running process released is not forgotten.
LEMMA NewestKeeps ==
    ASSUME Roomy, NEW T \in Seq(Tombstone), NEW g \in [Actor -> Int], Ordered(T, g),
           \A a \in Actor : g[a] <= MaxIncarnation,
           NEW t \in Range(T), Newborn(t, g)
    PROVE  t \in Range(Newest(T))
<1>1. PICK i \in DOMAIN T : t = T[i]
  BY DEF Range
<1>2. Len(T) \in Nat /\ DOMAIN T = 1 .. Len(T) /\ ReplayCapacity \in Nat
  BY LenProperties, RecurrentAssumption
<1>3. Len(T) - i + 1 <= ReplayCapacity
  BY <1>1, FewAfter
<1>4. PICK m \in Nat \ {0} : /\ Newest(T) = SubSeq(T, m, Len(T))
                             /\ m = 1 \/ Len(T) - m + 1 = ReplayCapacity
  BY NewestIsRest
<1>5. m <= i /\ i \in Nat /\ 1 <= i /\ i <= Len(T)
  BY <1>1, <1>2, <1>3, <1>4
<1>6. PICK s : s = SubSeq(T, m, Len(T))
  OBVIOUS
<1>7. /\ s \in Seq(Tombstone)
      /\ Len(s) = IF m <= Len(T) THEN Len(T) - m + 1 ELSE 0
      /\ \A j \in DOMAIN s : s[j] = T[j + m - 1]
  BY <1>2, <1>6, PartFacts
<1>8. DOMAIN s = 1 .. Len(s)
  BY <1>7, LenProperties
<1>9. i - m + 1 \in DOMAIN s
  BY <1>2, <1>5, <1>7, <1>8
<1>10. (i - m + 1) + m - 1 = i
  BY <1>5
<1>11. s[i - m + 1] = T[i]
  BY <1>7, <1>9, <1>10
<1>12. t \in Range(s)
  BY <1>1, <1>9, <1>11 DEF Range
<1> QED
  BY <1>4, <1>6, <1>12

\* New entries, of the newest processes, go behind the others.
LEMMA JoinOrdered ==
    ASSUME NEW s \in Seq(Tombstone), NEW u \in Seq(Tombstone), NEW g \in [Actor -> Int],
           Ordered(s, g), \A i \in DOMAIN u : Newborn(u[i], g),
           \A i, j \in DOMAIN u : u[i].key = u[j].key => i = j,
           \A i \in DOMAIN s : \A j \in DOMAIN u : s[i].key # u[j].key
    PROVE  Ordered(s \o u, g)
<1>1. /\ Len(s) \in Nat /\ Len(u) \in Nat
      /\ DOMAIN s = 1 .. Len(s) /\ DOMAIN u = 1 .. Len(u)
  BY LenProperties
<1>2. PICK t : t = s \o u
  OBVIOUS
<1>3. /\ t \in Seq(Tombstone)
      /\ Len(t) = Len(s) + Len(u)
      /\ \A i \in 1 .. Len(s) : t[i] = s[i]
      /\ \A i \in 1 .. Len(u) : t[Len(s) + i] = u[i]
  <2>1. s \o u \in Seq(Tombstone) /\ Len(s \o u) = Len(s) + Len(u)
        /\ \A i \in 1 .. Len(s) + Len(u) :
              (s \o u)[i] = IF i <= Len(s) THEN s[i] ELSE u[i - Len(s)]
    BY ConcatProperties
  <2>2. \A i \in 1 .. Len(s) : i <= Len(s) /\ i \in 1 .. Len(s) + Len(u)
    BY <1>1
  <2>3. \A i \in 1 .. Len(u) : /\ ~(Len(s) + i <= Len(s))
                               /\ Len(s) + i \in 1 .. Len(s) + Len(u)
                               /\ (Len(s) + i) - Len(s) = i
    BY <1>1
  <2>4. \A i \in 1 .. Len(u) : (s \o u)[Len(s) + i] = u[i]
    BY <2>1, <2>3
  <2> QED
    BY <1>2, <2>1, <2>2, <2>4
<1>4. DOMAIN t = 1 .. Len(t)
  BY <1>3, LenProperties
<1>5. \A i \in DOMAIN t :
         /\ i \in Nat
         /\ \/ i \in DOMAIN s /\ i <= Len(s) /\ t[i] = s[i]
            \/ i - Len(s) \in DOMAIN u /\ i > Len(s) /\ t[i] = u[i - Len(s)]
  <2>1. TAKE i \in DOMAIN t
  <2>2. CASE i <= Len(s)
    BY <1>1, <1>3, <1>4, <2>2
  <2>3. CASE i > Len(s)
    <3>1. i - Len(s) \in 1 .. Len(u) /\ Len(s) + (i - Len(s)) = i
      BY <1>1, <1>3, <1>4, <2>3
    <3> QED
      BY <1>1, <1>3, <1>4, <2>3, <3>1
  <2> QED
    BY <1>1, <1>3, <1>4, <2>2, <2>3
<1>6. \A i, j \in DOMAIN t : t[i].key = t[j].key => i = j
  <2>1. SUFFICES ASSUME NEW i \in DOMAIN t, NEW j \in DOMAIN t, t[i].key = t[j].key
                 PROVE  i = j
    OBVIOUS
  <2>2. CASE t[i] = s[i] /\ t[j] = s[j] /\ i \in DOMAIN s /\ j \in DOMAIN s
    BY <2>1, <2>2 DEF Ordered
  <2>3. CASE /\ t[i] = u[i - Len(s)] /\ t[j] = u[j - Len(s)]
             /\ i - Len(s) \in DOMAIN u /\ j - Len(s) \in DOMAIN u
    <3>1. i - Len(s) = j - Len(s)
      BY <2>1, <2>3
    <3> QED
      BY <1>1, <1>5, <3>1
  <2> QED
    BY <1>5, <2>1, <2>2, <2>3
<1>7. \A i \in DOMAIN t : t[i].key.incarnation <= g[t[i].key.actor]
  <2>1. TAKE i \in DOMAIN t
  <2>2. t[i] \in Tombstone
    BY <1>3, <1>4, LenProperties
  <2>3. g[t[i].key.actor] \in Int
    BY <2>2 DEF Tombstone, Key
  <2>4. CASE i \in DOMAIN s /\ t[i] = s[i]
    BY <2>4 DEF Ordered
  <2>5. CASE i - Len(s) \in DOMAIN u /\ t[i] = u[i - Len(s)]
    BY <2>3, <2>5 DEF Newborn
  <2> QED
    BY <1>5, <2>4, <2>5
<1>8. \A i, j \in DOMAIN t : i < j /\ t[i].key.actor = t[j].key.actor =>
          t[i].key.incarnation <= t[j].key.incarnation
  <2>1. SUFFICES ASSUME NEW i \in DOMAIN t, NEW j \in DOMAIN t, i < j,
                        t[i].key.actor = t[j].key.actor
                 PROVE  t[i].key.incarnation <= t[j].key.incarnation
    OBVIOUS
  <2>2. CASE j \in DOMAIN s /\ t[j] = s[j] /\ j <= Len(s)
    <3>1. i <= Len(s)
      BY <1>1, <1>5, <2>1, <2>2
    <3>2. i \in DOMAIN s /\ t[i] = s[i]
      BY <1>1, <1>5, <3>1
    <3> QED
      BY <2>1, <2>2, <3>2 DEF Ordered
  <2>3. CASE j - Len(s) \in DOMAIN u /\ t[j] = u[j - Len(s)]
    <3>1. t[j].key.incarnation = g[t[j].key.actor]
      BY <2>3 DEF Newborn
    <3> QED
      BY <1>7, <2>1, <3>1
  <2> QED
    BY <1>5, <2>2, <2>3
<1> QED
  BY <1>2, <1>6, <1>7, <1>8 DEF Ordered

LEMMA LaterOrdered ==
    ASSUME NEW T \in Seq(Tombstone), NEW g \in [Actor -> Int], NEW h \in [Actor -> Int],
           Ordered(T, g), \A a \in Actor : g[a] <= h[a]
    PROVE  Ordered(T, h)
<1>1. ASSUME NEW i \in DOMAIN T PROVE T[i].key.incarnation <= h[T[i].key.actor]
  <2>1. T[i] \in Tombstone
    BY LenProperties
  <2>2. T[i].key.actor \in Actor /\ T[i].key.incarnation \in Nat
    BY <2>1 DEF Tombstone, Key
  <2>3. PICK a, n : a = T[i].key.actor /\ n = T[i].key.incarnation
    OBVIOUS
  <2>4. n <= g[a] /\ g[a] <= h[a] /\ g[a] \in Int /\ h[a] \in Int /\ n \in Nat
    BY <2>2, <2>3 DEF Ordered
  <2>5. n <= h[a]
    BY <2>4
  <2> QED
    BY <2>3, <2>5
<1> QED
  BY <1>1 DEF Ordered

\* What is not among ks keeps its place in the memory.
LEMMA OthersFacts ==
    ASSUME NEW r \in Router, NEW ks
    PROVE  /\ Others(r, ks) \in Seq(Tombstone)
           /\ Range(Others(r, ks)) = {t \in Range(r.tombstones) : t.key \notin ks}
           /\ \A g : Ordered(r.tombstones, g) => Ordered(Others(r, ks), g)
<1>1. PICK s, S : s = r.tombstones /\ S = {t \in Range(r.tombstones) : t.key \notin ks}
  OBVIOUS
<1>2. s \in Seq(Tombstone)
  BY <1>1 DEF Router
<1>3. /\ Only(s, S) \in Seq(Tombstone)
      /\ KeepsOf(Only(s, S), s, S, Len(s))
      /\ Range(Only(s, S)) = Range(s) \cap S
  BY <1>2, OnlyFacts
<1>4. Others(r, ks) = Only(s, S)
  BY <1>1 DEF Others
<1>5. Embeds(Only(s, S), s, Len(s))
  BY <1>3 DEF KeepsOf
<1>6. PICK t : t = Only(s, S)
  OBVIOUS
<1>7. \A g : Ordered(s, g) => Ordered(t, g)
  BY <1>2, <1>3, <1>5, <1>6, PartOrdered
<1>8. Range(s) \cap S = S
  BY <1>1
<1> QED
  BY <1>1, <1>3, <1>4, <1>6, <1>7, <1>8

\* the entries that are added
Added(ks, artifact) == {[key |-> k, artifact |-> artifact[k]] : k \in ks}

LEMMA AddedFacts ==
    ASSUME NEW ks \in SUBSET Key, IsFiniteSet(ks), NEW artifact,
           \A k \in ks : artifact[k] \in Nat
    PROVE  /\ SetToSeq(Added(ks, artifact)) \in Seq(Tombstone)
           /\ Range(SetToSeq(Added(ks, artifact))) = Added(ks, artifact)
           /\ \A i \in DOMAIN SetToSeq(Added(ks, artifact)) :
                 SetToSeq(Added(ks, artifact))[i].key \in ks
           /\ \A i, j \in DOMAIN SetToSeq(Added(ks, artifact)) :
                 SetToSeq(Added(ks, artifact))[i].key = SetToSeq(Added(ks, artifact))[j].key
                    => i = j
<1> DEFINE f == [k \in ks |-> [key |-> k, artifact |-> artifact[k]]]
<1>1. PICK S : S = Added(ks, artifact)
  OBVIOUS
<1>2. f \in Surjection(ks, S)
  BY <1>1 DEF Added, Surjection
<1> HIDE DEF f
<1>3. IsFiniteSet(S)
  BY <1>2, FS_Surjection
<1>4. S \subseteq Tombstone
  BY <1>1 DEF Added, Tombstone
<1>5. \A x, y \in S : x.key = y.key => x = y
  BY <1>1 DEF Added
<1>6. \A x \in S : x.key \in ks
  BY <1>1 DEF Added
<1>7. PICK u : u = SetToSeq(S)
  OBVIOUS
<1>8. /\ u \in Seq(S)
      /\ Range(u) = S
      /\ \A i, j \in DOMAIN u : u[i] = u[j] => i = j
  BY <1>3, <1>7, SetToSeqFacts
<1>9. DOMAIN u = 1 .. Len(u) /\ \A i \in DOMAIN u : u[i] \in S
  BY <1>8, LenProperties
<1>10. u \in Seq(Tombstone)
  <2>1. u \in [1 .. Len(u) -> Tombstone] /\ Len(u) \in Nat
    BY <1>4, <1>8, <1>9, LenProperties
  <2> QED
    BY <2>1, SeqDef
<1>11. \A i, j \in DOMAIN u : u[i].key = u[j].key => i = j
  BY <1>5, <1>8, <1>9
<1> QED
  BY <1>1, <1>6, <1>7, <1>8, <1>9, <1>10, <1>11

\* What the memory holds after more of the newest processes' keys were released.
LEMMA RememberOrdered ==
    ASSUME NEW r \in Router, NEW ks \in SUBSET Key, IsFiniteSet(ks), NEW artifact,
           \A k \in ks : artifact[k] \in Nat,
           Ordered(r.tombstones, r.generation),
           \A k \in ks : k.incarnation = r.generation[k.actor]
    PROVE  /\ Remember(r, ks, artifact) \in Seq(Tombstone)
           /\ Ordered(Remember(r, ks, artifact), r.generation)
           /\ Roomy /\ (\A a \in Actor : r.generation[a] <= MaxIncarnation) =>
                /\ Added(ks, artifact) \subseteq Range(Remember(r, ks, artifact))
                /\ \A t \in Range(r.tombstones) :
                      t.key \notin ks /\ Newborn(t, r.generation)
                         => t \in Range(Remember(r, ks, artifact))
<1>1. PICK s, u, g :
        s = Others(r, ks) /\ u = SetToSeq(Added(ks, artifact)) /\ g = r.generation
  OBVIOUS
<1>2. /\ s \in Seq(Tombstone) /\ Ordered(s, g)
      /\ Range(s) = {t \in Range(r.tombstones) : t.key \notin ks}
  BY <1>1, OthersFacts
<1>3. /\ u \in Seq(Tombstone)
      /\ Range(u) = Added(ks, artifact)
      /\ \A i \in DOMAIN u : u[i].key \in ks
      /\ \A i, j \in DOMAIN u : u[i].key = u[j].key => i = j
  BY <1>1, AddedFacts
<1>4. g \in [Actor -> Int]
  BY <1>1 DEF Router
<1>5. \A i \in DOMAIN u : Newborn(u[i], g)
  BY <1>1, <1>3 DEF Newborn
<1>6. \A i \in DOMAIN s : s[i].key \notin ks
  BY <1>2 DEF Range
<1>7. PICK T : T = s \o u
  OBVIOUS
<1>8. T \in Seq(Tombstone) /\ Range(T) = Range(s) \cup Range(u)
  BY <1>2, <1>3, <1>7, JoinFacts
<1>9. Ordered(T, g)
  <2>1. \A i \in DOMAIN s : \A j \in DOMAIN u : s[i].key # u[j].key
    BY <1>3, <1>6
  <2> QED
    BY <1>2, <1>3, <1>4, <1>5, <1>7, <2>1, JoinOrdered
<1>10. Remember(r, ks, artifact) = Newest(T)
  BY <1>1, <1>7 DEF Remember, Added
<1>11. Newest(T) \in Seq(Tombstone)
  BY <1>8, NewestFacts
<1>12. Ordered(Newest(T), g)
  BY <1>8, <1>9, NewestOrdered
<1>13. ASSUME Roomy, \A a \in Actor : g[a] <= MaxIncarnation
       PROVE  /\ Added(ks, artifact) \subseteq Range(Newest(T))
              /\ \A t \in Range(r.tombstones) :
                    t.key \notin ks /\ Newborn(t, g) => t \in Range(Newest(T))
  <2>1. \A t \in Range(T) : Newborn(t, g) => t \in Range(Newest(T))
    BY <1>4, <1>8, <1>9, <1>13, NewestKeeps
  <2>2. \A t \in Range(u) : Newborn(t, g)
    BY <1>5 DEF Range
  <2> QED
    BY <1>2, <1>3, <1>8, <2>1, <2>2
<1> QED
  BY <1>1, <1>10, <1>11, <1>12, <1>13

Marked(r, k) == \E t \in Range(r.tombstones) : t.key = k

\* Sequence k is held, or remembered, in n as it is in r.
Fares(r, n, k) ==
    /\ k \in DOMAIN n.sequences <=> k \in DOMAIN r.sequences
    /\ k \in DOMAIN r.sequences => n.sequences[k] = r.sequences[k]
    /\ \A t \in Range(n.tombstones) : t.key = k => t \in Range(r.tombstones)
    /\ Roomy /\ Marked(r, k) => Marked(n, k)

Remembers(r) ==
    /\ Ordered(r.tombstones, r.generation)
    /\ \A a \in Actor : r.generation[a] <= incarnation[a]

Bounded == \A a \in Actor : incarnation[a] <= MaxIncarnation

LEMMA RemembersGenerations ==
    ASSUME TypeInv, Bounded, NEW r \in Router, Remembers(r)
    PROVE  /\ \A a \in Actor : r.generation[a] <= MaxIncarnation
           /\ \A t \in Range(r.tombstones) : Mine(t.key) => Newborn(t, r.generation)
<1>1. /\ \A a \in Actor : incarnation[a] \in Nat /\ r.generation[a] \in Int
      /\ MaxIncarnation \in Nat
  BY RecurrentAssumption DEF TypeInv, Router
<1>2. \A a \in Actor : r.generation[a] <= incarnation[a] /\ incarnation[a] <= MaxIncarnation
  BY DEF Remembers, Bounded
<1>3. ASSUME NEW t \in Range(r.tombstones), Mine(t.key) PROVE Newborn(t, r.generation)
  <2>1. PICK i \in DOMAIN r.tombstones : t = r.tombstones[i]
    BY DEF Range
  <2>2. r.tombstones \in Seq(Tombstone)
    BY DEF Router
  <2>3. t \in Tombstone
    BY <2>1, <2>2, LenProperties
  <2>4. t.key.actor \in Actor /\ t.key.incarnation \in Nat
    BY <2>3 DEF Tombstone, Key
  <2>5. t.key.incarnation <= r.generation[t.key.actor]
    BY <2>1 DEF Remembers, Ordered
  <2>6. t.key.incarnation = incarnation[t.key.actor]
    BY <1>3 DEF Mine
  <2>7. PICK a, n : a = t.key.actor /\ n = t.key.incarnation
    OBVIOUS
  <2>8. n = r.generation[a]
    BY <1>1, <1>2, <2>4, <2>5, <2>6, <2>7
  <2> QED
    BY <2>7, <2>8 DEF Newborn
<1> QED
  BY <1>1, <1>2, <1>3

\* Remembering other keys leaves the running processes' keys remembered.
LEMMA RememberFares ==
    ASSUME TypeInv, Bounded, NEW r \in Router, Remembers(r),
           NEW ks \in SUBSET Key, IsFiniteSet(ks), NEW artifact,
           \A k \in ks : artifact[k] \in Nat,
           \A k \in ks : k.incarnation = r.generation[k.actor],
           NEW T, T = Remember(r, ks, artifact)
    PROVE  /\ Ordered(T, r.generation)
           /\ \A t \in Range(T) : t.key \notin ks => t \in Range(r.tombstones)
           /\ \A t \in Range(T) : t.key \in ks => t.artifact = artifact[t.key]
           /\ Roomy => \A k \in ks : \E t \in Range(T) : t.key = k
           /\ Roomy => \A t \in Range(r.tombstones) :
                          t.key \notin ks /\ Mine(t.key) => t \in Range(T)
<1>1. /\ \A a \in Actor : r.generation[a] <= MaxIncarnation
      /\ \A t \in Range(r.tombstones) : Mine(t.key) => Newborn(t, r.generation)
  BY RemembersGenerations
<1>2. Ordered(r.tombstones, r.generation)
  BY DEF Remembers
<1>3. /\ Ordered(T, r.generation)
      /\ Roomy =>
            /\ Added(ks, artifact) \subseteq Range(T)
            /\ \A t \in Range(r.tombstones) :
                  t.key \notin ks /\ Newborn(t, r.generation) => t \in Range(T)
  BY <1>1, <1>2, RememberOrdered
<1>4. \A t \in Range(T) :
         \/ t \in Range(r.tombstones) /\ t.key \notin ks
         \/ t.key \in ks /\ t = [key |-> t.key, artifact |-> artifact[t.key]]
  BY RememberFacts
<1>5. \A t \in Range(T) : t.key \in ks => t.artifact = artifact[t.key]
  BY <1>4
<1>6. Roomy => \A k \in ks : \E t \in Range(T) : t.key = k
  <2>1. SUFFICES ASSUME Roomy, NEW k \in ks PROVE \E t \in Range(T) : t.key = k
    OBVIOUS
  <2>2. [key |-> k, artifact |-> artifact[k]] \in Range(T)
    BY <1>3, <2>1 DEF Added
  <2> QED
    BY <2>2
<1> QED
  BY <1>1, <1>3, <1>4, <1>5, <1>6

\* Admitting newer processes leaves what the running ones hold, or released.
LEMMA AdmittedFares ==
    ASSUME TypeInv, Bounded, NEW r, RouterInv(r), Remembers(r),
           NEW latest \in Generations,
           \A a \in DOMAIN latest : latest[a] <= incarnation[a]
    PROVE  /\ Remembers(Admitted(r, latest))
           /\ \A k \in Key : Mine(k) => Fares(r, Admitted(r, latest), k)
<1>1. PICK n, ks : n = Admitted(r, latest) /\ ks = StaleKeys(r, latest)
  OBVIOUS
<1>2. /\ RouterInv(n)
      /\ n.generation = Generation(r, latest)
      /\ n.tombstones = Remember(r, ks, r.sequences)
      /\ DOMAIN n.sequences = DOMAIN r.sequences \ ks
      /\ \A k \in DOMAIN n.sequences : n.sequences[k] = r.sequences[k]
  BY <1>1, AdmittedKeeps
<1>3. r \in Router /\ Owned(r) /\ IsFiniteSet(DOMAIN r.sequences)
  BY DEF RouterInv, Balanced
<1>4. /\ r.sequences \in Maps(Key, Nat)
      /\ r.generation \in [Actor -> Int]
  BY <1>3 DEF Router
<1>5. /\ DOMAIN r.sequences \subseteq Key
      /\ \A k \in DOMAIN r.sequences : r.sequences[k] \in Nat
  <2>1. PICK f : f = r.sequences
    OBVIOUS
  <2>2. DOMAIN f \subseteq Key /\ \A x \in DOMAIN f : f[x] \in Nat
    BY <1>4, <2>1, MapFacts
  <2> QED
    BY <2>1, <2>2
<1>6. /\ ks \subseteq DOMAIN r.sequences
      /\ \A k \in ks : /\ k.actor \in DOMAIN latest
                       /\ latest[k.actor] > r.generation[k.actor]
  BY <1>1 DEF StaleKeys, Newer
<1>7. IsFiniteSet(ks) /\ ks \in SUBSET Key /\ \A k \in ks : r.sequences[k] \in Nat
  BY <1>3, <1>5, <1>6, FS_Subset
<1>8. \A k \in ks : k.incarnation = r.generation[k.actor]
  BY <1>3, <1>6 DEF Owned
<1>9. \A a \in Actor : incarnation[a] \in Nat
  BY DEF TypeInv
<1>10. latest \in Maps(Actor, Nat)
  BY DEF Generations
<1>11. DOMAIN latest \subseteq Actor /\ \A a \in DOMAIN latest : latest[a] \in Nat
  <2>1. PICK R : R = Nat
    OBVIOUS
  <2> QED
    BY <1>10, <2>1, MapFacts
<1>12. \A k \in ks : ~Mine(k)
  <2>1. SUFFICES ASSUME NEW k \in ks, Mine(k) PROVE FALSE
    OBVIOUS
  <2>2. PICK a, i : a = k.actor /\ i = k.incarnation
    OBVIOUS
  <2>3. a \in DOMAIN latest /\ latest[a] > r.generation[a] /\ i = r.generation[a]
        /\ i = incarnation[a]
    BY <1>6, <1>8, <2>1, <2>2 DEF Mine
  <2>4. latest[a] \in Nat /\ incarnation[a] \in Nat /\ latest[a] <= incarnation[a]
    BY <1>9, <1>11, <2>3
  <2> QED
    BY <2>3, <2>4
<1>13. PICK T : T = Remember(r, ks, r.sequences)
  OBVIOUS
<1>14. /\ Ordered(T, r.generation)
       /\ \A t \in Range(T) : t.key \notin ks => t \in Range(r.tombstones)
       /\ Roomy => \A t \in Range(r.tombstones) :
                      t.key \notin ks /\ Mine(t.key) => t \in Range(T)
  BY <1>3, <1>7, <1>8, <1>13, RememberFares
<1>15. \A a \in Actor : /\ Generation(r, latest)[a] <= incarnation[a]
                        /\ Generation(r, latest)[a] >= r.generation[a]
                        /\ Generation(r, latest)[a] \in Int
  <2>1. \A a \in Actor : r.generation[a] <= incarnation[a]
    BY DEF Remembers
  <2> QED
    BY <2>1, GenerationStarted
<1>16. Remembers(n)
  <2>1. PICK h : h = n.generation
    OBVIOUS
  <2>2. h \in [Actor -> Int]
    BY <1>2, <2>1 DEF RouterInv, Router
  <2>3. \A a \in Actor : r.generation[a] <= h[a] /\ h[a] <= incarnation[a]
    <3>1. TAKE a \in Actor
    <3>2. r.generation[a] \in Int
      BY <1>4
    <3> QED
      BY <1>2, <1>15, <2>1, <3>2
  <2>4. T \in Seq(Tombstone)
    BY <1>2, <1>13 DEF RouterInv, Router
  <2>5. Ordered(T, h)
    BY <1>4, <1>14, <2>2, <2>3, <2>4, LaterOrdered
  <2> QED
    BY <1>2, <1>13, <2>1, <2>3, <2>5 DEF Remembers
<1>17. ASSUME NEW k \in Key, Mine(k) PROVE Fares(r, n, k)
  <2>1. k \notin ks
    BY <1>12, <1>17
  <2>2. /\ k \in DOMAIN n.sequences <=> k \in DOMAIN r.sequences
        /\ k \in DOMAIN r.sequences => n.sequences[k] = r.sequences[k]
    BY <1>2, <2>1
  <2>3. \A t \in Range(n.tombstones) : t.key = k => t \in Range(r.tombstones)
    BY <1>2, <1>13, <1>14, <2>1
  <2>4. Roomy /\ Marked(r, k) => Marked(n, k)
    BY <1>2, <1>13, <1>14, <1>17, <2>1 DEF Marked
  <2> QED
    BY <2>2, <2>3, <2>4 DEF Fares
<1> QED
  BY <1>1, <1>16, <1>17

\* A release or an abort leaves the other sequences and remembers these.
LEMMA ReleasedFares ==
    ASSUME TypeInv, Bounded, NEW r, RouterInv(r), Remembers(r),
           NEW ks \in SUBSET Key, IsFiniteSet(ks), NEW artifact,
           \A k \in ks : artifact[k] \in Nat,
           \A k \in ks : k.incarnation = r.generation[k.actor],
           NEW n, n = ReleasedAs(r, ks, artifact)
    PROVE  /\ Remembers(n)
           /\ \A k \in Key : Mine(k) /\ k \notin ks => Fares(r, n, k)
           /\ \A k \in ks : k \notin DOMAIN n.sequences
           /\ \A k \in ks : \A t \in Range(n.tombstones) :
                 t.key = k => t.artifact = artifact[k]
           /\ Roomy => \A k \in ks : Marked(n, k)
<1>1. /\ RouterInv(n)
      /\ n.generation = r.generation
      /\ n.tombstones = Remember(r, ks, artifact)
      /\ DOMAIN n.sequences = DOMAIN r.sequences \ ks
      /\ \A k \in DOMAIN r.sequences \ ks : n.sequences[k] = r.sequences[k]
  BY ReleasedAsKeeps
<1>2. PICK T : T = Remember(r, ks, artifact)
  OBVIOUS
<1>3. r \in Router
  BY DEF RouterInv
<1>4. /\ Ordered(T, r.generation)
      /\ \A t \in Range(T) : t.key \notin ks => t \in Range(r.tombstones)
      /\ \A t \in Range(T) : t.key \in ks => t.artifact = artifact[t.key]
      /\ Roomy => \A k \in ks : \E t \in Range(T) : t.key = k
      /\ Roomy => \A t \in Range(r.tombstones) :
                     t.key \notin ks /\ Mine(t.key) => t \in Range(T)
  BY <1>2, <1>3, RememberFares
<1>5. Remembers(n)
  BY <1>1, <1>2, <1>4 DEF Remembers
<1>6. ASSUME NEW k \in Key, Mine(k), k \notin ks PROVE Fares(r, n, k)
  <2>1. /\ k \in DOMAIN n.sequences <=> k \in DOMAIN r.sequences
        /\ k \in DOMAIN r.sequences => n.sequences[k] = r.sequences[k]
    BY <1>1, <1>6
  <2>2. \A t \in Range(n.tombstones) : t.key = k => t \in Range(r.tombstones)
    BY <1>1, <1>2, <1>4, <1>6
  <2>3. Roomy /\ Marked(r, k) => Marked(n, k)
    BY <1>1, <1>2, <1>4, <1>6 DEF Marked
  <2> QED
    BY <2>1, <2>2, <2>3 DEF Fares
<1>7. Roomy => \A k \in ks : Marked(n, k)
  BY <1>1, <1>2, <1>4 DEF Marked
<1>8. \A k \in ks : \A t \in Range(n.tombstones) : t.key = k => t.artifact = artifact[k]
  BY <1>1, <1>2, <1>4
<1>9. \A k \in ks : k \notin DOMAIN n.sequences
  BY <1>1
<1> QED
  BY <1>5, <1>6, <1>7, <1>8, <1>9

\* Binding leaves the other sequences.
LEMMA BoundFares ==
    ASSUME NEW r, RouterInv(r), Remembers(r), NEW ks \in SUBSET Key, IsFiniteSet(ks),
           ks \cap DOMAIN r.sequences = {},
           Cardinality(DOMAIN r.sequences) + Cardinality(ks) <= MaxSequences,
           r.inFlight + Cardinality(ks) <= MaxInFlight,
           \A k \in ks : k.incarnation = r.generation[k.actor],
           NEW n, n = BoundTo(r, ks)
    PROVE  /\ Remembers(n)
           /\ \A k \in Key : k \notin ks => Fares(r, n, k)
           /\ \A k \in ks : k \in DOMAIN n.sequences /\ n.sequences[k] = r.current
<1>1. /\ n.generation = r.generation
      /\ n.tombstones = Others(r, ks)
      /\ DOMAIN n.sequences = DOMAIN r.sequences \cup ks
      /\ \A k \in ks : n.sequences[k] = r.current
      /\ \A k \in DOMAIN r.sequences : n.sequences[k] = r.sequences[k]
  BY BoundKeeps
<1>2. r \in Router
  BY DEF RouterInv
<1>3. PICK T : T = Others(r, ks)
  OBVIOUS
<1>4. /\ Range(T) = {t \in Range(r.tombstones) : t.key \notin ks}
      /\ \A g : Ordered(r.tombstones, g) => Ordered(T, g)
  BY <1>2, <1>3, OthersFacts
<1>5. Remembers(n)
  BY <1>1, <1>3, <1>4 DEF Remembers
<1>6. ASSUME NEW k \in Key, k \notin ks PROVE Fares(r, n, k)
  BY <1>1, <1>3, <1>4, <1>6 DEF Fares, Marked
<1> QED
  BY <1>1, <1>5, <1>6

(***************************************************************************)
(* A sequence runs on the artifact its actor was told                      *)
(***************************************************************************)

\* Router r holds k under v, or it remembers k, if at all, as released from v.
Upholds(r, k, v) ==
    IF k \in DOMAIN r.sequences
    THEN r.sequences[k] = v
    ELSE /\ \A t \in Range(r.tombstones) : t.key = k => t.artifact = v
         /\ Roomy => Marked(r, k)

\* What actor a was told of its sequence s stays true: it may be gone only when
\* the actor asked for its cleanup.
Served(a, s, v) ==
    /\ frozen => v = 1
    /\ Upholds(router, KeyOf(a, s), v)
    /\ ~frozen /\ KeyOf(a, s) \notin DOMAIN router.sequences => Done(a, {s})

\* What actors were told stays true in the step.
StaysServed ==
    \A b \in Actor, s \in Seat : \A v : Served(b, s, v) => Served(b, s, v)'

Decoded(p) == ~Cleanup(p) /\ p.ok

ServedInv ==
    /\ \A p \in Range(router.replays) : Decoded(p) /\ Mine(p) =>
          \A s \in p.seats : Served(p.actor, s, p.artifact)
    /\ \A a \in Actor : \A p \in Range(inbox[a]) : Decoded(p) /\ Mine(p) =>
          \A s \in p.seats : Served(a, s, p.artifact)
    /\ \A a \in Actor : \A s \in DOMAIN binding[a] : Served(a, s, binding[a][s])

\* A frozen opponent has one artifact.
OnlyOne(r) == r.current = 1 /\ \A k \in DOMAIN r.sequences : r.sequences[k] = 1

ArtifactInv ==
    /\ Remembers(router) /\ Bounded
    /\ frozen => OnlyOne(router)
    /\ ServedInv

LEMMA FaresUpholds ==
    ASSUME NEW r, NEW n, NEW k, NEW v, Fares(r, n, k), Upholds(r, k, v)
    PROVE  Upholds(n, k, v)
BY DEF Fares, Upholds, Marked

LEMMA DoneOne ==
    ASSUME NEW a, NEW ss, NEW s \in ss, Done(a, ss)
    PROVE  Done(a, {s})
<1>1. Closed(a, {s})
  BY DEF Done, Closed
<1>2. Undecoded(a, {s})
  BY DEF Done, Undecoded
<1>3. Unheld(a, {s})
  BY DEF Done, Unheld
<1> QED
  BY <1>1, <1>2, <1>3 DEF Done

LEMMA OwnKey ==
    ASSUME TypeInv, NEW a \in Actor, NEW s \in Seat
    PROVE  /\ KeyOf(a, s) \in Key /\ Mine(KeyOf(a, s))
           /\ KeyOf(a, s).actor = a /\ KeyOf(a, s).seat = s
           /\ KeyOf(a, s).incarnation = incarnation[a]
BY DEF TypeInv, KeyOf, Key, Mine

\* An answer and router r after which what the actors were told stays true.
Truthful(r, answer) ==
    /\ \A a \in Actor, s \in Seat : \A v : Served(a, s, v) => Upholds(r, KeyOf(a, s), v)
    /\ \A a \in Actor, s \in Seat :
          KeyOf(a, s) \in DOMAIN router.sequences /\ KeyOf(a, s) \notin DOMAIN r.sequences =>
             /\ Cleanup(answer) /\ answer.ok /\ Mine(answer)
             /\ answer.actor = a /\ s \in answer.seats
    /\ Decoded(answer) /\ Mine(answer) =>
          \A s \in answer.seats :
             /\ frozen => answer.artifact = 1
             /\ Upholds(r, KeyOf(answer.actor, s), answer.artifact)
             /\ ~frozen /\ KeyOf(answer.actor, s) \notin DOMAIN r.sequences
                   => Done(answer.actor, {s})

LEMMA ReplyServes ==
    ASSUME StateInv, CleanInv, ArtifactInv, CleanInv',
           NEW r, RouterInv(r), Remembers(r), frozen => OnlyOne(r),
           NEW answer \in Response, batch # <<>>, Reply(r, answer),
           Range(r.replays) \subseteq Range(router.replays),
           \A k \in DOMAIN r.sequences :
              \/ k \in DOMAIN router.sequences
              \/ ~Cleanup(Head(batch)) /\ k \in KeysOf(Head(batch)),
           Truthful(r, answer)
    PROVE  ArtifactInv' /\ StaysServed
<1>0. TypeInv /\ RouterInv(router) /\ PastInv
  BY DEF StateInv
<1>1. /\ router' = [r EXCEPT !.replays = Stored(r.replays, answer)]
      /\ inbox' = [inbox EXCEPT ![answer.actor] = Append(@, answer)]
      /\ batch' = Tail(batch)
      /\ UNCHANGED <<frozen, loaded, lookahead, queue, actorVars>>
      /\ frozen' = frozen /\ incarnation' = incarnation /\ binding' = binding
      /\ lookahead' = lookahead /\ queue' = queue
  BY DEF Reply, actorVars
<1>2. r \in Router /\ r.replays \in Seq(Response)
  BY DEF RouterInv, Router
<1>3. /\ router'.sequences = r.sequences
      /\ router'.tombstones = r.tombstones
      /\ router'.generation = r.generation
      /\ router'.current = r.current
      /\ router'.replays = Stored(r.replays, answer)
  BY <1>1, <1>2 DEF Router
<1>4. \A p \in Range(router'.replays) : p = answer \/ p \in Range(router.replays)
  BY <1>2, <1>3, StoredFacts
<1>5. answer.actor \in Actor /\ answer.seats \subseteq Seat
      /\ inbox \in [Actor -> Seq(Response)]
  BY <1>0 DEF Response, TypeInv
<1>6. \A a \in Actor : \A p \in Range(inbox'[a]) :
         p \in Range(inbox[a]) \/ (p = answer /\ a = answer.actor)
  <2>1. TAKE a \in Actor
  <2>2. CASE a = answer.actor
    <3>1. Range(Append(inbox[a], answer)) = Range(inbox[a]) \cup {answer}
      BY <1>5, AppendFacts
    <3> QED
      BY <1>1, <1>5, <2>2, <3>1
  <2>3. CASE a # answer.actor
    BY <1>1, <1>5, <2>3
  <2> QED
    BY <2>2, <2>3
<1>7. Mine(answer)' <=> Mine(answer)
  BY <1>1 DEF Mine
<1>8. answer \in Range(inbox'[answer.actor])
  <2>1. Range(Append(inbox[answer.actor], answer)) = Range(inbox[answer.actor]) \cup {answer}
    BY <1>5, AppendFacts
  <2> QED
    BY <1>1, <1>5, <2>1
<1>9. ASSUME ~frozen, NEW a \in Actor, NEW s, Done(a, {s}) PROVE Done(a, {s})'
  <2>0. OrderInv /\ ClosedInv
    BY <1>9 DEF CleanInv
  <2>1. OnTheWay' \subseteq OnTheWay /\ Head(batch) \in OnTheWay
    BY <1>0, <1>1, <2>0, ServedOrder
  <2>2. NothingNew
    BY <2>1 DEF NothingNew, SameBut
  <2>3. \A k \in DOMAIN router'.sequences :
              \/ k \in DOMAIN router.sequences
              \/ \E q \in OnTheWay : ~Cleanup(q) /\ k \in KeysOf(q)
    BY <1>3, <2>1
  <2>4. UNCHANGED actorVars
    BY <1>1
  <2>5. StaysDone
    BY <1>0, <2>0, <2>2, <2>3, <2>4, ServerCleans
  <2> QED
    BY <1>9, <2>5 DEF StaysDone
<1>10. ASSUME NEW a \in Actor, NEW s \in Seat, NEW v, frozen => v = 1,
              Upholds(r, KeyOf(a, s), v),
              ~frozen /\ KeyOf(a, s) \notin DOMAIN r.sequences => Done(a, {s})'
       PROVE  Served(a, s, v)'
  <2>1. Upholds(router', KeyOf(a, s), v)
    BY <1>3, <1>10 DEF Upholds, Marked
  <2>2. KeyOf(a, s)' = KeyOf(a, s)
    BY <1>1 DEF KeyOf
  <2>3. Upholds(router, KeyOf(a, s), v)'
    BY <2>1, <2>2 DEF Upholds, Marked
  <2>4. ~frozen' /\ KeyOf(a, s)' \notin DOMAIN router'.sequences => Done(a, {s})'
    BY <1>1, <1>3, <1>10, <2>2
  <2>5. frozen' => v = 1
    BY <1>1, <1>10
  <2> QED
    BY <2>3, <2>4, <2>5 DEF Served
<1>11. ASSUME NEW a \in Actor, NEW s \in Seat, NEW v, Served(a, s, v)
       PROVE  Served(a, s, v)'
  <2>1. Upholds(r, KeyOf(a, s), v)
    BY <1>11 DEF Truthful
  <2>2. ASSUME ~frozen, KeyOf(a, s) \notin DOMAIN r.sequences PROVE Done(a, {s})'
    <3>1. CASE KeyOf(a, s) \in DOMAIN router.sequences
      <4>1. /\ Cleanup(answer) /\ answer.ok /\ Mine(answer)
            /\ answer.actor = a /\ s \in answer.seats
        BY <2>2, <3>1 DEF Truthful
      <4>2. DoneInv'
        BY <1>1, <2>2 DEF CleanInv
      <4>3. \A p \in Range(inbox'[a]) : Cleanup(p) /\ p.ok /\ Mine(p)' => Done(a, p.seats)'
        BY <4>2 DEF DoneInv, Cleanup
      <4>4. Done(a, answer.seats)'
        BY <1>7, <1>8, <4>1, <4>3
      <4>5. Closed(a, {s})'
        BY <4>1, <4>4 DEF Done, Closed
      <4>6. Undecoded(a, {s})'
        BY <4>1, <4>4 DEF Done, Undecoded
      <4>7. Unheld(a, {s})'
        BY <4>1, <4>4 DEF Done, Unheld
      <4> QED
        BY <4>5, <4>6, <4>7 DEF Done
    <3>2. CASE KeyOf(a, s) \notin DOMAIN router.sequences
      <4>1. Done(a, {s})
        BY <1>11, <2>2, <3>2 DEF Served
      <4> QED
        BY <1>9, <2>2, <4>1
    <3> QED
      BY <3>1, <3>2
  <2>3. frozen => v = 1
    BY <1>11 DEF Served
  <2> QED
    BY <1>10, <2>1, <2>2, <2>3
<1>12. ASSUME Decoded(answer), Mine(answer), NEW s \in answer.seats
       PROVE  Served(answer.actor, s, answer.artifact)'
  <2>1. /\ frozen => answer.artifact = 1
        /\ Upholds(r, KeyOf(answer.actor, s), answer.artifact)
        /\ ~frozen /\ KeyOf(answer.actor, s) \notin DOMAIN r.sequences
              => Done(answer.actor, {s})
    BY <1>12 DEF Truthful
  <2>2. PICK a, v : a = answer.actor /\ v = answer.artifact
    OBVIOUS
  <2>3. a \in Actor /\ s \in Seat
    BY <1>5, <1>12, <2>2
  <2>4. frozen => v = 1
    BY <2>1, <2>2
  <2>5. Upholds(r, KeyOf(a, s), v)
    BY <2>1, <2>2
  <2>6. ~frozen /\ KeyOf(a, s) \notin DOMAIN r.sequences => Done(a, {s})'
    BY <1>9, <2>1, <2>2, <2>3
  <2>7. Served(a, s, v)'
    BY <1>10, <2>3, <2>4, <2>5, <2>6
  <2> QED
    BY <2>2, <2>7
<1>13. ServedInv'
  <2>0. ServedInv
    BY DEF ArtifactInv
  <2>1. ASSUME NEW p, p \in Range(router'.replays), Decoded(p), Mine(p)', NEW s \in p.seats
        PROVE  Served(p.actor, s, p.artifact)'
    <3>1. CASE p = answer
      BY <1>7, <1>12, <2>1, <3>1
    <3>2. CASE p \in Range(router.replays)
      <4>1. p \in Response
        <5>1. router.replays \in Seq(Response)
          BY <1>0 DEF RouterInv, Router
        <5> QED
          BY <3>2, <5>1, RangeOfSeq
      <4>2. p.actor \in Actor /\ s \in Seat
        BY <2>1, <4>1 DEF Response
      <4>3. Mine(p)
        BY <1>1, <2>1 DEF Mine
      <4>4. Served(p.actor, s, p.artifact)
        BY <2>0, <2>1, <3>2, <4>3 DEF ServedInv
      <4> QED
        BY <1>11, <4>2, <4>4
    <3> QED
      BY <1>4, <2>1, <3>1, <3>2
  <2>2. ASSUME NEW a \in Actor, NEW p, p \in Range(inbox'[a]), Decoded(p), Mine(p)',
               NEW s \in p.seats
        PROVE  Served(a, s, p.artifact)'
    <3>1. CASE p = answer /\ a = answer.actor
      BY <1>7, <1>12, <2>2, <3>1
    <3>2. CASE p \in Range(inbox[a])
      <4>1. p \in Response
        BY <1>5, <3>2, RangeOfSeq
      <4>2. s \in Seat
        BY <2>2, <4>1 DEF Response
      <4>3. Mine(p)
        BY <1>1, <2>2 DEF Mine
      <4>4. Served(a, s, p.artifact)
        BY <2>0, <2>2, <3>2, <4>3 DEF ServedInv
      <4> QED
        BY <1>11, <4>2, <4>4
    <3> QED
      BY <1>6, <2>2, <3>1, <3>2
  <2>3. ASSUME NEW a \in Actor, NEW s \in DOMAIN binding[a], NEW v, v = binding[a][s]
        PROVE  Served(a, s, v)'
    <3>1. s \in Seat
      <4>1. binding \in [Actor -> Maps(Seat, Nat)]
        BY <1>0 DEF TypeInv
      <4>2. PICK f : f = binding[a]
        OBVIOUS
      <4> QED
        BY <4>1, <4>2, MapFacts
    <3>2. Served(a, s, v)
      BY <2>0, <2>3 DEF ServedInv
    <3> QED
      BY <1>11, <3>1, <3>2
  <2>4. (\A a \in Actor : \A s \in DOMAIN binding[a] : Served(a, s, binding[a][s]))'
    <3>1. SUFFICES ASSUME NEW a \in Actor, NEW s \in DOMAIN binding'[a]
                   PROVE  Served(a, s, binding[a][s])'
      OBVIOUS
    <3>2. s \in DOMAIN binding[a]
      BY <1>1
    <3>3. PICK v : v = binding[a][s]
      OBVIOUS
    <3>4. Served(a, s, v)'
      BY <2>3, <3>2, <3>3
    <3>5. binding'[a][s] = v
      BY <1>1, <3>3
    <3> QED
      BY <3>4, <3>5 DEF Served, Upholds
  <2> QED
    BY <2>1, <2>2, <2>4 DEF ServedInv, Decoded, Cleanup
<1>14. Remembers(router)' /\ Bounded'
  BY <1>1, <1>3 DEF ArtifactInv, Remembers, Bounded, Ordered
<1>15. frozen' => OnlyOne(router')
  BY <1>1, <1>3 DEF OnlyOne
<1> QED
  BY <1>11, <1>13, <1>14, <1>15 DEF ArtifactInv, OnlyOne, StaysServed

\* Admitting the request's own process leaves what the running ones were told.
LEMMA AdmittedForFares ==
    ASSUME StateInv, ArtifactInv, NEW q \in Request, Started(q),
           NEW r, r = AdmittedFor(router, q)
    PROVE  /\ Remembers(r)
           /\ frozen => OnlyOne(r)
           /\ \A k \in Key : Mine(k) => Fares(router, r, k)
<1>0. TypeInv /\ RouterInv(router) /\ Bounded /\ Remembers(router)
  BY DEF StateInv, ArtifactInv
<1>1. PICK f : f = [a \in {q.actor} |-> q.incarnation]
  OBVIOUS
<1>2. f \in Generations /\ DOMAIN f = {q.actor} /\ f[q.actor] = q.incarnation
  BY <1>1, OneGeneration
<1>3. r = Admitted(router, f)
  BY <1>1 DEF AdmittedFor
<1>4. \A a \in DOMAIN f : f[a] <= incarnation[a]
  BY <1>2 DEF Started
<1>5. /\ Remembers(r)
      /\ \A k \in Key : Mine(k) => Fares(router, r, k)
  BY <1>0, <1>2, <1>3, <1>4, AdmittedFares
<1>6. /\ r.current = router.current
      /\ DOMAIN r.sequences \subseteq DOMAIN router.sequences
      /\ \A k \in DOMAIN r.sequences : r.sequences[k] = router.sequences[k]
  BY <1>0, <1>2, <1>3, AdmittedKeeps
<1>7. frozen => OnlyOne(r)
  BY <1>6 DEF ArtifactInv, OnlyOne
<1> QED
  BY <1>5, <1>7

LEMMA FaresSame == ASSUME NEW r, NEW k PROVE Fares(r, r, k)
BY DEF Fares

\* An answer of the cache, a refusal and a later decode change no sequence.
LEMMA FaresServes ==
    ASSUME StateInv, CleanInv, ArtifactInv, CleanInv', batch # <<>>,
           NEW r \in {router, AdmittedFor(router, Head(batch))},
           NEW answer \in Response, Reply(r, answer),
           Decoded(answer) /\ Mine(answer) =>
              \A s \in answer.seats : Served(answer.actor, s, answer.artifact)
    PROVE  ArtifactInv' /\ StaysServed
<1>0. TypeInv /\ RouterInv(router)
  BY DEF StateInv
<1>1. Head(batch) \in Request /\ Started(Head(batch))
  BY HeadFacts
<1>2. /\ RouterInv(r)
      /\ Range(r.replays) \subseteq Range(router.replays)
      /\ DOMAIN r.sequences \subseteq DOMAIN router.sequences
  BY <1>0, <1>1, AdmittedForFacts, AdmittedForLess
<1>3. /\ Remembers(r)
      /\ frozen => OnlyOne(r)
      /\ \A k \in Key : Mine(k) => Fares(router, r, k)
  <2>1. CASE r = router
    BY <2>1, FaresSame DEF ArtifactInv
  <2>2. CASE r = AdmittedFor(router, Head(batch))
    BY <1>1, <2>2, AdmittedForFares
  <2> QED
    BY <2>1, <2>2
<1>4. ASSUME NEW a \in Actor, NEW s \in Seat, NEW v, Served(a, s, v)
      PROVE  /\ frozen => v = 1
             /\ Upholds(r, KeyOf(a, s), v)
             /\ ~frozen /\ KeyOf(a, s) \notin DOMAIN r.sequences => Done(a, {s})
  <2>1. PICK k : k = KeyOf(a, s)
    OBVIOUS
  <2>2. Fares(router, r, k)
    BY <1>0, <1>3, <2>1, OwnKey
  <2>3. Upholds(router, k, v)
    BY <1>4, <2>1 DEF Served
  <2>4. Upholds(r, k, v)
    BY <2>2, <2>3, FaresUpholds
  <2>5. k \in DOMAIN r.sequences <=> k \in DOMAIN router.sequences
    BY <2>2 DEF Fares
  <2> QED
    BY <1>4, <2>1, <2>4, <2>5 DEF Served
<1>5. \A a \in Actor, s \in Seat : KeyOf(a, s) \in DOMAIN router.sequences
         => KeyOf(a, s) \in DOMAIN r.sequences
  <2>1. TAKE a \in Actor, s \in Seat
  <2>2. Fares(router, r, KeyOf(a, s))
    BY <1>0, <1>3, OwnKey
  <2> QED
    BY <2>2 DEF Fares
<1>6. ASSUME Decoded(answer), Mine(answer), NEW s \in answer.seats
      PROVE  /\ frozen => answer.artifact = 1
             /\ Upholds(r, KeyOf(answer.actor, s), answer.artifact)
             /\ ~frozen /\ KeyOf(answer.actor, s) \notin DOMAIN r.sequences
                   => Done(answer.actor, {s})
  <2>1. PICK a, v : a = answer.actor /\ v = answer.artifact
    OBVIOUS
  <2>2. Served(a, s, v)
    BY <1>6, <2>1
  <2>3. a \in Actor /\ s \in Seat
    BY <1>6, <2>1 DEF Response
  <2> QED
    BY <1>4, <2>1, <2>2, <2>3
<1>7. \A a \in Actor, s \in Seat : \A v : Served(a, s, v) => Upholds(r, KeyOf(a, s), v)
  BY <1>4
<1>8. Truthful(r, answer)
  BY <1>5, <1>6, <1>7 DEF Truthful
<1>9. \A k \in DOMAIN r.sequences : k \in DOMAIN router.sequences
  BY <1>2
<1> QED
  BY <1>2, <1>3, <1>8, <1>9, ReplyServes

LEMMA ServeReplayServes ==
    StateInv /\ CleanInv /\ ArtifactInv /\ ServeReplay => ArtifactInv' /\ StaysServed
<1> SUFFICES ASSUME StateInv, CleanInv, ArtifactInv, ServeReplay PROVE ArtifactInv' /\ StaysServed
  OBVIOUS
<1>1. batch # <<>> /\ CleanInv'
  BY ServeReplayCleans DEF ServeReplay
<1>2. PICK answer \in Cached(router, Head(batch)) : Reply(router, answer)
  BY DEF ServeReplay
<1>3. answer \in Range(router.replays)
  BY <1>2 DEF Cached
<1>4. answer \in Response
  <2>1. router.replays \in Seq(Response)
    BY DEF StateInv, RouterInv, Router
  <2> QED
    BY <1>3, <2>1, RangeOfSeq
<1>5. Decoded(answer) /\ Mine(answer) =>
         \A s \in answer.seats : Served(answer.actor, s, answer.artifact)
  BY <1>3 DEF ArtifactInv, ServedInv
<1> QED
  BY <1>1, <1>2, <1>4, <1>5, FaresServes

LEMMA RefusalServes ==
    ASSUME StateInv, CleanInv, ArtifactInv, CleanInv', batch # <<>>,
           NEW r \in {router, AdmittedFor(router, Head(batch))},
           Reply(r, Error(Head(batch)))
    PROVE  ArtifactInv' /\ StaysServed
<1>1. PICK answer : answer = Error(Head(batch))
  OBVIOUS
<1>2. answer \in Response
  BY <1>1, HeadFacts, AnswerFacts DEF Unbound
<1>3. ~Decoded(answer)
  BY <1>1 DEF Decoded, Error, Answer
<1> QED
  BY <1>1, <1>2, <1>3, FaresServes

\* What a release or an abort releases was held under what its actor was told.
LEMMA ReleaseServes ==
    ASSUME StateInv, CleanInv, ArtifactInv, CleanInv', batch # <<>>,
           NEW q, q = Head(batch), Cleanup(q), ~Stale(router, q),
           NEW r, r = AdmittedFor(router, q),
           NEW ks \in SUBSET KeysOf(q), NEW artifact,
           \A k \in ks : artifact[k] \in Nat,
           \A k \in ks : \A v : Upholds(r, k, v) => v = artifact[k],
           NEW answer, answer \in {Answer(q, TRUE, v) : v \in Nat},
           Reply(ReleasedAs(r, ks, artifact), answer)
    PROVE  ArtifactInv' /\ StaysServed
<1>0. TypeInv /\ RouterInv(router) /\ Bounded
  BY DEF StateInv, ArtifactInv
<1>1. q \in Request /\ Started(q)
  BY HeadFacts
<1>2. /\ RouterInv(r)
      /\ r.generation[q.actor] = q.incarnation
      /\ Range(r.replays) \subseteq Range(router.replays)
      /\ DOMAIN r.sequences \subseteq DOMAIN router.sequences
  BY <1>1, AdmittedForFacts, AdmittedForLess
<1>3. /\ Remembers(r)
      /\ frozen => OnlyOne(r)
      /\ \A k \in Key : Mine(k) => Fares(router, r, k)
  BY <1>1, AdmittedForFares
<1>4. /\ ks \in SUBSET Key /\ IsFiniteSet(ks)
      /\ \A k \in ks : k.actor = q.actor /\ k.incarnation = q.incarnation
  <2>1. /\ KeysOf(q) \in SUBSET Key /\ IsFiniteSet(KeysOf(q))
        /\ \A k \in KeysOf(q) : k.actor = q.actor /\ k.incarnation = q.incarnation
    BY <1>1, KeysFacts
  <2> QED
    BY <2>1, FS_Subset
<1>5. \A k \in ks : k.incarnation = r.generation[k.actor]
  BY <1>2, <1>4
<1>6. PICK n : n = ReleasedAs(r, ks, artifact)
  OBVIOUS
<1>7. /\ Remembers(n)
      /\ \A k \in Key : Mine(k) /\ k \notin ks => Fares(r, n, k)
      /\ \A k \in ks : k \notin DOMAIN n.sequences
      /\ \A k \in ks : \A t \in Range(n.tombstones) :
            t.key = k => t.artifact = artifact[k]
      /\ Roomy => \A k \in ks : Marked(n, k)
  BY <1>0, <1>2, <1>3, <1>4, <1>5, <1>6, ReleasedFares
<1>8. /\ RouterInv(n) /\ n.replays = r.replays /\ n.current = r.current
      /\ DOMAIN n.sequences = DOMAIN r.sequences \ ks
      /\ \A k \in DOMAIN r.sequences \ ks : n.sequences[k] = r.sequences[k]
  BY <1>2, <1>4, <1>6, ReleasedAsKeeps
<1>9. frozen => OnlyOne(n)
  BY <1>3, <1>8 DEF OnlyOne
<1>10. PICK v \in Nat : answer = Answer(q, TRUE, v)
  OBVIOUS
<1>11. /\ answer \in Response
       /\ Cleanup(answer) /\ answer.ok /\ answer.seats = q.seats
       /\ answer.actor = q.actor /\ answer.incarnation = q.incarnation
  <2>1. answer \in Response
    BY <1>1, <1>10, AnswerFacts
  <2> QED
    BY <1>10, <2>1 DEF Answer, Cleanup
<1>12. ASSUME NEW a \in Actor, NEW s \in Seat, NEW w, Served(a, s, w)
       PROVE  Upholds(n, KeyOf(a, s), w)
  <2>1. PICK k : k = KeyOf(a, s)
    OBVIOUS
  <2>2. k \in Key /\ Mine(k) /\ Fares(router, r, k)
    BY <1>0, <1>3, <2>1, OwnKey
  <2>3. Upholds(router, k, w)
    BY <1>12, <2>1 DEF Served
  <2>4. Upholds(r, k, w)
    BY <2>2, <2>3, FaresUpholds
  <2>5. CASE k \in ks
    BY <1>7, <2>1, <2>4, <2>5 DEF Upholds
  <2>6. CASE k \notin ks
    <3>1. Fares(r, n, k)
      BY <1>7, <2>2, <2>6
    <3> QED
      BY <2>1, <2>4, <3>1, FaresUpholds
  <2> QED
    BY <2>5, <2>6
<1>13. ASSUME NEW a \in Actor, NEW s \in Seat,
              KeyOf(a, s) \in DOMAIN router.sequences, KeyOf(a, s) \notin DOMAIN n.sequences
       PROVE  Mine(answer) /\ answer.actor = a /\ s \in answer.seats
  <2>1. Fares(router, r, KeyOf(a, s))
    BY <1>0, <1>3, OwnKey
  <2>2. KeyOf(a, s) \in ks
    BY <1>8, <1>13, <2>1 DEF Fares
  <2>3. q.actor = a /\ q.incarnation = incarnation[a] /\ s \in q.seats
    BY <2>2 DEF KeysOf, KeyOf
  <2> QED
    BY <1>11, <2>3 DEF Mine
<1>14. Truthful(n, answer)
  BY <1>11, <1>12, <1>13 DEF Truthful, Decoded
<1>15. /\ \A k \in DOMAIN n.sequences : k \in DOMAIN router.sequences
       /\ Range(n.replays) \subseteq Range(router.replays)
  BY <1>2, <1>8
<1>16. Reply(n, answer)
  BY <1>6
<1> QED
  BY <1>7, <1>8, <1>9, <1>11, <1>14, <1>15, <1>16, ReplyServes

LEMMA ServeReleaseServes ==
    StateInv /\ CleanInv /\ ArtifactInv /\ ServeRelease => ArtifactInv' /\ StaysServed
<1> SUFFICES ASSUME StateInv, CleanInv, ArtifactInv, ServeRelease PROVE ArtifactInv' /\ StaysServed
  OBVIOUS
<1>0. CleanInv'
  BY ServeReleaseCleans
<1>1. batch # <<>> /\ Head(batch).kind = "release"
  BY DEF ServeRelease, Serve
<1>2. PICK q, r, ks : q = Head(batch) /\ r = AdmittedFor(router, q) /\ ks = KeysOf(q)
  OBVIOUS
<1>3. q \in Request /\ Cleanup(q) /\ q.expected \in Nat
  BY <1>1, <1>2, HeadFacts DEF Cleanup, Request
<1>4. PICK art : art = [k \in ks |-> q.expected]
  OBVIOUS
<1>5. \/ Reply(router, Error(q))
      \/ /\ ~Stale(router, q) /\ CanRelease(r, q)
         /\ Reply(ReleasedAs(r, ks, art), Answer(q, TRUE, q.expected))
      \/ Reply(r, Error(q))
  BY <1>2, <1>4 DEF ServeRelease, ReleasedAs
<1>6. CASE Reply(router, Error(q))
  BY <1>0, <1>1, <1>2, <1>6, RefusalServes
<1>7. CASE Reply(r, Error(q))
  BY <1>0, <1>1, <1>2, <1>7, RefusalServes
<1>8. CASE /\ ~Stale(router, q) /\ CanRelease(r, q)
           /\ Reply(ReleasedAs(r, ks, art), Answer(q, TRUE, q.expected))
  <2>1. ks \in SUBSET KeysOf(q) /\ \A k \in ks : art[k] \in Nat
    BY <1>2, <1>3, <1>4
  <2>2. ASSUME NEW k \in ks, NEW v, Upholds(r, k, v) PROVE v = art[k]
    <3>1. IF k \in DOMAIN r.sequences THEN r.sequences[k] = q.expected
          ELSE TombstoneOf(r, k) = {q.expected}
      BY <1>2, <1>8, <2>2 DEF CanRelease
    <3>2. art[k] = q.expected
      BY <1>4
    <3>3. CASE k \in DOMAIN r.sequences
      BY <2>2, <3>1, <3>2, <3>3 DEF Upholds
    <3>4. CASE k \notin DOMAIN r.sequences
      <4>1. q.expected \in TombstoneOf(r, k)
        BY <3>1, <3>4
      <4>2. PICK t \in Range(r.tombstones) : t.key = k /\ t.artifact = q.expected
        BY <4>1 DEF TombstoneOf
      <4> QED
        BY <2>2, <3>2, <3>4, <4>2 DEF Upholds
    <3> QED
      BY <3>3, <3>4
  <2>3. PICK answer : answer = Answer(q, TRUE, q.expected)
    OBVIOUS
  <2>4. answer \in {Answer(q, TRUE, v) : v \in Nat}
    BY <1>3, <2>3
  <2>5. Reply(ReleasedAs(r, ks, art), answer)
    BY <1>8, <2>3
  <2> QED
    BY <1>0, <1>1, <1>2, <1>3, <1>8, <2>1, <2>2, <2>4, <2>5, ReleaseServes
<1> QED
  BY <1>5, <1>6, <1>7, <1>8

LEMMA ServeAbortServes ==
    StateInv /\ CleanInv /\ ArtifactInv /\ ServeAbort => ArtifactInv' /\ StaysServed
<1> SUFFICES ASSUME StateInv, CleanInv, ArtifactInv, ServeAbort PROVE ArtifactInv' /\ StaysServed
  OBVIOUS
<1>0. CleanInv'
  BY ServeAbortCleans
<1>1. batch # <<>> /\ Head(batch).kind = "abort"
  BY DEF ServeAbort, Serve
<1>2. PICK q, r : q = Head(batch) /\ r = AdmittedFor(router, q)
  OBVIOUS
<1>3. q \in Request /\ Started(q) /\ Cleanup(q)
  BY <1>1, <1>2, HeadFacts DEF Cleanup
<1>4. PICK held, art : held = KeysOf(q) \cap DOMAIN r.sequences /\ art = r.sequences
  OBVIOUS
<1>5. \/ Reply(router, Error(q))
      \/ ~Stale(router, q) /\ Reply(ReleasedAs(r, held, art), Answer(q, TRUE, Unbound))
  BY <1>2, <1>4 DEF ServeAbort, ReleasedAs
<1>6. CASE Reply(router, Error(q))
  BY <1>0, <1>1, <1>2, <1>6, RefusalServes
<1>7. CASE ~Stale(router, q) /\ Reply(ReleasedAs(r, held, art), Answer(q, TRUE, Unbound))
  <2>1. r.sequences \in Maps(Key, Nat)
    BY <1>2, <1>3, AdmittedForFacts DEF RouterInv, Router
  <2>2. \A k \in held : art[k] \in Nat
    BY <1>4, <2>1, MapFacts
  <2>3. held \in SUBSET KeysOf(q)
    BY <1>4
  <2>4. \A k \in held : \A v : Upholds(r, k, v) => v = art[k]
    BY <1>4 DEF Upholds
  <2>5. PICK answer : answer = Answer(q, TRUE, Unbound)
    OBVIOUS
  <2>6. answer \in {Answer(q, TRUE, v) : v \in Nat}
    BY <2>5 DEF Unbound
  <2>7. Reply(ReleasedAs(r, held, art), answer)
    BY <1>7, <2>5
  <2> QED
    BY <1>0, <1>1, <1>2, <1>3, <1>7, <2>2, <2>3, <2>4, <2>6, <2>7, ReleaseServes
<1> QED
  BY <1>5, <1>6, <1>7

\* A first decode binds no sequence its actor was told of already.
LEMMA BindServes ==
    ASSUME StateInv, CleanInv, ArtifactInv, CleanInv', batch # <<>>,
           NEW q, q = Head(batch), ~Cleanup(q), ~Stale(router, q),
           NEW r, r = AdmittedFor(router, q), CanBind(r, q),
           Reply(BoundTo(r, KeysOf(q)), Answer(q, TRUE, r.current))
    PROVE  ArtifactInv' /\ StaysServed
<1>0. TypeInv /\ RouterInv(router) /\ Bounded
  BY DEF StateInv, ArtifactInv
<1>1. q \in Request /\ Started(q)
  BY HeadFacts
<1>2. /\ RouterInv(r) /\ r.current \in Nat
      /\ r.generation[q.actor] = q.incarnation
      /\ Range(r.replays) \subseteq Range(router.replays)
      /\ DOMAIN r.sequences \subseteq DOMAIN router.sequences
  BY <1>1, AdmittedForFacts, AdmittedForLess DEF RouterInv, Router
<1>3. /\ Remembers(r)
      /\ frozen => OnlyOne(r)
      /\ \A k \in Key : Mine(k) => Fares(router, r, k)
  BY <1>1, AdmittedForFares
<1>4. PICK ks : ks = KeysOf(q)
  OBVIOUS
<1>5. /\ ks \in SUBSET Key /\ IsFiniteSet(ks)
      /\ Cardinality(ks) = Cardinality(q.seats)
      /\ \A k \in ks : k.actor = q.actor /\ k.incarnation = q.incarnation
  BY <1>1, <1>4, KeysFacts
<1>6. /\ ks \cap DOMAIN r.sequences = {}
      /\ Cardinality(DOMAIN r.sequences) + Cardinality(ks) <= MaxSequences
      /\ r.inFlight + Cardinality(ks) <= MaxInFlight
      /\ \A k \in ks : k.incarnation = r.generation[k.actor]
  BY <1>2, <1>4, <1>5 DEF CanBind
<1>7. PICK n : n = BoundTo(r, ks)
  OBVIOUS
<1>8. /\ RouterInv(n) /\ n.replays = r.replays /\ n.current = r.current
      /\ DOMAIN n.sequences = DOMAIN r.sequences \cup ks
      /\ \A k \in ks : n.sequences[k] = r.current
      /\ \A k \in DOMAIN r.sequences : n.sequences[k] = r.sequences[k]
  BY <1>2, <1>5, <1>6, <1>7, BoundKeeps
<1>9. Remembers(n) /\ \A k \in Key : k \notin ks => Fares(r, n, k)
  BY <1>2, <1>3, <1>5, <1>6, <1>7, BoundFares
<1>10. frozen => OnlyOne(n)
  BY <1>3, <1>8 DEF OnlyOne
<1>11. PICK answer : answer = Answer(q, TRUE, r.current)
  OBVIOUS
<1>12. /\ answer \in Response
       /\ answer.artifact = r.current /\ answer.seats = q.seats
       /\ answer.actor = q.actor /\ answer.incarnation = q.incarnation
       /\ ~Cleanup(answer)
  <2>1. answer \in Response
    BY <1>1, <1>2, <1>11, AnswerFacts
  <2> QED
    BY <1>11, <2>1 DEF Answer, Cleanup
<1>13. ASSUME NEW a \in Actor, NEW s \in Seat, NEW v, Served(a, s, v)
       PROVE  Upholds(n, KeyOf(a, s), v)
  <2>1. PICK k : k = KeyOf(a, s)
    OBVIOUS
  <2>2. k \in Key /\ Mine(k) /\ Fares(router, r, k)
    BY <1>0, <1>3, <2>1, OwnKey
  <2>3. Upholds(router, k, v)
    BY <1>13, <2>1 DEF Served
  <2>4. CASE k \notin ks
    <3>1. Upholds(r, k, v) /\ Fares(r, n, k)
      BY <1>9, <2>2, <2>3, <2>4, FaresUpholds
    <3> QED
      BY <2>1, <3>1, FaresUpholds
  <2>5. CASE k \in ks
    <3>1. k \notin DOMAIN router.sequences
      BY <1>6, <2>2, <2>5 DEF Fares
    <3>2. q.actor = a /\ q.incarnation = incarnation[a] /\ s \in q.seats
      BY <1>4, <2>1, <2>5 DEF KeysOf, KeyOf
    <3>3. frozen
      <4>1. SUFFICES ASSUME ~frozen PROVE FALSE
        OBVIOUS
      <4>2. Undecoded(a, {s})
        BY <1>13, <2>1, <3>1, <4>1 DEF Served, Done
      <4>3. q \in OnTheWay
        <5>1. batch \in Seq(Request)
          BY <1>0 DEF TypeInv
        <5>2. q \in Range(batch)
          BY <5>1, TailFacts
        <5> QED
          BY <5>2 DEF OnTheWay
      <4>4. q.seats \cap {s} = {}
        BY <3>2, <4>2, <4>3 DEF Undecoded, Mine
      <4> QED
        BY <3>2, <4>4
    <3>4. v = 1 /\ r.current = 1
      BY <1>3, <1>13, <3>3 DEF Served, OnlyOne
    <3> QED
      BY <1>8, <2>1, <2>5, <3>4 DEF Upholds
  <2> QED
    BY <2>4, <2>5
<1>14. ASSUME NEW a \in Actor, NEW s \in Seat, KeyOf(a, s) \in DOMAIN router.sequences
       PROVE  KeyOf(a, s) \in DOMAIN n.sequences
  <2>1. Fares(router, r, KeyOf(a, s))
    BY <1>0, <1>3, OwnKey
  <2> QED
    BY <1>8, <1>14, <2>1 DEF Fares
<1>15. ASSUME Mine(answer), NEW s \in answer.seats
       PROVE  /\ frozen => answer.artifact = 1
              /\ Upholds(n, KeyOf(answer.actor, s), answer.artifact)
              /\ KeyOf(answer.actor, s) \in DOMAIN n.sequences
  <2>1. KeyOf(answer.actor, s) \in ks
    BY <1>4, <1>12, <1>15 DEF KeysOf, KeyOf, Mine
  <2>2. frozen => answer.artifact = 1
    BY <1>3, <1>12 DEF OnlyOne
  <2> QED
    BY <1>8, <1>12, <2>1, <2>2 DEF Upholds
<1>16. Truthful(n, answer)
  BY <1>13, <1>14, <1>15 DEF Truthful
<1>17. /\ \A k \in DOMAIN n.sequences :
              \/ k \in DOMAIN router.sequences
              \/ ~Cleanup(Head(batch)) /\ k \in KeysOf(Head(batch))
       /\ Range(n.replays) \subseteq Range(router.replays)
  BY <1>2, <1>4, <1>8
<1>18. Reply(n, answer)
  BY <1>4, <1>7, <1>11
<1> QED
  BY <1>8, <1>9, <1>10, <1>12, <1>16, <1>17, <1>18, ReplyServes

LEMMA ServeDecodeServes ==
    StateInv /\ CleanInv /\ ArtifactInv /\ ServeDecode => ArtifactInv' /\ StaysServed
<1> SUFFICES ASSUME StateInv, CleanInv, ArtifactInv, ServeDecode PROVE ArtifactInv' /\ StaysServed
  OBVIOUS
<1>0. CleanInv' /\ TypeInv
  BY ServeDecodeCleans DEF StateInv
<1>1. batch # <<>> /\ Head(batch).kind = "decode"
  BY DEF ServeDecode, Serve
<1>2. PICK q, r : q = Head(batch) /\ r = AdmittedFor(router, q)
  OBVIOUS
<1>3. q \in Request /\ Started(q) /\ ~Cleanup(q) /\ q.expected \in Nat
  BY <1>1, <1>2, HeadFacts DEF Cleanup, Request
<1>4. \/ Reply(router, Error(q))
      \/ /\ ~Stale(router, q) /\ CanBind(r, q)
         /\ Reply(BoundTo(r, KeysOf(q)), Answer(q, TRUE, r.current))
      \/ Holds(r, q) /\ Reply(r, Answer(q, TRUE, q.expected))
      \/ Reply(r, Error(q))
  BY <1>2 DEF ServeDecode
<1>5. CASE Reply(router, Error(q))
  BY <1>0, <1>1, <1>2, <1>5, RefusalServes
<1>6. CASE Reply(r, Error(q))
  BY <1>0, <1>1, <1>2, <1>6, RefusalServes
<1>7. CASE /\ ~Stale(router, q) /\ CanBind(r, q)
           /\ Reply(BoundTo(r, KeysOf(q)), Answer(q, TRUE, r.current))
  BY <1>0, <1>1, <1>2, <1>3, <1>7, BindServes
<1>8. CASE Holds(r, q) /\ Reply(r, Answer(q, TRUE, q.expected))
  <2>1. PICK answer : answer = Answer(q, TRUE, q.expected)
    OBVIOUS
  <2>2. /\ answer \in Response
        /\ answer.artifact = q.expected /\ answer.seats = q.seats
        /\ answer.actor = q.actor /\ answer.incarnation = q.incarnation
    <3>1. answer \in Response
      BY <1>3, <2>1, AnswerFacts
    <3> QED
      BY <2>1, <3>1 DEF Answer
  <2>3. ASSUME Mine(answer), NEW s \in answer.seats
        PROVE  Served(answer.actor, s, answer.artifact)
    <3>1. PICK a, k : a = answer.actor /\ k = KeyOf(a, s)
      OBVIOUS
    <3>2. a \in Actor /\ s \in Seat
      BY <2>2, <2>3, <3>1 DEF Response
    <3>3. k \in KeysOf(q)
      BY <2>2, <2>3, <3>1 DEF KeysOf, KeyOf, Mine
    <3>4. k \in DOMAIN r.sequences /\ r.sequences[k] = q.expected
      BY <1>8, <3>3 DEF Holds
    <3>5. Fares(router, r, k) /\ (frozen => OnlyOne(r))
      BY <1>0, <1>2, <1>3, <3>1, <3>2, AdmittedForFares, OwnKey
    <3>6. k \in DOMAIN router.sequences /\ router.sequences[k] = q.expected
      BY <3>4, <3>5 DEF Fares
    <3>7. frozen => q.expected = 1
      BY <3>4, <3>5 DEF OnlyOne
    <3> QED
      BY <2>2, <3>1, <3>6, <3>7 DEF Served, Upholds
  <2>4. Reply(r, answer)
    BY <1>8, <2>1
  <2> QED
    BY <1>0, <1>1, <1>2, <2>2, <2>3, <2>4, FaresServes
<1> QED
  BY <1>4, <1>5, <1>6, <1>7, <1>8

\* Answers in the cache and in the queues are typed.
LEMMA AnswersTyped ==
    ASSUME StateInv
    PROVE  /\ \A p \in Range(router.replays) : p \in Response
           /\ \A a \in Actor : \A p \in Range(inbox[a]) : p \in Response
           /\ \A a \in Actor : \A s \in DOMAIN binding[a] : s \in Seat
<1>1. router.replays \in Seq(Response)
  BY DEF StateInv, RouterInv, Router
<1>2. \A p \in Range(router.replays) : p \in Response
  BY <1>1, RangeOfSeq
<1>3. ASSUME NEW a \in Actor, NEW p \in Range(inbox[a]) PROVE p \in Response
  <2>1. inbox[a] \in Seq(Response)
    BY DEF StateInv, TypeInv
  <2> QED
    BY <1>3, <2>1, RangeOfSeq
<1>4. ASSUME NEW a \in Actor, NEW s \in DOMAIN binding[a] PROVE s \in Seat
  <2>1. PICK f : f = binding[a]
    OBVIOUS
  <2>2. f \in Maps(Seat, Nat)
    BY <2>1 DEF StateInv, TypeInv
  <2> QED
    BY <1>4, <2>1, <2>2, MapFacts
<1> QED
  BY <1>2, <1>3, <1>4

\* A step that serves nothing and starts no process: what an actor was told stays
\* true, and it learns only what its answers say.
LEMMA StepServes ==
    ASSUME StateInv, CleanInv, ArtifactInv, NEW r, router' = r,
           frozen' = frozen, incarnation' = incarnation, ~frozen => StaysDone,
           Remembers(r), frozen => OnlyOne(r),
           \A k \in Key : Mine(k) => Fares(router, r, k),
           Range(r.replays) \subseteq Range(router.replays),
           \A b \in Actor : Range(inbox'[b]) \subseteq Range(inbox[b]),
           \A b \in Actor : \A s \in DOMAIN binding'[b] :
              \/ s \in DOMAIN binding[b] /\ binding'[b][s] = binding[b][s]
              \/ \E p \in Range(inbox[b]) :
                    /\ Decoded(p) /\ Mine(p) /\ s \in p.seats
                    /\ binding'[b][s] = p.artifact
    PROVE  ArtifactInv' /\ StaysServed
<1>0. TypeInv /\ ServedInv /\ Remembers(router) /\ Bounded
  BY DEF StateInv, ArtifactInv
<1>1. ASSUME NEW a \in Actor, NEW s \in Seat, NEW v, Served(a, s, v)
      PROVE  Served(a, s, v)'
  <2>1. PICK k : k = KeyOf(a, s)
    OBVIOUS
  <2>2. Fares(router, r, k)
    BY <1>0, <2>1, OwnKey
  <2>3. Upholds(router, k, v)
    BY <1>1, <2>1 DEF Served
  <2>4. Upholds(r, k, v)
    BY <2>2, <2>3, FaresUpholds
  <2>5. KeyOf(a, s)' = k
    BY <2>1 DEF KeyOf
  <2>6. Upholds(router, KeyOf(a, s), v)'
    BY <2>4, <2>5 DEF Upholds, Marked
  <2>7. ~frozen' /\ KeyOf(a, s)' \notin DOMAIN router'.sequences => Done(a, {s})'
    BY <1>1, <2>1, <2>2, <2>5 DEF Served, Fares, StaysDone
  <2>8. frozen' => v = 1
    BY <1>1 DEF Served
  <2> QED
    BY <2>6, <2>7, <2>8 DEF Served
<1>2. \A p : Mine(p)' <=> Mine(p)
  BY DEF Mine
<1>3. ASSUME NEW p, p \in Range(router'.replays), Decoded(p), Mine(p)', NEW s \in p.seats
      PROVE  Served(p.actor, s, p.artifact)'
  <2>1. p \in Response /\ p \in Range(router.replays) /\ Mine(p)
    BY <1>2, <1>3, AnswersTyped
  <2>2. p.actor \in Actor /\ s \in Seat
    BY <1>3, <2>1 DEF Response
  <2>3. Served(p.actor, s, p.artifact)
    BY <1>0, <1>3, <2>1 DEF ServedInv
  <2> QED
    BY <1>1, <2>2, <2>3
<1>4. ASSUME NEW a \in Actor, NEW p \in Range(inbox[a]), Decoded(p), Mine(p),
             NEW s \in p.seats
      PROVE  Served(a, s, p.artifact)'
  <2>1. s \in Seat
    BY <1>4, AnswersTyped DEF Response
  <2>2. Served(a, s, p.artifact)
    BY <1>0, <1>4 DEF ServedInv
  <2> QED
    BY <1>1, <2>1, <2>2
<1>5. ASSUME NEW a \in Actor, NEW s, s \in DOMAIN binding'[a], NEW v, v = binding'[a][s]
      PROVE  Served(a, s, v)'
  <2>1. CASE s \in DOMAIN binding[a] /\ binding'[a][s] = binding[a][s]
    <3>1. Served(a, s, v)
      BY <1>0, <1>5, <2>1 DEF ServedInv
    <3>2. s \in Seat
      BY <2>1, AnswersTyped
    <3> QED
      BY <1>1, <3>1, <3>2
  <2>2. CASE \E p \in Range(inbox[a]) :
                /\ Decoded(p) /\ Mine(p) /\ s \in p.seats
                /\ binding'[a][s] = p.artifact
    <3>1. PICK p \in Range(inbox[a]) : Decoded(p) /\ Mine(p) /\ s \in p.seats
                                       /\ binding'[a][s] = p.artifact
      BY <2>2
    <3>2. Served(a, s, p.artifact)'
      BY <1>4, <3>1
    <3>3. v = p.artifact
      BY <1>5, <3>1
    <3> QED
      BY <3>2, <3>3
  <2> QED
    BY <1>5, <2>1, <2>2
<1>6. ServedInv'
  <2>1. (\A a \in Actor : \A s \in DOMAIN binding[a] : Served(a, s, binding[a][s]))'
    BY <1>5 DEF Served, Upholds
  <2>2. \A p \in Range(router'.replays) : Decoded(p) /\ Mine(p)' =>
          \A s \in p.seats : Served(p.actor, s, p.artifact)'
    BY <1>3
  <2>3. \A a \in Actor : \A p \in Range(inbox'[a]) : Decoded(p) /\ Mine(p)' =>
          \A s \in p.seats : Served(a, s, p.artifact)'
    BY <1>2, <1>4
  <2> QED
    BY <2>1, <2>2, <2>3 DEF ServedInv, Decoded, Cleanup
<1>7. Remembers(router)' /\ Bounded'
  BY <1>0 DEF Remembers, Bounded, Ordered
<1>8. frozen' => OnlyOne(router)'
  BY DEF OnlyOne
<1> QED
  BY <1>1, <1>6, <1>7, <1>8 DEF ArtifactInv, StaysServed

LEMMA QuietServes ==
    ASSUME StateInv, CleanInv, ArtifactInv, NEW r, router' = r,
           UNCHANGED <<frozen, actorVars, inbox>>, ~frozen => StaysDone,
           Remembers(r), frozen => OnlyOne(r),
           \A k \in Key : Mine(k) => Fares(router, r, k),
           Range(r.replays) \subseteq Range(router.replays)
    PROVE  ArtifactInv' /\ StaysServed
<1>1. UNCHANGED <<frozen, incarnation, inbox, binding>>
  BY DEF actorVars
<1>2. \A b \in Actor : Range(inbox'[b]) \subseteq Range(inbox[b])
  BY <1>1
<1>3. \A b \in Actor : \A s \in DOMAIN binding'[b] :
         s \in DOMAIN binding[b] /\ binding'[b][s] = binding[b][s]
  BY <1>1
<1> QED
  BY <1>1, <1>2, <1>3, StepServes

\* An actor's step that keeps its process.
LEMMA ActorServes ==
    ASSUME StateInv, CleanInv, ArtifactInv,
           UNCHANGED <<router, frozen, incarnation>>, ~frozen => StaysDone,
           \A b \in Actor : Range(inbox'[b]) \subseteq Range(inbox[b]),
           \A b \in Actor : \A s \in DOMAIN binding'[b] :
              \/ s \in DOMAIN binding[b] /\ binding'[b][s] = binding[b][s]
              \/ \E p \in Range(inbox[b]) :
                    /\ Decoded(p) /\ Mine(p) /\ s \in p.seats
                    /\ binding'[b][s] = p.artifact
    PROVE  ArtifactInv' /\ StaysServed
<1>1. PICK r : r = router
  OBVIOUS
<1>2. \A k \in Key : Mine(k) => Fares(router, r, k)
  BY <1>1, FaresSame
<1>3. router' = r /\ Remembers(r) /\ (frozen => OnlyOne(r))
      /\ Range(r.replays) \subseteq Range(router.replays)
  BY <1>1 DEF ArtifactInv
<1> QED
  BY <1>2, <1>3, StepServes

LEMMA LoadRouteServes ==
    StateInv /\ CleanInv /\ ArtifactInv /\ LoadRoute => ArtifactInv' /\ StaysServed
<1> SUFFICES ASSUME StateInv, CleanInv, ArtifactInv, LoadRoute PROVE ArtifactInv' /\ StaysServed
  OBVIOUS
<1>1. /\ ~loaded /\ UNCHANGED <<router, frozen, incarnation, inbox, binding>>
  BY DEF LoadRoute, actorVars
<1>2. frozen
  BY <1>1 DEF CleanInv, LoadedInv
<1>3. \A b \in Actor : Range(inbox'[b]) \subseteq Range(inbox[b])
  BY <1>1
<1>4. \A b \in Actor : \A s \in DOMAIN binding'[b] :
         s \in DOMAIN binding[b] /\ binding'[b][s] = binding[b][s]
  BY <1>1
<1> QED
  BY <1>1, <1>2, <1>3, <1>4, ActorServes

LEMMA PublishServes ==
    StateInv /\ CleanInv /\ ArtifactInv /\ Publish => ArtifactInv' /\ StaysServed
<1> SUFFICES ASSUME StateInv, CleanInv, ArtifactInv, Publish PROVE ArtifactInv' /\ StaysServed
  OBVIOUS
<1>1. PICK v \in Version : CanPublish(router, v) /\ router' = PublishedTo(router, v)
  BY DEF Publish
<1>2. UNCHANGED <<frozen, actorVars, inbox>> /\ ~frozen /\ StaysDone
  BY PublishCleans DEF Publish
<1>3. v \in Nat
  BY RecurrentAssumption DEF Version
<1>4. PICK r : r = PublishedTo(router, v)
  OBVIOUS
<1>5. /\ r.sequences = router.sequences /\ r.generation = router.generation
      /\ r.tombstones = router.tombstones /\ r.replays = router.replays
  BY <1>1, <1>3, <1>4, PublishedKeeps DEF StateInv
<1>6. \A k \in Key : Mine(k) => Fares(router, r, k)
  BY <1>5 DEF Fares, Marked
<1>7. Remembers(r)
  BY <1>5 DEF ArtifactInv, Remembers
<1>8. router' = r /\ Range(r.replays) \subseteq Range(router.replays)
  BY <1>1, <1>4, <1>5
<1> QED
  BY <1>2, <1>6, <1>7, <1>8, QuietServes

\* What a drain does to the router.
LEMMA DrainAdmits ==
    ASSUME StateInv, Drain
    PROVE  /\ UNCHANGED <<frozen, actorVars, inbox>>
           /\ \/ router' = router
              \/ \E latest \in Generations :
                    /\ \A a \in DOMAIN latest : latest[a] <= incarnation[a]
                    /\ router' = Admitted(router, latest)
<1>0. TypeInv /\ PastInv
  BY DEF StateInv
<1>1. PICK n \in 1 .. Len(Arriving), peeked \in 0 .. 1 :
        \E taken \in InOrder(SubSeq(Arriving, 1, n)) :
         /\ MayTake(n, peeked)
         /\ router' = IF loaded THEN Admitted(router, Latest(taken)) ELSE router
  BY DEF Drain
<1>2. PICK taken \in InOrder(SubSeq(Arriving, 1, n)) :
         /\ MayTake(n, peeked)
         /\ router' = IF loaded THEN Admitted(router, Latest(taken)) ELSE router
  BY <1>1
<1>3. taken \in Seq(Request) /\ Range(taken) \subseteq Range(Arriving)
  BY <1>0, <1>2, DrainParts
<1>4. \A i \in DOMAIN taken : Started(taken[i])
  <2>1. \A q \in Range(Arriving) : q.incarnation <= incarnation[q.actor]
    BY <1>0, ArrivingStarted DEF Started, Range
  <2> QED
    BY <1>3, <2>1 DEF Started, Range
<1>5. PICK latest : latest = Latest(taken)
  OBVIOUS
<1>6. latest \in Generations /\ \A a \in DOMAIN latest : latest[a] <= incarnation[a]
  BY <1>0, <1>3, <1>4, <1>5, LatestFacts
<1>7. router' = router \/ router' = Admitted(router, latest)
  BY <1>2, <1>5
<1>8. UNCHANGED <<frozen, actorVars, inbox>>
  BY DEF Drain
<1> QED
  BY <1>6, <1>7, <1>8

LEMMA DrainServes == StateInv /\ CleanInv /\ ArtifactInv /\ Drain => ArtifactInv' /\ StaysServed
<1> SUFFICES ASSUME StateInv, CleanInv, ArtifactInv, Drain PROVE ArtifactInv' /\ StaysServed
  OBVIOUS
<1>0. TypeInv /\ RouterInv(router) /\ Bounded /\ Remembers(router)
  BY DEF StateInv, ArtifactInv
<1>1. UNCHANGED <<frozen, actorVars, inbox>> /\ (~frozen => StaysDone)
  BY DrainAdmits, DrainCleans
<1>2. PICK r : r = router'
  OBVIOUS
<1>3. CASE router' = router
  <2>1. \A k \in Key : Mine(k) => Fares(router, r, k)
    BY <1>2, <1>3, FaresSame
  <2>2. Remembers(r) /\ (frozen => OnlyOne(r))
        /\ Range(r.replays) \subseteq Range(router.replays)
    BY <1>2, <1>3 DEF ArtifactInv
  <2> QED
    BY <1>1, <1>2, <2>1, <2>2, QuietServes
<1>4. ASSUME NEW latest \in Generations,
             \A a \in DOMAIN latest : latest[a] <= incarnation[a],
             router' = Admitted(router, latest)
      PROVE  ArtifactInv' /\ StaysServed
  <2>1. /\ Remembers(r)
        /\ \A k \in Key : Mine(k) => Fares(router, r, k)
    BY <1>0, <1>2, <1>4, AdmittedFares
  <2>2. /\ r.replays = Only(router.replays, Current(router, latest))
        /\ r.current = router.current
        /\ DOMAIN r.sequences \subseteq DOMAIN router.sequences
        /\ \A k \in DOMAIN r.sequences : r.sequences[k] = router.sequences[k]
    BY <1>0, <1>2, <1>4, AdmittedKeeps
  <2>3. frozen => OnlyOne(r)
    BY <2>2 DEF ArtifactInv, OnlyOne
  <2>4. router.replays \in Seq(Response)
    BY <1>0 DEF RouterInv, Router
  <2>5. Range(r.replays) \subseteq Range(router.replays)
    BY <2>2, <2>4, OnlyFacts
  <2> QED
    BY <1>1, <1>2, <2>1, <2>3, <2>5, QuietServes
<1> QED
  BY <1>3, <1>4, DrainAdmits

\* A step in which nobody receives an answer.
LEMMA WaitingServes ==
    ASSUME StateInv, CleanInv, ArtifactInv, ~frozen => StaysDone,
           UNCHANGED <<router, frozen, incarnation, inbox, binding>>
    PROVE  ArtifactInv' /\ StaysServed
<1>1. \A b \in Actor : Range(inbox'[b]) \subseteq Range(inbox[b])
  OBVIOUS
<1>2. \A b \in Actor : \A s \in DOMAIN binding'[b] :
         s \in DOMAIN binding[b] /\ binding'[b][s] = binding[b][s]
  OBVIOUS
<1> QED
  BY <1>1, <1>2, ActorServes

LEMMA SubmitServes ==
    ASSUME StateInv, CleanInv, ArtifactInv, NEW a \in Actor, NEW kind \in Kind,
           NEW ss \in SUBSET Seat, NEW v \in Nat, Submit(a, kind, ss, v),
           kind = "decode" => ss \cap closing[a] = {},
           kind # "decode" => ss \cap Waiting(a) = {}
    PROVE  ArtifactInv' /\ StaysServed
<1>1. ~frozen => StaysDone
  BY SubmitCleans
<1>2. UNCHANGED <<router, frozen, incarnation, inbox, binding>>
  BY DEF Submit, serverVars
<1> QED
  BY <1>1, <1>2, WaitingServes

\* What a process learns from an answer, and what it forgets.
LEMMA ReceiveBinds ==
    ASSUME StateInv, CleanInv, NEW a \in Actor, Receive(a)
    PROVE  \A b \in Actor : \A s \in DOMAIN binding'[b] :
              \/ s \in DOMAIN binding[b] /\ binding'[b][s] = binding[b][s]
              \/ \E p \in Range(inbox[b]) :
                    /\ Decoded(p) /\ Mine(p) /\ s \in p.seats
                    /\ binding'[b][s] = p.artifact
<1>0. /\ inbox \in [Actor -> Seq(Response)]
      /\ binding \in [Actor -> Maps(Seat, Nat)]
  BY DEF StateInv, TypeInv
<1>1. PICK p : p = Head(inbox[a])
  OBVIOUS
<1>2. PICK mine : mine = (p.incarnation = incarnation[a] /\ p.id \in DOMAIN pending[a])
  OBVIOUS
<1>3. PICK f : f = binding[a]
  OBVIOUS
<1>4. /\ inbox[a] # <<>>
      /\ binding' = [binding EXCEPT ![a] =
                 CASE mine /\ p.ok /\ p.kind = "decode" -> Put(f, p.seats, p.artifact)
                   [] mine /\ p.ok /\ p.kind = "release" ->
                          Restrict(f, DOMAIN f \ p.seats)
                   [] OTHER -> f]
  BY <1>1, <1>2, <1>3 DEF Receive
<1>5. p \in Range(inbox[a]) /\ p \in Response
  BY <1>0, <1>1, <1>4, TailFacts
<1>6. PICK g : g = CASE mine /\ p.ok /\ p.kind = "decode" -> Put(f, p.seats, p.artifact)
                   [] mine /\ p.ok /\ p.kind = "release" ->
                          Restrict(f, DOMAIN f \ p.seats)
                   [] OTHER -> f
  OBVIOUS
<1>7. binding'[a] = g /\ \A b \in Actor : b # a => binding'[b] = binding[b]
  BY <1>0, <1>4, <1>6
<1>8. ASSUME NEW s, s \in DOMAIN g
      PROVE  \/ s \in DOMAIN f /\ g[s] = f[s]
             \/ Decoded(p) /\ Mine(p) /\ s \in p.seats /\ g[s] = p.artifact
  <2>0. f \in Maps(Seat, Nat)
    BY <1>0, <1>3
  <2>1. CASE mine /\ p.ok /\ p.kind = "decode"
    <3>1. g = Put(f, p.seats, p.artifact)
      BY <1>6, <2>1
    <3>3. /\ DOMAIN g = p.seats \cup DOMAIN f
          /\ \A x \in p.seats : g[x] = p.artifact
          /\ \A x \in DOMAIN f \ p.seats : g[x] = f[x]
      BY <3>1 DEF Put
    <3>4. p.actor = a
      BY <1>5 DEF CleanInv, AnswerInv
    <3>5. Decoded(p) /\ Mine(p)
      BY <1>2, <2>1, <3>4 DEF Decoded, Cleanup, Mine
    <3> QED
      BY <1>8, <3>3, <3>5
  <2>2. CASE mine /\ p.ok /\ p.kind = "release"
    <3>1. g = Restrict(f, DOMAIN f \ p.seats)
      BY <1>6, <2>2
    <3>2. DOMAIN g = DOMAIN f \ p.seats /\ \A x \in DOMAIN f \ p.seats : g[x] = f[x]
      BY <2>0, <3>1, RestrictMaps
    <3> QED
      BY <1>8, <3>2
  <2>3. CASE ~(mine /\ p.ok /\ (p.kind = "decode" \/ p.kind = "release"))
    BY <1>6, <1>8, <2>3
  <2> QED
    BY <2>1, <2>2, <2>3
<1> QED
  BY <1>3, <1>5, <1>7, <1>8

LEMMA ReceiveServes ==
    \A a \in Actor : StateInv /\ CleanInv /\ ArtifactInv /\ Receive(a) => ArtifactInv' /\ StaysServed
<1> SUFFICES ASSUME NEW a \in Actor, StateInv, CleanInv, ArtifactInv, Receive(a)
             PROVE  ArtifactInv' /\ StaysServed
  OBVIOUS
<1>1. ~frozen => StaysDone
  BY ReceiveCleans
<1>2. /\ UNCHANGED <<router, frozen, incarnation>>
      /\ inbox[a] # <<>> /\ inbox' = [inbox EXCEPT ![a] = Tail(@)]
  BY DEF Receive, serverVars
<1>3. inbox \in [Actor -> Seq(Response)]
  BY DEF StateInv, TypeInv
<1>4. Range(Tail(inbox[a])) \subseteq Range(inbox[a])
  BY <1>2, <1>3, TailFacts
<1>5. \A b \in Actor : Range(inbox'[b]) \subseteq Range(inbox[b])
  BY <1>2, <1>3, <1>4
<1> QED
  BY <1>1, <1>2, <1>5, ReceiveBinds, ActorServes

LEMMA RetryServes ==
    \A a \in Actor : StateInv /\ CleanInv /\ ArtifactInv /\ Retry(a)
        => ArtifactInv' /\ StaysServed
<1> SUFFICES ASSUME NEW a \in Actor, StateInv, CleanInv, ArtifactInv, Retry(a)
             PROVE  ArtifactInv' /\ StaysServed
  OBVIOUS
<1>1. ~frozen => StaysDone
  BY RetryCleans
<1> QED
  BY <1>1, WaitingServes DEF Retry, serverVars

LEMMA AbandonServes ==
    \A a \in Actor : StateInv /\ CleanInv /\ ArtifactInv /\ Abandon(a)
        => ArtifactInv' /\ StaysServed
<1> SUFFICES ASSUME NEW a \in Actor, StateInv, CleanInv, ArtifactInv, Abandon(a)
             PROVE  ArtifactInv' /\ StaysServed
  OBVIOUS
<1>1. ~frozen => StaysDone
  BY AbandonCleans
<1> QED
  BY <1>1, WaitingServes DEF Abandon, serverVars

\* A new process was told nothing, and nothing that is under way is its own.
LEMMA RestartServes ==
    \A a \in Actor : StateInv /\ CleanInv /\ ArtifactInv /\ Restart(a) => ArtifactInv'
<1> SUFFICES ASSUME NEW a \in Actor, StateInv, CleanInv, ArtifactInv, Restart(a)
             PROVE  ArtifactInv'
  OBVIOUS
<1>0. /\ TypeInv /\ PastInv /\ AnswerInv /\ ServedInv
      /\ Remembers(router) /\ Bounded
  BY DEF StateInv, CleanInv, ArtifactInv
<1>1. /\ incarnation[a] < MaxIncarnation
      /\ incarnation' = [incarnation EXCEPT ![a] = @ + 1]
      /\ pending' = [pending EXCEPT ![a] = <<>>]
      /\ binding' = [binding EXCEPT ![a] = <<>>]
      /\ closing' = [closing EXCEPT ![a] = {}]
      /\ UNCHANGED <<router, frozen, loaded, lookahead, batch, queue, inbox>>
  BY DEF Restart, serverVars
<1>2. /\ incarnation \in [Actor -> Nat]
      /\ pending \in [Actor -> Maps(Nat, Entry)]
      /\ binding \in [Actor -> Maps(Seat, Nat)]
      /\ closing \in [Actor -> SUBSET Seat]
      /\ MaxIncarnation \in Nat
  BY <1>0, RecurrentAssumption DEF TypeInv
<1>3. /\ incarnation[a] \in Nat
      /\ incarnation'[a] = incarnation[a] + 1
      /\ DOMAIN binding'[a] = {}
      /\ \A b \in Actor : b # a =>
            /\ incarnation'[b] = incarnation[b] /\ pending'[b] = pending[b]
            /\ closing'[b] = closing[b] /\ binding'[b] = binding[b]
  <2>1. DOMAIN <<>> = {}
    OBVIOUS
  <2> QED
    BY <1>1, <1>2, <2>1
<1>4. ASSUME NEW p, p.actor \in Actor, p.incarnation \in Nat,
             p.incarnation <= incarnation[p.actor], Mine(p)'
      PROVE  p.actor # a /\ Mine(p)
  <2>1. PICK b, i : b = p.actor /\ i = p.incarnation
    OBVIOUS
  <2>2. i = incarnation'[b] /\ i <= incarnation[b] /\ i \in Nat
    BY <1>4, <2>1 DEF Mine
  <2>3. b # a
    BY <1>3, <2>2
  <2>4. i = incarnation[b]
    BY <1>3, <1>4, <2>1, <2>2, <2>3
  <2> QED
    BY <2>1, <2>3, <2>4 DEF Mine
<1>5. OnTheWay' = OnTheWay
  BY <1>1 DEF OnTheWay
<1>6. ASSUME NEW b \in Actor, b # a, NEW s \in Seat, Done(b, {s}) PROVE Done(b, {s})'
  <2>1. Closed(b, {s})'
    BY <1>3, <1>6 DEF Done, Closed, Cleanup
  <2>2. ASSUME NEW q \in OnTheWay, q.actor = b, ~Cleanup(q), Mine(q)'
        PROVE  q.seats \cap {s} = {}
    <3>1. Mine(q)
      BY <1>3, <1>6, <2>2 DEF Mine
    <3> QED
      BY <1>6, <2>2, <3>1 DEF Done, Undecoded
  <2>3. Undecoded(b, {s})'
    BY <1>5, <2>2 DEF Undecoded, Cleanup
  <2>4. Unheld(b, {s})'
    BY <1>1, <1>3, <1>6 DEF Done, Unheld, KeyOf
  <2> QED
    BY <2>1, <2>3, <2>4 DEF Done
<1>7. ASSUME NEW b \in Actor, b # a, NEW s \in Seat, NEW v, Served(b, s, v)
      PROVE  Served(b, s, v)'
  <2>1. KeyOf(b, s)' = KeyOf(b, s)
    BY <1>3, <1>7 DEF KeyOf
  <2>2. Upholds(router, KeyOf(b, s), v)'
    BY <1>1, <1>7, <2>1 DEF Served, Upholds, Marked
  <2>3. ~frozen' /\ KeyOf(b, s)' \notin DOMAIN router'.sequences => Done(b, {s})'
    BY <1>1, <1>6, <1>7, <2>1 DEF Served
  <2>4. frozen' => v = 1
    BY <1>1, <1>7 DEF Served
  <2> QED
    BY <2>2, <2>3, <2>4 DEF Served
<1>8. ASSUME NEW p \in Range(router.replays), Decoded(p), Mine(p)', NEW s \in p.seats
      PROVE  Served(p.actor, s, p.artifact)'
  <2>1. p \in Response /\ p.incarnation <= incarnation[p.actor]
    BY <1>0, AnswersTyped DEF AnswerInv
  <2>2. p.actor \in Actor /\ p.incarnation \in Nat /\ s \in Seat
    BY <1>8, <2>1 DEF Response
  <2>3. p.actor # a /\ Mine(p)
    BY <1>4, <1>8, <2>1, <2>2
  <2>4. Served(p.actor, s, p.artifact)
    BY <1>0, <1>8, <2>3 DEF ServedInv
  <2> QED
    BY <1>7, <2>2, <2>3, <2>4
<1>9. ASSUME NEW b \in Actor, NEW p \in Range(inbox[b]), Decoded(p), Mine(p)',
             NEW s \in p.seats
      PROVE  Served(b, s, p.artifact)'
  <2>1. p \in Response /\ p.actor = b /\ p.incarnation <= incarnation[p.actor]
    BY <1>0, AnswersTyped DEF AnswerInv
  <2>2. p.actor \in Actor /\ p.incarnation \in Nat /\ s \in Seat
    BY <1>9, <2>1 DEF Response
  <2>3. b # a /\ Mine(p)
    BY <1>4, <1>9, <2>1, <2>2
  <2>4. Served(b, s, p.artifact)
    BY <1>0, <1>9, <2>3 DEF ServedInv
  <2> QED
    BY <1>7, <2>2, <2>3, <2>4
<1>10. ASSUME NEW b \in Actor, NEW s, s \in DOMAIN binding'[b], NEW v, v = binding'[b][s]
       PROVE  Served(b, s, v)'
  <2>1. b # a /\ binding'[b] = binding[b]
    BY <1>3, <1>10
  <2>2. s \in Seat
    BY <1>10, <2>1, AnswersTyped
  <2>3. Served(b, s, v)
    BY <1>0, <1>10, <2>1 DEF ServedInv
  <2> QED
    BY <1>7, <2>1, <2>2, <2>3
<1>11. ServedInv'
  <2>1. (\A b \in Actor : \A s \in DOMAIN binding[b] : Served(b, s, binding[b][s]))'
    BY <1>10 DEF Served, Upholds
  <2>2. \A p \in Range(router'.replays) : Decoded(p) /\ Mine(p)' =>
          \A s \in p.seats : Served(p.actor, s, p.artifact)'
    BY <1>1, <1>8
  <2>3. \A b \in Actor : \A p \in Range(inbox'[b]) : Decoded(p) /\ Mine(p)' =>
          \A s \in p.seats : Served(b, s, p.artifact)'
    BY <1>1, <1>9
  <2> QED
    BY <2>1, <2>2, <2>3 DEF ServedInv, Decoded, Cleanup
<1>12. Bounded'
  <2>1. \A b \in Actor : incarnation'[b] <= MaxIncarnation
    <3>1. TAKE b \in Actor
    <3>2. incarnation[b] \in Nat /\ incarnation[b] <= MaxIncarnation
      BY <1>0, <1>2 DEF Bounded
    <3> QED
      BY <1>1, <1>2, <1>3, <3>2
  <2> QED
    BY <2>1 DEF Bounded
<1>13. Remembers(router)'
  <2>1. \A b \in Actor : router.generation[b] <= incarnation'[b]
    <3>1. TAKE b \in Actor
    <3>2. router.generation[b] <= incarnation[b]
      BY <1>0 DEF Remembers
    <3>3. router.generation[b] \in Int
      BY DEF StateInv, RouterInv, Router
    <3> QED
      BY <1>2, <1>3, <3>2, <3>3
  <2>2. Ordered(router'.tombstones, router'.generation)
    BY <1>0, <1>1 DEF Remembers
  <2> QED
    BY <1>1, <2>1, <2>2 DEF Remembers, Ordered
<1>14. frozen' => OnlyOne(router)'
  BY <1>1 DEF ArtifactInv, OnlyOne
<1> QED
  BY <1>11, <1>12, <1>13, <1>14 DEF ArtifactInv

LEMMA ClientServes ==
    \A a \in Actor : StateInv /\ CleanInv /\ ArtifactInv /\ Client(a) => ArtifactInv'
<1> SUFFICES ASSUME NEW a \in Actor, StateInv, CleanInv, ArtifactInv, Client(a)
             PROVE  ArtifactInv'
  OBVIOUS
<1>1. /\ Idle(a) \subseteq Seat /\ Idle(a) \cap Waiting(a) = {}
      /\ Version \subseteq Nat /\ Unbound \in Nat
  BY RecurrentAssumption DEF Idle, Version, Unbound
<1>2. "decode" \in Kind /\ "release" \in Kind /\ "abort" \in Kind
  BY DEF Kind
<1>3. CASE SubmitFirst(a)
  <2>1. PICK ss \in SUBSET Seat : Submit(a, "decode", ss, Unbound) /\ ss \cap closing[a] = {}
    BY <1>1, <1>3 DEF SubmitFirst
  <2> QED
    BY <1>1, <1>2, <2>1, SubmitServes
<1>4. CASE SubmitNext(a)
  <2>1. PICK ss \in SUBSET Seat, v \in Nat :
           Submit(a, "decode", ss, v) /\ ss \cap closing[a] = {}
    BY <1>1, <1>4 DEF SubmitNext
  <2> QED
    BY <1>2, <2>1, SubmitServes
<1>5. CASE SubmitRelease(a)
  <2>1. PICK ss \in SUBSET Seat, v \in Nat :
           Submit(a, "release", ss, v) /\ ss \cap Waiting(a) = {}
    BY <1>1, <1>5 DEF SubmitRelease
  <2> QED
    BY <1>2, <2>1, SubmitServes
<1>6. CASE SubmitAbort(a)
  <2>1. PICK ss \in SUBSET Seat :
           Submit(a, "abort", ss, Unbound) /\ ss \cap Waiting(a) = {}
    BY <1>1, <1>6 DEF SubmitAbort
  <2> QED
    BY <1>1, <1>2, <2>1, SubmitServes
<1> QED
  BY <1>3, <1>4, <1>5, <1>6, ReceiveServes, RetryServes, AbandonServes, RestartServes
  DEF Client

LEMMA InitServes == Init => ArtifactInv
<1> SUFFICES ASSUME Init PROVE ArtifactInv
  OBVIOUS
<1>1. /\ router.current = 1 /\ router.sequences = <<>>
      /\ router.tombstones = <<>> /\ router.replays = <<>>
      /\ \A a \in Actor : router.generation[a] = -1 /\ incarnation[a] = 0
      /\ \A a \in Actor : inbox[a] = <<>> /\ binding[a] = <<>>
  BY DEF Init
<1>2. DOMAIN <<>> = {} /\ Range(<<>>) = {}
  BY EmptyFacts, EmptySeq
<1>3. ServedInv
  BY <1>1, <1>2 DEF ServedInv
<1>4. Ordered(router.tombstones, router.generation)
  BY <1>1, <1>2 DEF Ordered
<1>5. Remembers(router)
  BY <1>1, <1>4 DEF Remembers
<1>6. Bounded
  BY <1>1, RecurrentAssumption DEF Bounded
<1>7. OnlyOne(router)
  BY <1>1, <1>2 DEF OnlyOne
<1> QED
  BY <1>3, <1>5, <1>6, <1>7 DEF ArtifactInv

LEMMA NextServes == StateInv /\ CleanInv /\ ArtifactInv /\ [Next]_vars => ArtifactInv'
<1> SUFFICES ASSUME StateInv, CleanInv, ArtifactInv, [Next]_vars PROVE ArtifactInv'
  OBVIOUS
<1>1. CASE UNCHANGED vars
  <2>1. UNCHANGED <<router, frozen, queue, lookahead, batch, incarnation,
                    pending, inbox, closing, ended, binding>>
    BY <1>1 DEF vars, serverVars, actorVars
  <2>2. OnTheWay' = OnTheWay
    BY <2>1 DEF OnTheWay
  <2>3. ASSUME NEW a, NEW ss, Done(a, ss) PROVE Done(a, ss)'
    <3>1. Closed(a, ss)'
      BY <2>1, <2>3 DEF Done, Closed, Cleanup
    <3>2. Undecoded(a, ss)'
      BY <2>1, <2>2, <2>3 DEF Done, Undecoded, Cleanup, Mine
    <3>3. Unheld(a, ss)'
      BY <2>1, <2>3 DEF Done, Unheld, KeyOf
    <3> QED
      BY <3>1, <3>2, <3>3 DEF Done
  <2>4. StaysDone
    BY <2>3 DEF StaysDone
  <2> QED
    BY <2>1, <2>4, WaitingServes
<1>2. CASE \E a \in Actor : Client(a)
  BY <1>2, ClientServes
<1> QED
  BY <1>1, <1>2, LoadRouteServes, PublishServes, DrainServes, ServeReplayServes,
     ServeDecodeServes, ServeReleaseServes, ServeAbortServes DEF Next, Server

LEMMA ServedBound ==
    ASSUME Roomy, ArtifactInv
    PROVE  BoundArtifactIsServed
<1> SUFFICES ASSUME NEW a \in Actor, NEW s \in DOMAIN binding[a], NEW v, v = binding[a][s],
                    NEW k, k = KeyOf(a, s)
             PROVE  IF k \in DOMAIN router.sequences THEN router.sequences[k] = v
                    ELSE TombstoneOf(router, k) = {v}
  BY DEF BoundArtifactIsServed
<1>1. Upholds(router, k, v)
  BY DEF ArtifactInv, ServedInv, Served
<1>2. CASE k \in DOMAIN router.sequences
  BY <1>1, <1>2 DEF Upholds
<1>3. CASE k \notin DOMAIN router.sequences
  <2>1. /\ \A t \in Range(router.tombstones) : t.key = k => t.artifact = v
        /\ \E t \in Range(router.tombstones) : t.key = k
    BY <1>1, <1>3 DEF Upholds, Marked
  <2> QED
    BY <1>3, <2>1 DEF TombstoneOf
<1> QED
  BY <1>2, <1>3

\* From the answer to its first decode to the acknowledgement of its release, an
\* actor's sequence runs on the artifact it was told, on a loaded route as well as
\* on one that is still loading, whenever the memory of released keys has room for
\* those of every other actor and of one process.
THEOREM BoundArtifactServed ==
    ASSUME Roomy
    PROVE  Spec => []BoundArtifactIsServed
<1>1. Init => StateInv /\ CleanInv /\ ArtifactInv
  BY InitState, InitCleans, InitServes
<1>2. StateInv /\ CleanInv /\ ArtifactInv /\ [Next]_vars
         => (StateInv /\ CleanInv /\ ArtifactInv)'
  BY NextState, NextCleans, NextServes
<1>3. StateInv /\ CleanInv /\ ArtifactInv => BoundArtifactIsServed
  BY ServedBound
<1> QED
  BY <1>1, <1>2, <1>3, PTL DEF Spec

\* However small that memory is, a sequence is never held under another artifact
\* than the one its actor was told, nor remembered as released from another.
THEOREM NeverAnotherArtifact ==
    Spec => [](\A a \in Actor : \A s \in DOMAIN binding[a] :
                  LET k == KeyOf(a, s)
                  IN IF k \in DOMAIN router.sequences
                     THEN router.sequences[k] = binding[a][s]
                     ELSE TombstoneOf(router, k) \subseteq {binding[a][s]})
<1> DEFINE P == \A a \in Actor : \A s \in DOMAIN binding[a] :
                  LET k == KeyOf(a, s)
                  IN IF k \in DOMAIN router.sequences
                     THEN router.sequences[k] = binding[a][s]
                     ELSE TombstoneOf(router, k) \subseteq {binding[a][s]}
<1>1. Init => StateInv /\ CleanInv /\ ArtifactInv
  BY InitState, InitCleans, InitServes
<1>2. StateInv /\ CleanInv /\ ArtifactInv /\ [Next]_vars
         => (StateInv /\ CleanInv /\ ArtifactInv)'
  BY NextState, NextCleans, NextServes
<1>3. ArtifactInv => P
  <2> SUFFICES ASSUME ArtifactInv, NEW a \in Actor, NEW s \in DOMAIN binding[a],
                      NEW v, v = binding[a][s], NEW k, k = KeyOf(a, s)
               PROVE  IF k \in DOMAIN router.sequences THEN router.sequences[k] = v
                      ELSE TombstoneOf(router, k) \subseteq {v}
    OBVIOUS
  <2>1. Upholds(router, k, v)
    BY DEF ArtifactInv, ServedInv, Served
  <2> QED
    BY <2>1 DEF Upholds, TombstoneOf
<1> QED
  <2> HIDE DEF P
  <2>1. Spec => []P
    BY <1>1, <1>2, <1>3, PTL DEF Spec
  <2> QED
    BY <2>1 DEF P

(***************************************************************************)
(* No request of a living actor is refused                                 *)
(***************************************************************************)

\* There is room for a lease of every sequence of the running processes.
Large ==
    /\ Cardinality(Actor \X Seat) <= MaxSequences
    /\ Cardinality(Actor \X Seat) <= MaxInFlight

\* what actor a asked for under this number
Asked(a, id) == pending[a][id].request

\* an answer to it waits in the actor's queue
Answered(a, id) ==
    \E p \in Range(inbox[a]) : p.incarnation = incarnation[a] /\ p.id = id

\* the sequences of which a first decode was answered or given up
Known(a) == DOMAIN binding[a] \cup closing[a]

First(q) == ~Cleanup(q) /\ q.expected = Unbound

\* a request that names the artifact of its sequences
Named(q) == q.kind = "release" \/ (~Cleanup(q) /\ q.expected # Unbound)

\* Numbers are not used twice by a process.
NumberedInv ==
    /\ \A q \in OnTheWay : Mine(q) => q.id < nextRequest[q.actor]
    /\ \A p \in Range(router.replays) : Mine(p) => p.id < nextRequest[p.actor]
    /\ \A a \in Actor : \A p \in Range(inbox[a]) : Mine(p) => p.id < nextRequest[a]

\* an answer to this request
For(p, q) == p.kind = q.kind /\ p.seats = q.seats

\* What is on the way, cached or answered under a number an actor waits for is
\* what it asked for, and what is cached was sent.
SameInv ==
    /\ \A q \in OnTheWay : Mine(q) /\ q.id \in DOMAIN pending[q.actor] =>
          SameBut(q, Asked(q.actor, q.id))
    /\ \A p \in Range(router.replays) : Mine(p) /\ p.id \in DOMAIN pending[p.actor] =>
          For(p, Asked(p.actor, p.id)) /\ Answered(p.actor, p.id)
    /\ \A a \in Actor : \A p \in Range(inbox[a]) : Mine(p) /\ p.id \in DOMAIN pending[a] =>
          For(p, Asked(a, p.id))

\* An actor asks for a sequence once at a time, for a first decode only of one it
\* knows nothing of, and otherwise under the artifact it was told.
ApartInv ==
    /\ \A a \in Actor : \A i, j \in DOMAIN pending[a] :
          i # j => Asked(a, i).seats \cap Asked(a, j).seats = {}
    /\ \A a \in Actor : \A i \in DOMAIN pending[a] :
          First(Asked(a, i)) => Asked(a, i).seats \cap Known(a) = {}
    /\ \A a \in Actor : \A i \in DOMAIN pending[a] :
          Named(Asked(a, i)) =>
              \A s \in Asked(a, i).seats : Served(a, s, Asked(a, i).expected)

\* A late copy of a first decode is of sequences the actor knows of, and what the
\* router holds for it is known to it or in an answer it has not read.
KnownInv ==
    /\ \A q \in OnTheWay : First(q) /\ Mine(q) /\ q.id \notin DOMAIN pending[q.actor] =>
          q.seats \subseteq Known(q.actor)
    /\ \A a \in Actor : \A s \in Seat : KeyOf(a, s) \in DOMAIN router.sequences =>
          \/ s \in Known(a)
          \/ \E i \in DOMAIN pending[a] :
                ~Cleanup(Asked(a, i)) /\ s \in Asked(a, i).seats /\ Answered(a, i)

RefusedInv ==
    \A a \in Actor : \A i \in DOMAIN inbox[a] :
        \/ inbox[a][i].ok
        \/ ~Mine(inbox[a][i])
        \/ inbox[a][i].id \notin DOMAIN pending[a]
        \/ \E j \in 1 .. (i - 1) : RequestKey(inbox[a][j]) = RequestKey(inbox[a][i])

AskedInv == NumberedInv /\ SameInv /\ ApartInv /\ KnownInv

RetryInv == ~frozen => AskedInv /\ (Roomy /\ Large => RefusedInv)

LEMMA AskedFacts ==
    ASSUME StateInv, NEW a \in Actor, NEW id \in DOMAIN pending[a]
    PROVE  /\ id \in Nat /\ id < nextRequest[a] /\ nextRequest[a] \in Nat
           /\ Asked(a, id) \in Request /\ Asked(a, id).actor = a
           /\ Asked(a, id).incarnation = incarnation[a] /\ Asked(a, id).id = id
           /\ Mine(Asked(a, id)) /\ Asked(a, id).seats \subseteq Seat
<1>1. PICK f : f = pending[a]
  OBVIOUS
<1>2. f \in Maps(Nat, Entry) /\ nextRequest[a] \in Nat
  BY <1>1 DEF StateInv, TypeInv
<1>3. id \in Nat /\ f[id] \in Entry
  <2>1. PICK R : R = Nat
    OBVIOUS
  <2>2. f \in Maps(R, Entry) /\ id \in DOMAIN f
    BY <1>1, <1>2, <2>1
  <2>3. id \in R /\ f[id] \in Entry
    BY <2>2, MapFacts
  <2> QED
    BY <2>1, <2>3
<1>4. Asked(a, id) \in Request
  BY <1>1, <1>3 DEF Asked, Entry
<1>5. /\ Asked(a, id).actor = a /\ Asked(a, id).incarnation = incarnation[a]
      /\ Asked(a, id).id = id /\ id < nextRequest[a]
  BY DEF StateInv, PastInv, Asked
<1>6. Mine(Asked(a, id))
  BY <1>5 DEF Mine
<1>7. Asked(a, id).seats \subseteq Seat
  BY <1>4 DEF Request
<1> QED
  BY <1>2, <1>3, <1>4, <1>5, <1>6, <1>7

\* With a lease for each sequence of the running processes, those of a request
\* that are not held fit.
LEMMA LargeFits ==
    ASSUME Large, NEW r, RouterInv(r), NEW q \in Request,
           r.generation[q.actor] = q.incarnation,
           KeysOf(q) \cap DOMAIN r.sequences = {}
    PROVE  CanBind(r, q)
<1>1. PICK H, ks : H = DOMAIN r.sequences /\ ks = KeysOf(q)
  OBVIOUS
<1>2. /\ ks \in SUBSET Key /\ IsFiniteSet(ks) /\ Cardinality(ks) = Cardinality(q.seats)
      /\ \A k \in ks : k.actor = q.actor /\ k.incarnation = q.incarnation
  BY <1>1, KeysFacts
<1>3. /\ IsFiniteSet(H) /\ r.inFlight = Cardinality(H)
      /\ \A k \in H : k.incarnation = r.generation[k.actor]
      /\ r.sequences \in Maps(Key, Nat)
  BY <1>1 DEF RouterInv, Balanced, Owned, Router
<1>4. H \subseteq Key
  <2>1. PICK f : f = r.sequences
    OBVIOUS
  <2> QED
    BY <1>1, <1>3, <2>1, MapFacts
<1>5. \A k \in H \cup ks : k \in Key /\ k.incarnation = r.generation[k.actor]
  BY <1>2, <1>3, <1>4
<1>6. IsFiniteSet(Actor \X Seat) /\ Cardinality(Actor \X Seat) \in Nat
  <2>1. IsFiniteSet(Actor) /\ IsFiniteSet(Seat)
    BY RecurrentAssumption
  <2>2. IsFiniteSet(Actor \X Seat)
    BY <2>1, FS_Product
  <2> QED
    BY <2>2, FS_CardinalityType
<1> DEFINE f == [k \in H \cup ks |-> <<k.actor, k.seat>>]
<1>7. f \in [H \cup ks -> Actor \X Seat]
  BY <1>5 DEF Key
<1>8. ASSUME NEW k \in H \cup ks, NEW l \in H \cup ks, f[k] = f[l] PROVE k = l
  <2>1. k.actor = l.actor /\ k.seat = l.seat
    BY <1>8
  <2>2. k.incarnation = l.incarnation
    BY <1>5, <2>1
  <2> QED
    BY <1>5, <2>1, <2>2 DEF Key
<1>9. f \in Injection(H \cup ks, Actor \X Seat)
  <2>1. \A k, l \in H \cup ks : f[k] = f[l] => k = l
    BY <1>8
  <2> HIDE DEF f
  <2> QED
    BY <1>7, <2>1 DEF Injection, IsInjective
<1>10. Cardinality(H \cup ks) <= Cardinality(Actor \X Seat)
  BY <1>6, <1>9, FS_Injection
<1>11. Cardinality(H \cup ks) = Cardinality(H) + Cardinality(ks)
  <2>1. H \cap ks = {}
    BY <1>1
  <2>2. Cardinality(H \cup ks) = Cardinality(H) + Cardinality(ks) - Cardinality(H \cap ks)
    BY <1>2, <1>3, FS_Union
  <2>3. Cardinality(H \cap ks) = 0
    BY <2>1, FS_EmptySet
  <2>4. Cardinality(H) \in Nat /\ Cardinality(ks) \in Nat
    BY <1>2, <1>3, FS_CardinalityType
  <2> QED
    BY <2>2, <2>3, <2>4
<1>12. Cardinality(H) \in Nat /\ Cardinality(ks) \in Nat
  BY <1>2, <1>3, FS_CardinalityType
<1>13. MaxSequences \in Nat /\ MaxInFlight \in Nat
  BY RecurrentAssumption
<1>14. /\ Cardinality(H) + Cardinality(ks) <= MaxSequences
       /\ r.inFlight + Cardinality(ks) <= MaxInFlight
  BY <1>3, <1>6, <1>10, <1>11, <1>12, <1>13 DEF Large
<1> QED
  BY <1>1, <1>2, <1>14 DEF CanBind

\* A request that an actor waits for, served for the first time, is not refused.
LEMMA NotRefused ==
    ASSUME StateInv, CleanInv, ArtifactInv, ~frozen, ApartInv, KnownInv, Roomy, Large,
           NEW q \in Request, NEW a, a = q.actor, Mine(q), q.id \in DOMAIN pending[a],
           SameBut(q, Asked(a, q.id)), ~Answered(a, q.id),
           NEW r, r = AdmittedFor(router, q)
    PROVE  /\ ~Stale(router, q)
           /\ First(q) => CanBind(r, q)
           /\ ~Cleanup(q) /\ q.expected # Unbound => Holds(r, q)
           /\ q.kind = "release" => CanRelease(r, q)
<1>0. TypeInv /\ RouterInv(router)
  BY DEF StateInv
<1>1. a \in Actor /\ q.incarnation = incarnation[a] /\ q.seats \subseteq Seat
      /\ Started(q) /\ q.incarnation \in Nat
  BY <1>0 DEF Request, Mine, Started, TypeInv
<1>2. ~Stale(router, q)
  <2>1. router.generation[a] <= incarnation[a]
    BY <1>1 DEF StateInv, PastInv
  <2>2. router.generation[a] \in Int
    BY <1>0, <1>1 DEF RouterInv, Router
  <2> QED
    BY <1>1, <2>1, <2>2 DEF Stale
<1>3. /\ RouterInv(r) /\ r.generation[a] = q.incarnation
      /\ \A k \in Key : Mine(k) => Fares(router, r, k)
  BY <1>1, <1>2, AdmittedForFacts, AdmittedForFares
<1>4. ASSUME NEW k \in KeysOf(q)
      PROVE  \E s \in q.seats : k = KeyOf(a, s) /\ s \in Seat /\ Fares(router, r, k)
  <2>1. PICK s \in q.seats : k = KeyOf(a, s)
    BY <1>1, <1>4 DEF KeysOf, KeyOf
  <2>2. s \in Seat /\ Fares(router, r, k)
    BY <1>0, <1>1, <1>3, <2>1, OwnKey
  <2> QED
    BY <2>1, <2>2
<1>5. PICK i, e : i = q.id /\ e = Asked(a, i)
  OBVIOUS
<1>6. i \in DOMAIN pending[a] /\ e.seats = q.seats /\ e.kind = q.kind
      /\ e.expected = q.expected /\ ~Answered(a, i)
  BY <1>5 DEF SameBut
<1>7. ASSUME First(q) PROVE CanBind(r, q)
  <2>1. First(e)
    BY <1>6, <1>7 DEF First, Cleanup
  <2>2. KeysOf(q) \cap DOMAIN r.sequences = {}
    <3>1. SUFFICES ASSUME NEW k \in KeysOf(q), k \in DOMAIN r.sequences PROVE FALSE
      OBVIOUS
    <3>2. PICK s \in q.seats : k = KeyOf(a, s) /\ s \in Seat /\ Fares(router, r, k)
      BY <1>4
    <3>3. KeyOf(a, s) \in DOMAIN router.sequences
      BY <3>1, <3>2 DEF Fares
    <3>4. s \notin Known(a)
      BY <1>1, <1>5, <1>6, <2>1, <3>2 DEF ApartInv
    <3>5. PICK j \in DOMAIN pending[a] : s \in Asked(a, j).seats /\ Answered(a, j)
      BY <1>1, <3>2, <3>3, <3>4 DEF KnownInv
    <3>6. j = i
      BY <1>1, <1>5, <1>6, <3>2, <3>5 DEF ApartInv
    <3> QED
      BY <1>6, <3>5, <3>6
  <2> QED
    BY <1>3, <2>2, LargeFits
<1>8. ASSUME Named(q), NEW s \in q.seats PROVE Served(a, s, q.expected)
  <2>1. Named(e)
    BY <1>6, <1>8 DEF Named, Cleanup
  <2>2. Served(a, s, e.expected)
    BY <1>1, <1>5, <1>6, <1>8, <2>1 DEF ApartInv
  <2> QED
    BY <1>6, <2>2
<1>9. ASSUME ~Cleanup(q), q.expected # Unbound PROVE Holds(r, q)
  <2>1. SUFFICES ASSUME NEW k \in KeysOf(q)
                 PROVE  k \in DOMAIN r.sequences /\ r.sequences[k] = q.expected
    BY DEF Holds
  <2>2. PICK s \in q.seats : k = KeyOf(a, s) /\ s \in Seat /\ Fares(router, r, k)
    BY <1>4
  <2>3. Served(a, s, q.expected)
    BY <1>8, <1>9, <2>2 DEF Named
  <2>4. k \in DOMAIN router.sequences
    <3>1. SUFFICES ASSUME k \notin DOMAIN router.sequences PROVE FALSE
      OBVIOUS
    <3>2. Closed(a, {s})
      BY <2>2, <2>3, <3>1 DEF Served, Done
    <3>3. ~Cleanup(pending[a][i].request) /\ s \in pending[a][i].request.seats
      BY <1>5, <1>6, <1>9, <2>2 DEF Asked, Cleanup
    <3> QED
      BY <1>6, <3>2, <3>3 DEF Closed
  <2>5. router.sequences[k] = q.expected
    BY <2>2, <2>3, <2>4 DEF Served, Upholds
  <2> QED
    BY <2>2, <2>4, <2>5 DEF Fares
<1>10. ASSUME q.kind = "release" PROVE CanRelease(r, q)
  <2>1. SUFFICES ASSUME NEW k \in KeysOf(q)
                 PROVE  IF k \in DOMAIN r.sequences THEN r.sequences[k] = q.expected
                        ELSE TombstoneOf(r, k) = {q.expected}
    BY DEF CanRelease
  <2>2. PICK s \in q.seats : k = KeyOf(a, s) /\ s \in Seat /\ Fares(router, r, k)
    BY <1>4
  <2>3. Served(a, s, q.expected)
    BY <1>8, <1>10, <2>2 DEF Named
  <2>4. Upholds(r, k, q.expected)
    BY <2>2, <2>3, FaresUpholds DEF Served
  <2>5. CASE k \in DOMAIN r.sequences
    BY <2>4, <2>5 DEF Upholds
  <2>6. CASE k \notin DOMAIN r.sequences
    <3>1. /\ \A t \in Range(r.tombstones) : t.key = k => t.artifact = q.expected
          /\ \E t \in Range(r.tombstones) : t.key = k
      BY <2>4, <2>6 DEF Upholds, Marked
    <3> QED
      BY <2>6, <3>1 DEF TombstoneOf
  <2> QED
    BY <2>5, <2>6
<1> QED
  BY <1>2, <1>7, <1>9, <1>10

\* One of the answers A is to this request.
AnsweredBy(A, q) ==
    \E p \in A : p.actor = q.actor /\ p.incarnation = q.incarnation /\ p.id = q.id

\* A step of the server that gives the answers A, each from the cache or to a
\* request on the way, and binds only what a first decode among these asks for.
LEMMA ServerRetries ==
    ASSUME StateInv, ~frozen, AskedInv, UNCHANGED actorVars, NothingNew, StaysServed,
           NEW A \in SUBSET Response,
           \A p \in A :
              \/ p \in Range(router.replays)
              \/ \E q \in OnTheWay : AnsweredBy({p}, q) /\ For(p, q),
           \A a \in Actor : \A p \in Range(inbox'[a]) :
              p \in Range(inbox[a]) \/ (p \in A /\ p.actor = a),
           \A a \in Actor : \A p \in Range(inbox[a]) : p \in Range(inbox'[a]),
           \A p \in A : p \in Range(inbox'[p.actor]),
           Range(router'.replays) \subseteq Range(router.replays) \cup A,
           \A k \in DOMAIN router'.sequences :
              \/ k \in DOMAIN router.sequences
              \/ \E q \in OnTheWay : First(q) /\ k \in KeysOf(q) /\ AnsweredBy(A, q)
    PROVE  AskedInv'
<1>0. TypeInv
  BY DEF StateInv
<1>1. /\ incarnation' = incarnation /\ pending' = pending /\ nextRequest' = nextRequest
      /\ closing' = closing /\ binding' = binding
  BY DEF actorVars
<1>2. NumberedInv /\ SameInv /\ ApartInv /\ KnownInv
  BY DEF AskedInv
<1>3. \A q : Mine(q)' <=> Mine(q)
  BY <1>1 DEF Mine
<1>4. \A a, id : Asked(a, id)' = Asked(a, id)
  BY <1>1 DEF Asked
<1>5. ASSUME NEW a \in Actor, NEW id, Answered(a, id) PROVE Answered(a, id)'
  <2>1. PICK p \in Range(inbox[a]) : p.incarnation = incarnation[a] /\ p.id = id
    BY <1>5 DEF Answered
  <2>2. p \in Range(inbox'[a])
    OBVIOUS
  <2> QED
    BY <1>1, <2>1, <2>2 DEF Answered
<1>6. ASSUME NEW p \in A
      PROVE  /\ p.actor \in Actor
             /\ Mine(p) => p.id < nextRequest[p.actor]
             /\ Mine(p) /\ p.id \in DOMAIN pending[p.actor]
                   => For(p, Asked(p.actor, p.id))
             /\ Mine(p) => Answered(p.actor, p.id)'
  <2>1. p.actor \in Actor
    BY DEF Response
  <2>2. Mine(p) => Answered(p.actor, p.id)'
    BY <1>1, <2>1 DEF Answered, Mine
  <2>3. CASE p \in Range(router.replays)
    BY <1>2, <2>1, <2>2, <2>3 DEF NumberedInv, SameInv
  <2>4. CASE \E q \in OnTheWay : AnsweredBy({p}, q) /\ For(p, q)
    <3>1. PICK q \in OnTheWay : AnsweredBy({p}, q) /\ For(p, q)
      BY <2>4
    <3>2. p.actor = q.actor /\ p.incarnation = q.incarnation /\ p.id = q.id
      BY <3>1 DEF AnsweredBy
    <3>3. Mine(p) => Mine(q)
      BY <3>2 DEF Mine
    <3>4. Mine(p) => p.id < nextRequest[p.actor]
      BY <1>2, <3>2, <3>3 DEF NumberedInv
    <3>5. Mine(p) /\ p.id \in DOMAIN pending[p.actor] => SameBut(q, Asked(p.actor, p.id))
      BY <1>2, <3>2, <3>3 DEF SameInv
    <3>6. Mine(p) /\ p.id \in DOMAIN pending[p.actor] => For(p, Asked(p.actor, p.id))
      BY <3>1, <3>5 DEF SameBut, For
    <3> QED
      BY <2>1, <2>2, <3>4, <3>6
  <2> QED
    BY <2>3, <2>4
<1>7. NumberedInv'
  <2>1. ASSUME NEW y, y \in OnTheWay', Mine(y) PROVE y.id < nextRequest[y.actor]
    <3>1. PICK x \in OnTheWay : SameBut(y, x)
      BY <2>1 DEF NothingNew
    <3>2. Mine(x)
      BY <2>1, <3>1, SameRequest
    <3> QED
      BY <1>2, <3>1, <3>2 DEF NumberedInv, SameBut
  <2>2. ASSUME NEW p, p \in Range(router'.replays), Mine(p)
        PROVE  p.id < nextRequest[p.actor]
    BY <1>2, <1>6, <2>2 DEF NumberedInv
  <2>3. ASSUME NEW a \in Actor, NEW p, p \in Range(inbox'[a]), Mine(p)
        PROVE  p.id < nextRequest[a]
    BY <1>2, <1>6, <2>3 DEF NumberedInv
  <2> QED
    BY <1>1, <1>3, <2>1, <2>2, <2>3 DEF NumberedInv
<1>8. SameInv'
  <2>1. ASSUME NEW y, y \in OnTheWay', Mine(y), y.id \in DOMAIN pending[y.actor]
        PROVE  SameBut(y, Asked(y.actor, y.id))
    <3>1. PICK x \in OnTheWay : SameBut(y, x)
      BY <2>1 DEF NothingNew
    <3>2. Mine(x)
      BY <2>1, <3>1, SameRequest
    <3>3. SameBut(x, Asked(x.actor, x.id)) /\ x.actor = y.actor /\ x.id = y.id
      BY <1>2, <2>1, <3>1, <3>2 DEF SameInv, SameBut
    <3> QED
      BY <3>1, <3>3 DEF SameBut
  <2>2. ASSUME NEW p, p \in Range(router'.replays), Mine(p), p.id \in DOMAIN pending[p.actor]
        PROVE  For(p, Asked(p.actor, p.id)) /\ Answered(p.actor, p.id)'
    <3>1. CASE p \in A
      BY <1>6, <2>2, <3>1
    <3>2. CASE p \in Range(router.replays)
      <4>1. For(p, Asked(p.actor, p.id)) /\ Answered(p.actor, p.id)
        BY <1>2, <2>2, <3>2 DEF SameInv
      <4>2. p.actor \in Actor
        BY <3>2, AnswersTyped DEF Response
      <4> QED
        BY <1>5, <4>1, <4>2
    <3> QED
      BY <2>2, <3>1, <3>2
  <2>3. ASSUME NEW a \in Actor, NEW p, p \in Range(inbox'[a]), Mine(p), p.id \in DOMAIN pending[a]
        PROVE  For(p, Asked(a, p.id))
    BY <1>2, <1>6, <2>3 DEF SameInv
  <2>4. \A q \in OnTheWay' : Mine(q) /\ q.id \in DOMAIN pending[q.actor] =>
           SameBut(q, Asked(q.actor, q.id))
    BY <2>1
  <2>5. \A p \in Range(router'.replays) : Mine(p) /\ p.id \in DOMAIN pending[p.actor] =>
           For(p, Asked(p.actor, p.id)) /\ Answered(p.actor, p.id)'
    BY <2>2
  <2>6. \A a \in Actor : \A p \in Range(inbox'[a]) : Mine(p) /\ p.id \in DOMAIN pending[a] =>
           For(p, Asked(a, p.id))
    BY <2>3
  <2> QED
    BY <1>1, <1>3, <1>4, <2>4, <2>5, <2>6 DEF SameInv, SameBut, For
<1>9. \A a : Known(a)' = Known(a)
  BY <1>1 DEF Known
<1>10. \A q : (First(q)' <=> First(q)) /\ (Cleanup(q)' <=> Cleanup(q)) /\ (Named(q)' <=> Named(q))
  BY DEF First, Cleanup, Named
<1>11. ApartInv'
  <2>1. ASSUME NEW a \in Actor, NEW i \in DOMAIN pending[a], Named(Asked(a, i)),
               NEW s \in Asked(a, i).seats
        PROVE  Served(a, s, Asked(a, i).expected)'
    <3>1. PICK v : v = Asked(a, i).expected
      OBVIOUS
    <3>2. s \in Seat
      BY AskedFacts
    <3>3. Served(a, s, v)
      BY <1>2, <2>1, <3>1 DEF ApartInv
    <3>4. Served(a, s, v)'
      BY <3>2, <3>3 DEF StaysServed
    <3>5. Asked(a, i)' = Asked(a, i)
      BY <1>4
    <3> QED
      BY <3>1, <3>4, <3>5 DEF Served, Upholds
  <2>2. (\A a \in Actor : \A i \in DOMAIN pending[a] :
            Named(Asked(a, i)) =>
              \A s \in Asked(a, i).seats : Served(a, s, Asked(a, i).expected))'
    BY <1>1, <1>4, <1>10, <2>1
  <2>3. \A a \in Actor : \A i, j \in DOMAIN pending[a] :
           i # j => Asked(a, i).seats \cap Asked(a, j).seats = {}
    BY <1>2 DEF ApartInv
  <2>4. \A a \in Actor : \A i \in DOMAIN pending[a] :
           First(Asked(a, i)) => Asked(a, i).seats \cap Known(a) = {}
    BY <1>2 DEF ApartInv
  <2> QED
    BY <1>1, <1>4, <1>9, <1>10, <2>2, <2>3, <2>4 DEF ApartInv
<1>12. KnownInv'
  <2>1. ASSUME NEW y, y \in OnTheWay', First(y), Mine(y), y.id \notin DOMAIN pending[y.actor]
        PROVE  y.seats \subseteq Known(y.actor)
    <3>1. PICK x \in OnTheWay : SameBut(y, x)
      BY <2>1 DEF NothingNew
    <3>2. Mine(x) /\ First(x)
      BY <2>1, <3>1, SameRequest DEF First, SameBut
    <3> QED
      BY <1>2, <2>1, <3>1, <3>2 DEF KnownInv, SameBut
  <2>2. ASSUME NEW a \in Actor, NEW s \in Seat, KeyOf(a, s) \in DOMAIN router'.sequences
        PROVE  \/ s \in Known(a)
               \/ \E i \in DOMAIN pending[a] :
                    ~Cleanup(Asked(a, i)) /\ s \in Asked(a, i).seats /\ Answered(a, i)'
    <3>1. CASE KeyOf(a, s) \in DOMAIN router.sequences
      BY <1>2, <1>5, <3>1 DEF KnownInv
    <3>2. CASE KeyOf(a, s) \notin DOMAIN router.sequences
      <4>1. PICK q \in OnTheWay : First(q) /\ KeyOf(a, s) \in KeysOf(q) /\ AnsweredBy(A, q)
        BY <2>2, <3>2
      <4>2. q.actor = a /\ q.incarnation = incarnation[a] /\ s \in q.seats
        BY <4>1 DEF KeysOf, KeyOf
      <4>3. Mine(q)
        BY <4>2 DEF Mine
      <4>4. PICK p \in A : p.actor = a /\ p.incarnation = incarnation[a] /\ p.id = q.id
        BY <4>1, <4>2 DEF AnsweredBy
      <4>5. Answered(a, q.id)'
        <5>1. Mine(p)
          BY <4>4 DEF Mine
        <5>2. Answered(p.actor, p.id)'
          BY <1>6, <5>1
        <5> QED
          BY <4>4, <5>2
      <4>6. CASE q.id \in DOMAIN pending[a]
        <5>1. SameBut(q, Asked(a, q.id))
          BY <1>2, <4>2, <4>3, <4>6 DEF SameInv
        <5>2. ~Cleanup(Asked(a, q.id)) /\ s \in Asked(a, q.id).seats
          BY <4>1, <4>2, <5>1 DEF SameBut, First, Cleanup
        <5> QED
          BY <4>5, <4>6, <5>2
      <4>7. CASE q.id \notin DOMAIN pending[a]
        BY <1>2, <4>1, <4>2, <4>3, <4>7 DEF KnownInv
      <4> QED
        BY <4>6, <4>7
    <3> QED
      BY <3>1, <3>2
  <2>3. \A a, s : KeyOf(a, s)' = KeyOf(a, s)
    BY <1>1 DEF KeyOf
  <2>4. \A q \in OnTheWay' : First(q) /\ Mine(q) /\ q.id \notin DOMAIN pending[q.actor] =>
           q.seats \subseteq Known(q.actor)
    BY <2>1
  <2>5. \A a \in Actor : \A s \in Seat : KeyOf(a, s) \in DOMAIN router'.sequences =>
           \/ s \in Known(a)
           \/ \E i \in DOMAIN pending[a] :
                 ~Cleanup(Asked(a, i)) /\ s \in Asked(a, i).seats /\ Answered(a, i)'
    BY <2>2
  <2> QED
    BY <1>1, <1>3, <1>4, <1>9, <1>10, <2>3, <2>4, <2>5 DEF KnownInv
<1> QED
  BY <1>7, <1>8, <1>11, <1>12 DEF AskedInv

\* An answer that may be put in the queue of its actor.
Fine(p) ==
    \/ p.ok
    \/ ~Mine(p)
    \/ p.id \notin DOMAIN pending[p.actor]
    \/ Answered(p.actor, p.id)

\* Whatever router answers.
LEMMA ReplyRetries ==
    ASSUME StateInv, CleanInv, ~frozen, RetryInv, StaysServed, batch # <<>>,
           NEW r, RouterInv(r), NEW answer \in Response, Reply(r, answer),
           Range(r.replays) \subseteq Range(router.replays),
           \/ answer \in Range(router.replays)
           \/ AnsweredBy({answer}, Head(batch)) /\ For(answer, Head(batch)),
           \A k \in DOMAIN r.sequences :
              \/ k \in DOMAIN router.sequences
              \/ /\ First(Head(batch)) /\ k \in KeysOf(Head(batch))
                 /\ AnsweredBy({answer}, Head(batch)),
           Roomy /\ Large => Fine(answer)
    PROVE  RetryInv'
<1>0. TypeInv /\ AskedInv
  BY DEF StateInv, RetryInv
<1>1. /\ router' = [r EXCEPT !.replays = Stored(r.replays, answer)]
      /\ inbox' = [inbox EXCEPT ![answer.actor] = Append(@, answer)]
      /\ batch' = Tail(batch)
      /\ frozen' = frozen /\ lookahead' = lookahead /\ queue' = queue
      /\ UNCHANGED actorVars /\ incarnation' = incarnation /\ pending' = pending
  BY DEF Reply, actorVars
<1>2. r \in Router /\ r.replays \in Seq(Response)
  BY DEF RouterInv, Router
<1>3. router'.sequences = r.sequences /\ router'.replays = Stored(r.replays, answer)
  BY <1>1, <1>2 DEF Router
<1>4. Range(router'.replays) \subseteq Range(router.replays) \cup {answer}
  BY <1>2, <1>3, StoredFacts
<1>5. answer.actor \in Actor /\ inbox \in [Actor -> Seq(Response)]
  BY <1>0 DEF Response, TypeInv
<1>6. Head(batch) \in OnTheWay /\ NothingNew
  <2>1. OnTheWay' \subseteq OnTheWay /\ Head(batch) \in OnTheWay
    BY <1>0, <1>1, ServedOrder DEF CleanInv
  <2> QED
    BY <2>1 DEF NothingNew, SameBut
<1>7. /\ inbox'[answer.actor] = Append(inbox[answer.actor], answer)
      /\ \A a \in Actor : a # answer.actor => inbox'[a] = inbox[a]
  BY <1>1, <1>5
<1>8. Range(inbox'[answer.actor]) = Range(inbox[answer.actor]) \cup {answer}
  BY <1>5, <1>7, AppendFacts
<1>9. AskedInv'
  <2>1. PICK A : A = {answer}
    OBVIOUS
  <2>2. \A p \in A :
           \/ p \in Range(router.replays)
           \/ \E q \in OnTheWay : AnsweredBy({p}, q) /\ For(p, q)
    BY <1>6, <2>1
  <2>3. /\ \A a \in Actor : \A p \in Range(inbox'[a]) :
              p \in Range(inbox[a]) \/ (p \in A /\ p.actor = a)
        /\ \A a \in Actor : \A p \in Range(inbox[a]) : p \in Range(inbox'[a])
        /\ \A p \in A : p \in Range(inbox'[p.actor])
    BY <1>7, <1>8, <2>1
  <2>4. \A k \in DOMAIN router'.sequences :
           \/ k \in DOMAIN router.sequences
           \/ \E q \in OnTheWay : First(q) /\ k \in KeysOf(q) /\ AnsweredBy(A, q)
    BY <1>3, <1>6, <2>1
  <2>5. Range(router'.replays) \subseteq Range(router.replays) \cup A
    BY <1>4, <2>1
  <2>6. A \in SUBSET Response /\ UNCHANGED actorVars
    BY <1>1, <2>1
  <2> QED
    BY <1>0, <1>6, <2>2, <2>3, <2>4, <2>5, <2>6, ServerRetries
<1>10. ASSUME Roomy, Large PROVE RefusedInv'
  <2>0. RefusedInv /\ Fine(answer)
    BY <1>10 DEF RetryInv
  <2>1. ASSUME NEW a \in Actor, NEW i \in DOMAIN inbox'[a]
        PROVE  \/ inbox'[a][i].ok
               \/ ~Mine(inbox'[a][i])
               \/ inbox'[a][i].id \notin DOMAIN pending[a]
               \/ \E j \in 1 .. (i - 1) : RequestKey(inbox'[a][j]) = RequestKey(inbox'[a][i])
    <3>1. CASE a # answer.actor
      <4>1. inbox'[a] = inbox[a]
        BY <1>7, <3>1
      <4> QED
        BY <2>0, <2>1, <4>1 DEF RefusedInv
    <3>2. CASE a = answer.actor
      <4>1. PICK s, t : s = inbox[a] /\ t = inbox'[a]
        OBVIOUS
      <4>2. s \in Seq(Response) /\ t = Append(s, answer)
        BY <1>5, <1>7, <3>2, <4>1
      <4>3. /\ Len(s) \in Nat /\ DOMAIN s = 1 .. Len(s) /\ DOMAIN t = 1 .. (Len(s) + 1)
            /\ \A j \in 1 .. Len(s) : t[j] = s[j]
            /\ t[Len(s) + 1] = answer
        BY <4>2
      <4>4. CASE i \in DOMAIN s
        <5>1. \/ s[i].ok
              \/ ~Mine(s[i])
              \/ s[i].id \notin DOMAIN pending[a]
              \/ \E j \in 1 .. (i - 1) : RequestKey(s[j]) = RequestKey(s[i])
          BY <2>0, <4>1, <4>4 DEF RefusedInv
        <5>2. t[i] = s[i] /\ \A j \in 1 .. (i - 1) : t[j] = s[j]
          BY <4>3, <4>4
        <5> QED
          BY <4>1, <5>1, <5>2
      <4>5. CASE i \notin DOMAIN s
        <5>1. i = Len(s) + 1 /\ t[i] = answer
          BY <2>1, <4>1, <4>3, <4>5
        <5>2. CASE Answered(a, answer.id) /\ Mine(answer)
          <6>1. PICK p \in Range(s) : p.incarnation = incarnation[a] /\ p.id = answer.id
            BY <4>1, <5>2 DEF Answered
          <6>2. p.actor = a
            BY <4>1, <6>1 DEF CleanInv, AnswerInv
          <6>3. RequestKey(p) = RequestKey(answer)
            BY <3>2, <5>2, <6>1, <6>2 DEF RequestKey, Mine
          <6>4. PICK j \in DOMAIN s : s[j] = p
            BY <6>1 DEF Range
          <6>5. j \in 1 .. (i - 1) /\ t[j] = p
            BY <4>3, <5>1, <6>4
          <6> QED
            BY <4>1, <5>1, <6>3, <6>5
        <5>3. CASE ~(Answered(a, answer.id) /\ Mine(answer))
          BY <2>0, <3>2, <4>1, <5>1, <5>3 DEF Fine
        <5> QED
          BY <5>2, <5>3
      <4> QED
        BY <4>4, <4>5
    <3> QED
      BY <3>1, <3>2
  <2>2. \A p : Mine(p)' <=> Mine(p)
    BY <1>1 DEF Mine
  <2> QED
    BY <1>1, <2>1, <2>2 DEF RefusedInv, RequestKey
<1> QED
  BY <1>9, <1>10 DEF RetryInv

\* An answer to the request that is served.
LEMMA AnswerFor ==
    ASSUME NEW q, NEW ok, NEW v, NEW p, p = Answer(q, ok, v)
    PROVE  /\ AnsweredBy({p}, q) /\ For(p, q) /\ p.ok = ok
           /\ p.actor = q.actor /\ p.incarnation = q.incarnation /\ p.id = q.id
BY DEF Answer, AnsweredBy, For

LEMMA AcceptRetries ==
    ASSUME StateInv, CleanInv, ~frozen, RetryInv, StaysServed, batch # <<>>,
           NEW q, q = Head(batch), NEW r, RouterInv(r), NEW v \in Nat,
           Reply(r, Answer(q, TRUE, v)),
           Range(r.replays) \subseteq Range(router.replays),
           \A k \in DOMAIN r.sequences :
              k \in DOMAIN router.sequences \/ (First(q) /\ k \in KeysOf(q))
    PROVE  RetryInv'
<1>1. PICK answer : answer = Answer(q, TRUE, v)
  OBVIOUS
<1>2. answer \in Response
  BY <1>1, HeadFacts, AnswerFacts
<1>3. AnsweredBy({answer}, q) /\ For(answer, q) /\ answer.ok
  BY <1>1, AnswerFor
<1>4. Fine(answer)
  BY <1>3 DEF Fine
<1> QED
  BY <1>1, <1>2, <1>3, <1>4, ReplyRetries

\* why a request is refused
Refusable(q, r) ==
    \/ Stale(router, q)
    \/ First(q) /\ ~CanBind(r, q)
    \/ ~Cleanup(q) /\ q.expected # Unbound /\ ~Holds(r, q)
    \/ q.kind = "release" /\ ~CanRelease(r, q)

LEMMA RefusalRetries ==
    ASSUME StateInv, CleanInv, ArtifactInv, ~frozen, RetryInv, StaysServed, batch # <<>>,
           NEW q, q = Head(batch), NEW r, r = AdmittedFor(router, q),
           Refusable(q, r), NEW n \in {router, r}, Reply(n, Error(q))
    PROVE  RetryInv'
<1>0. TypeInv /\ AskedInv /\ RouterInv(router)
  BY DEF StateInv, RetryInv
<1>1. q \in Request /\ Started(q)
  BY HeadFacts
<1>2. PICK answer : answer = Error(q)
  OBVIOUS
<1>3. answer \in Response
  BY <1>1, <1>2, AnswerFacts DEF Unbound
<1>4. /\ AnsweredBy({answer}, q) /\ For(answer, q)
      /\ answer.actor = q.actor /\ answer.incarnation = q.incarnation /\ answer.id = q.id
  <2>1. /\ answer.actor = q.actor /\ answer.incarnation = q.incarnation /\ answer.id = q.id
        /\ answer.kind = q.kind /\ answer.seats = q.seats
    BY <1>2 DEF Error, Answer
  <2> QED
    BY <2>1 DEF AnsweredBy, For
<1>5. /\ RouterInv(n)
      /\ Range(n.replays) \subseteq Range(router.replays)
      /\ DOMAIN n.sequences \subseteq DOMAIN router.sequences
  BY <1>0, <1>1, AdmittedForFacts, AdmittedForLess
<1>6. ASSUME Roomy, Large PROVE Fine(answer)
  <2>1. SUFFICES ASSUME Mine(q), q.id \in DOMAIN pending[q.actor], ~Answered(q.actor, q.id)
                 PROVE  FALSE
    BY <1>4 DEF Fine, Mine
  <2>2. q \in OnTheWay
    <3>1. batch \in Seq(Request)
      BY <1>0 DEF TypeInv
    <3>2. q \in Range(batch)
      BY <3>1, TailFacts
    <3> QED
      BY <3>2 DEF OnTheWay
  <2>3. SameBut(q, Asked(q.actor, q.id)) /\ ApartInv /\ KnownInv
    BY <1>0, <2>1, <2>2 DEF AskedInv, SameInv
  <2>4. PICK a : a = q.actor
    OBVIOUS
  <2>5. q.id \in DOMAIN pending[a] /\ ~Answered(a, q.id) /\ SameBut(q, Asked(a, q.id))
    BY <2>1, <2>3, <2>4
  <2>6. /\ ~Stale(router, q)
        /\ First(q) => CanBind(r, q)
        /\ ~Cleanup(q) /\ q.expected # Unbound => Holds(r, q)
        /\ q.kind = "release" => CanRelease(r, q)
    BY <1>1, <1>6, <2>1, <2>3, <2>4, <2>5, NotRefused
  <2> QED
    BY <2>6 DEF Refusable
<1>7. Reply(n, answer)
  BY <1>2
<1> QED
  BY <1>3, <1>4, <1>5, <1>6, <1>7, ReplyRetries

LEMMA ServeReplayRetries ==
    ASSUME StateInv, CleanInv, ArtifactInv, ~frozen, RetryInv, ServeReplay
    PROVE  RetryInv'
<1>1. batch # <<>> /\ StaysServed /\ RouterInv(router)
  BY ServeReplayServes DEF ServeReplay, StateInv
<1>2. PICK answer \in Cached(router, Head(batch)) : Reply(router, answer)
  BY DEF ServeReplay
<1>3. answer \in Range(router.replays)
  BY <1>2 DEF Cached
<1>4. answer \in Response
  BY <1>3, AnswersTyped
<1>5. Fine(answer)
  BY <1>3 DEF RetryInv, AskedInv, SameInv, Fine
<1> QED
  BY <1>1, <1>2, <1>3, <1>4, <1>5, ReplyRetries

LEMMA ServeDecodeRetries ==
    ASSUME StateInv, CleanInv, ArtifactInv, ~frozen, RetryInv, ServeDecode
    PROVE  RetryInv'
<1>1. batch # <<>> /\ Head(batch).kind = "decode" /\ StaysServed
  BY ServeDecodeServes DEF ServeDecode, Serve
<1>2. PICK q, r : q = Head(batch) /\ r = AdmittedFor(router, q)
  OBVIOUS
<1>3. q \in Request /\ Started(q) /\ ~Cleanup(q) /\ q.expected \in Nat
  BY <1>1, <1>2, HeadFacts DEF Cleanup, Request
<1>4. \/ Stale(router, q) /\ Reply(router, Error(q))
      \/ /\ ~Stale(router, q) /\ q.expected = Unbound /\ CanBind(r, q)
         /\ Reply(BoundTo(r, KeysOf(q)), Answer(q, TRUE, r.current))
      \/ Reply(r, Answer(q, TRUE, q.expected))
      \/ /\ IF q.expected = Unbound THEN ~CanBind(r, q) ELSE ~Holds(r, q)
         /\ Reply(r, Error(q))
  BY <1>2 DEF ServeDecode
<1>5. /\ RouterInv(r) /\ r.current \in Nat
      /\ ~Stale(router, q) => r.generation[q.actor] = q.incarnation
      /\ Range(r.replays) \subseteq Range(router.replays)
      /\ DOMAIN r.sequences \subseteq DOMAIN router.sequences
  BY <1>2, <1>3, AdmittedForFacts, AdmittedForLess DEF RouterInv, Router
<1>6. CASE Stale(router, q) /\ Reply(router, Error(q))
  BY <1>1, <1>2, <1>6, RefusalRetries DEF Refusable
<1>7. CASE /\ IF q.expected = Unbound THEN ~CanBind(r, q) ELSE ~Holds(r, q)
           /\ Reply(r, Error(q))
  <2>1. Refusable(q, r)
    BY <1>3, <1>7 DEF Refusable, First
  <2> QED
    BY <1>1, <1>2, <1>7, <2>1, RefusalRetries
<1>8. CASE Reply(r, Answer(q, TRUE, q.expected))
  <2>1. PICK v \in Nat : v = q.expected
    BY <1>3
  <2>2. Reply(r, Answer(q, TRUE, v))
    BY <1>8, <2>1
  <2> QED
    BY <1>1, <1>2, <1>5, <2>2, AcceptRetries
<1>9. CASE /\ ~Stale(router, q) /\ q.expected = Unbound /\ CanBind(r, q)
           /\ Reply(BoundTo(r, KeysOf(q)), Answer(q, TRUE, r.current))
  <2>1. PICK n, v, ks : n = BoundTo(r, ks) /\ v = r.current /\ ks = KeysOf(q)
    OBVIOUS
  <2>2. /\ ks \in SUBSET Key /\ IsFiniteSet(ks)
        /\ Cardinality(ks) = Cardinality(q.seats)
        /\ \A k \in ks : k.actor = q.actor /\ k.incarnation = q.incarnation
    BY <1>3, <2>1, KeysFacts
  <2>3. /\ ks \cap DOMAIN r.sequences = {}
        /\ Cardinality(DOMAIN r.sequences) + Cardinality(ks) <= MaxSequences
        /\ r.inFlight + Cardinality(ks) <= MaxInFlight
        /\ \A k \in ks : k.incarnation = r.generation[k.actor]
    BY <1>5, <1>9, <2>1, <2>2 DEF CanBind
  <2>4. /\ RouterInv(n) /\ n.replays = r.replays
        /\ DOMAIN n.sequences = DOMAIN r.sequences \cup ks
    BY <1>5, <2>1, <2>2, <2>3, BoundKeeps
  <2>5. Reply(n, Answer(q, TRUE, v)) /\ v \in Nat
    BY <1>5, <1>9, <2>1
  <2>6. First(q)
    BY <1>3, <1>9 DEF First
  <2> QED
    BY <1>1, <1>2, <1>5, <2>1, <2>4, <2>5, <2>6, AcceptRetries
<1> QED
  BY <1>4, <1>6, <1>7, <1>8, <1>9

LEMMA ServeReleaseRetries ==
    ASSUME StateInv, CleanInv, ArtifactInv, ~frozen, RetryInv, ServeRelease
    PROVE  RetryInv'
<1>1. batch # <<>> /\ Head(batch).kind = "release" /\ StaysServed
  BY ServeReleaseServes DEF ServeRelease, Serve
<1>2. PICK q, r, ks : q = Head(batch) /\ r = AdmittedFor(router, q) /\ ks = KeysOf(q)
  OBVIOUS
<1>3. q \in Request /\ Started(q) /\ q.kind = "release" /\ q.expected \in Nat
  BY <1>1, <1>2, HeadFacts DEF Request
<1>4. PICK art : art = [k \in ks |-> q.expected]
  OBVIOUS
<1>5. \/ Stale(router, q) /\ Reply(router, Error(q))
      \/ Reply(ReleasedAs(r, ks, art), Answer(q, TRUE, q.expected))
      \/ ~CanRelease(r, q) /\ Reply(r, Error(q))
  BY <1>2, <1>4 DEF ServeRelease, ReleasedAs
<1>6. CASE Stale(router, q) /\ Reply(router, Error(q))
  BY <1>1, <1>2, <1>6, RefusalRetries DEF Refusable
<1>7. CASE ~CanRelease(r, q) /\ Reply(r, Error(q))
  BY <1>1, <1>2, <1>3, <1>7, RefusalRetries DEF Refusable
<1>8. CASE Reply(ReleasedAs(r, ks, art), Answer(q, TRUE, q.expected))
  <2>1. PICK n, v : n = ReleasedAs(r, ks, art) /\ v = q.expected
    OBVIOUS
  <2>2. RouterInv(r) /\ ks \in SUBSET Key /\ IsFiniteSet(ks) /\ \A k \in ks : art[k] \in Nat
    BY <1>2, <1>3, <1>4, AdmittedForFacts, KeysFacts
  <2>3. /\ RouterInv(n) /\ n.replays = r.replays
        /\ DOMAIN n.sequences = DOMAIN r.sequences \ ks
    BY <2>1, <2>2, ReleasedAsKeeps
  <2>4. /\ Range(r.replays) \subseteq Range(router.replays)
        /\ DOMAIN r.sequences \subseteq DOMAIN router.sequences
    BY <1>2, <1>3, AdmittedForLess
  <2>5. Reply(n, Answer(q, TRUE, v)) /\ v \in Nat
    BY <1>3, <1>8, <2>1
  <2> QED
    BY <1>1, <1>2, <2>3, <2>4, <2>5, AcceptRetries
<1> QED
  BY <1>5, <1>6, <1>7, <1>8

LEMMA ServeAbortRetries ==
    ASSUME StateInv, CleanInv, ArtifactInv, ~frozen, RetryInv, ServeAbort
    PROVE  RetryInv'
<1>1. batch # <<>> /\ StaysServed
  BY ServeAbortServes DEF ServeAbort, Serve
<1>2. PICK q, r : q = Head(batch) /\ r = AdmittedFor(router, q)
  OBVIOUS
<1>3. q \in Request /\ Started(q)
  BY <1>1, <1>2, HeadFacts
<1>4. PICK held, art : held = KeysOf(q) \cap DOMAIN r.sequences /\ art = r.sequences
  OBVIOUS
<1>5. \/ Stale(router, q) /\ Reply(router, Error(q))
      \/ Reply(ReleasedAs(r, held, art), Answer(q, TRUE, Unbound))
  BY <1>2, <1>4 DEF ServeAbort, ReleasedAs
<1>6. CASE Stale(router, q) /\ Reply(router, Error(q))
  BY <1>1, <1>2, <1>6, RefusalRetries DEF Refusable
<1>7. CASE Reply(ReleasedAs(r, held, art), Answer(q, TRUE, Unbound))
  <2>1. PICK n, v : n = ReleasedAs(r, held, art) /\ v = Unbound
    OBVIOUS
  <2>2. RouterInv(r) /\ held \in SUBSET Key /\ IsFiniteSet(held)
    <3>1. RouterInv(r) /\ KeysOf(q) \in SUBSET Key /\ IsFiniteSet(KeysOf(q))
      BY <1>2, <1>3, AdmittedForFacts, KeysFacts
    <3> QED
      BY <1>4, <3>1, FS_Subset
  <2>3. \A k \in held : art[k] \in Nat
    <3>1. r.sequences \in Maps(Key, Nat)
      BY <2>2 DEF RouterInv, Router
    <3> QED
      BY <1>4, <3>1, MapFacts
  <2>4. /\ RouterInv(n) /\ n.replays = r.replays
        /\ DOMAIN n.sequences = DOMAIN r.sequences \ held
    BY <2>1, <2>2, <2>3, ReleasedAsKeeps
  <2>5. /\ Range(r.replays) \subseteq Range(router.replays)
        /\ DOMAIN r.sequences \subseteq DOMAIN router.sequences
    BY <1>2, <1>3, AdmittedForLess
  <2>6. Reply(n, Answer(q, TRUE, v)) /\ v \in Nat
    BY <1>7, <2>1 DEF Unbound
  <2> QED
    BY <1>1, <1>2, <2>4, <2>5, <2>6, AcceptRetries
<1> QED
  BY <1>5, <1>6, <1>7

\* A step of the server that answers nobody.
LEMMA QuietRetries ==
    ASSUME StateInv, ~frozen, RetryInv, UNCHANGED <<frozen, actorVars, inbox>>,
           NothingNew, StaysServed,
           DOMAIN router'.sequences \subseteq DOMAIN router.sequences,
           Range(router'.replays) \subseteq Range(router.replays)
    PROVE  RetryInv'
<1>0. AskedInv
  BY DEF RetryInv
<1>1. AskedInv'
  <2>0. PICK A : A = {}
    OBVIOUS
  <2>1. A = {} /\ A \in SUBSET Response
    BY <2>0
  <2>2. \A k \in DOMAIN router'.sequences :
           \/ k \in DOMAIN router.sequences
           \/ \E q \in OnTheWay : First(q) /\ k \in KeysOf(q) /\ AnsweredBy(A, q)
    OBVIOUS
  <2> QED
    BY <1>0, <2>1, <2>2, ServerRetries
<1>2. RefusedInv => RefusedInv'
  BY DEF actorVars, RefusedInv, RequestKey, Mine
<1> QED
  BY <1>0, <1>1, <1>2 DEF RetryInv

LEMMA PublishRetries ==
    ASSUME StateInv, CleanInv, ArtifactInv, ~frozen, RetryInv, Publish
    PROVE  RetryInv'
<1>1. PICK v \in Version : CanPublish(router, v) /\ router' = PublishedTo(router, v)
  BY DEF Publish
<1>2. UNCHANGED <<frozen, lookahead, batch, queue, actorVars, inbox>>
  BY DEF Publish
<1>3. StaysServed /\ RouterInv(router) /\ v \in Nat
  BY PublishServes DEF StateInv, Version
<1>4. router'.sequences = router.sequences /\ router'.replays = router.replays
  BY <1>1, <1>3, PublishedKeeps
<1>5. NothingNew
  BY <1>2 DEF NothingNew, OnTheWay, SameBut
<1> QED
  BY <1>2, <1>3, <1>4, <1>5, QuietRetries

LEMMA DrainRetries ==
    ASSUME StateInv, CleanInv, ArtifactInv, ~frozen, RetryInv, Drain
    PROVE  RetryInv'
<1>1. StaysServed /\ NothingNew /\ RouterInv(router)
  BY DrainServes, DrainCleans DEF StateInv
<1>2. UNCHANGED <<frozen, actorVars, inbox>>
  BY DrainAdmits
<1>3. \/ router' = router
      \/ \E latest \in Generations : router' = Admitted(router, latest)
  BY DrainAdmits
<1>4. /\ DOMAIN router'.sequences \subseteq DOMAIN router.sequences
      /\ Range(router'.replays) \subseteq Range(router.replays)
  <2>1. CASE router' = router
    BY <2>1
  <2>2. CASE \E latest \in Generations : router' = Admitted(router, latest)
    <3>1. PICK latest \in Generations : router' = Admitted(router, latest)
      BY <2>2
    <3>2. /\ router'.replays = Only(router.replays, Current(router, latest))
          /\ DOMAIN router'.sequences = DOMAIN router.sequences \ StaleKeys(router, latest)
      BY <1>1, <3>1, AdmittedKeeps
    <3>3. router.replays \in Seq(Response)
      BY <1>1 DEF RouterInv, Router
    <3> QED
      BY <3>2, <3>3, OnlyFacts
  <2> QED
    BY <1>3, <2>1, <2>2
<1> QED
  BY <1>1, <1>2, <1>4, QuietRetries

\* A request that is no longer waited for.
LEMMA NoLongerPending ==
    ASSUME TypeInv, NEW a \in Actor, NEW i,
           pending' = [pending EXCEPT ![a] = Restrict(@, DOMAIN @ \ {i})]
    PROVE  /\ DOMAIN pending'[a] = DOMAIN pending[a] \ {i}
           /\ \A b \in Actor : b # a => pending'[b] = pending[b]
           /\ \A b \in Actor : \A id \in DOMAIN pending'[b] :
                 id \in DOMAIN pending[b] /\ pending'[b][id] = pending[b][id]
<1>1. PICK f, E : f = pending[a] /\ E = DOMAIN f \ {i}
  OBVIOUS
<1>2. pending \in [Actor -> Maps(Nat, Entry)] /\ f \in Maps(Nat, Entry) /\ E \subseteq DOMAIN f
  BY <1>1 DEF TypeInv
<1>3. DOMAIN Restrict(f, E) = E /\ \A x \in E : Restrict(f, E)[x] = f[x]
  BY <1>2, RestrictMaps
<1>4. pending'[a] = Restrict(f, E) /\ \A b \in Actor : b # a => pending'[b] = pending[b]
  BY <1>1, <1>2
<1>5. \A id \in DOMAIN pending'[a] : id \in DOMAIN pending[a] /\ pending'[a][id] = pending[a][id]
  BY <1>1, <1>2, <1>3, <1>4
<1>6. DOMAIN pending'[a] = DOMAIN pending[a] \ {i}
  BY <1>1, <1>3, <1>4
<1> QED
  BY <1>4, <1>5, <1>6

\* no longer waited for
Dropped(b) == DOMAIN pending[b] \ DOMAIN pending'[b]

\* An actor that asks for nothing new, and knows of the sequences of a decode it
\* no longer waits for.
LEMMA WaitingRetries ==
    ASSUME StateInv, ~frozen, AskedInv, StaysServed,
           router' = router, incarnation' = incarnation, nextRequest' = nextRequest,
           \A b \in Actor : \A id \in DOMAIN pending'[b] :
              id \in DOMAIN pending[b] /\ pending'[b][id].request = pending[b][id].request,
           \A q \in OnTheWay' :
              \/ q \in OnTheWay
              \/ \E b \in Actor : \E id \in DOMAIN pending'[b] : q = Asked(b, id),
           \A b \in Actor : Range(inbox'[b]) \subseteq Range(inbox[b]),
           \A b \in Actor : \A id \in DOMAIN pending'[b] : Answered(b, id) => Answered(b, id)',
           \A b \in Actor : Known(b) \subseteq Known(b)',
           \A b \in Actor : \A s \in Known(b)' :
              s \in Known(b) \/ \E id \in Dropped(b) : s \in Asked(b, id).seats,
           \A b \in Actor : \A id \in Dropped(b) :
              ~Cleanup(Asked(b, id)) => Asked(b, id).seats \subseteq Known(b)'
    PROVE  AskedInv'
<1>0. TypeInv
  BY DEF StateInv
<1>1. NumberedInv /\ SameInv /\ ApartInv /\ KnownInv
  BY DEF AskedInv
<1>2. \A q : Mine(q)' <=> Mine(q)
  BY DEF Mine
<1>3. \A b \in Actor : \A id \in DOMAIN pending'[b] :
         id \in DOMAIN pending[b] /\ Asked(b, id)' = Asked(b, id)
  BY DEF Asked
<1>4. \A q : (First(q)' <=> First(q)) /\ (Cleanup(q)' <=> Cleanup(q)) /\ (Named(q)' <=> Named(q))
  BY DEF First, Cleanup, Named
<1>5. ASSUME NEW q \in OnTheWay', q \notin OnTheWay
      PROVE  \E b \in Actor : \E id \in DOMAIN pending'[b] :
                /\ q = Asked(b, id) /\ q.actor = b /\ q.id = id /\ id < nextRequest[b]
  <2>1. PICK b \in Actor : \E id \in DOMAIN pending'[b] : q = Asked(b, id)
    BY <1>5
  <2>2. PICK id \in DOMAIN pending'[b] : q = Asked(b, id)
    BY <2>1
  <2>3. id \in DOMAIN pending[b]
    BY <1>3
  <2>4. q.actor = b /\ q.id = id /\ id < nextRequest[b]
    BY <2>2, <2>3, AskedFacts
  <2> QED
    BY <2>2, <2>4
<1>6. NumberedInv'
  <2>1. \A q \in OnTheWay' : Mine(q) => q.id < nextRequest[q.actor]
    BY <1>1, <1>5 DEF NumberedInv
  <2>2. /\ \A p \in Range(router.replays) : Mine(p) => p.id < nextRequest[p.actor]
        /\ \A a \in Actor : \A p \in Range(inbox'[a]) : Mine(p) => p.id < nextRequest[a]
    BY <1>1 DEF NumberedInv
  <2> QED
    BY <1>2, <2>1, <2>2 DEF NumberedInv
<1>7. SameInv'
  <2>1. ASSUME NEW q \in OnTheWay', Mine(q), q.id \in DOMAIN pending'[q.actor]
        PROVE  SameBut(q, Asked(q.actor, q.id)')
    <3>1. CASE q \in OnTheWay
      <4>1. q.actor \in Actor
        BY <1>0, <3>1, OnTheWayTyped DEF Request
      <4>2. q.id \in DOMAIN pending[q.actor] /\ Asked(q.actor, q.id)' = Asked(q.actor, q.id)
        BY <1>3, <2>1, <4>1
      <4>3. SameBut(q, Asked(q.actor, q.id))
        BY <1>1, <2>1, <3>1, <4>2 DEF SameInv
      <4> QED
        BY <4>2, <4>3
    <3>2. CASE q \notin OnTheWay
      <4>1. PICK b \in Actor : \E id \in DOMAIN pending'[b] :
              /\ q = Asked(b, id) /\ q.actor = b /\ q.id = id
        BY <1>5, <3>2
      <4>2. q.id \in DOMAIN pending'[b] /\ q = Asked(b, q.id) /\ q.actor = b
        BY <4>1
      <4>3. Asked(b, q.id)' = q
        BY <1>3, <4>2
      <4> QED
        BY <4>2, <4>3 DEF SameBut
    <3> QED
      BY <3>1, <3>2
  <2>2. ASSUME NEW p \in Range(router.replays), Mine(p), p.id \in DOMAIN pending'[p.actor]
        PROVE  For(p, Asked(p.actor, p.id)') /\ Answered(p.actor, p.id)'
    <3>1. p.actor \in Actor
      BY AnswersTyped DEF Response
    <3>2. p.id \in DOMAIN pending[p.actor] /\ Asked(p.actor, p.id)' = Asked(p.actor, p.id)
      BY <1>3, <2>2, <3>1
    <3>3. For(p, Asked(p.actor, p.id)) /\ Answered(p.actor, p.id)
      BY <1>1, <2>2, <3>2 DEF SameInv
    <3> QED
      BY <2>2, <3>1, <3>2, <3>3
  <2>3. ASSUME NEW a \in Actor, NEW p \in Range(inbox'[a]), Mine(p), p.id \in DOMAIN pending'[a]
        PROVE  For(p, Asked(a, p.id)')
    BY <1>1, <1>3, <2>3 DEF SameInv
  <2>4. \A q \in OnTheWay' : Mine(q) /\ q.id \in DOMAIN pending'[q.actor] =>
           SameBut(q, Asked(q.actor, q.id)')
    BY <2>1
  <2>5. \A p \in Range(router.replays) : Mine(p) /\ p.id \in DOMAIN pending'[p.actor] =>
           For(p, Asked(p.actor, p.id)') /\ Answered(p.actor, p.id)'
    BY <2>2
  <2>6. \A a \in Actor : \A p \in Range(inbox'[a]) : Mine(p) /\ p.id \in DOMAIN pending'[a] =>
           For(p, Asked(a, p.id)')
    BY <2>3
  <2> QED
    BY <1>2, <2>4, <2>5, <2>6 DEF SameInv, SameBut, For
<1>8. ApartInv'
  <2>1. \A a \in Actor : \A i, j \in DOMAIN pending'[a] :
           i # j => Asked(a, i).seats \cap Asked(a, j).seats = {}
    BY <1>1, <1>3 DEF ApartInv
  <2>2. ASSUME NEW a \in Actor, NEW i \in DOMAIN pending'[a], First(Asked(a, i)),
               NEW s \in Asked(a, i).seats, s \in Known(a)'
        PROVE  FALSE
    <3>1. i \in DOMAIN pending[a]
      BY <1>3
    <3>2. s \notin Known(a)
      BY <1>1, <2>2, <3>1 DEF ApartInv
    <3>3. PICK id \in Dropped(a) : s \in Asked(a, id).seats
      BY <2>2, <3>2
    <3>4. id \in DOMAIN pending[a] /\ id # i
      BY <3>3 DEF Dropped
    <3>5. Asked(a, i).seats \cap Asked(a, id).seats = {}
      BY <1>1, <3>1, <3>4 DEF ApartInv
    <3> QED
      BY <2>2, <3>3, <3>5
  <2>3. \A a \in Actor : \A i \in DOMAIN pending'[a] :
           First(Asked(a, i)) => Asked(a, i).seats \cap Known(a)' = {}
    BY <2>2
  <2>4. ASSUME NEW a \in Actor, NEW i \in DOMAIN pending'[a], Named(Asked(a, i)),
               NEW s \in Asked(a, i).seats
        PROVE  Served(a, s, Asked(a, i).expected)'
    <3>1. PICK v : v = Asked(a, i).expected
      OBVIOUS
    <3>2. i \in DOMAIN pending[a] /\ Asked(a, i)' = Asked(a, i)
      BY <1>3
    <3>3. s \in Seat
      BY <3>2, AskedFacts
    <3>4. Served(a, s, v)
      BY <1>1, <2>4, <3>1, <3>2 DEF ApartInv
    <3>5. Served(a, s, v)'
      BY <3>3, <3>4 DEF StaysServed
    <3> QED
      BY <3>1, <3>2, <3>5 DEF Served, Upholds
  <2>5. (\A a \in Actor : \A i \in DOMAIN pending[a] :
            Named(Asked(a, i)) =>
              \A s \in Asked(a, i).seats : Served(a, s, Asked(a, i).expected))'
    BY <1>3, <1>4, <2>4
  <2> QED
    BY <1>3, <1>4, <2>1, <2>3, <2>5 DEF ApartInv
<1>9. KnownInv'
  <2>1. ASSUME NEW q \in OnTheWay', First(q), Mine(q), q.id \notin DOMAIN pending'[q.actor]
        PROVE  q.seats \subseteq Known(q.actor)'
    <3>1. q \in OnTheWay
      BY <1>5, <2>1
    <3>2. q.actor \in Actor
      BY <1>0, <3>1, OnTheWayTyped DEF Request
    <3>3. CASE q.id \notin DOMAIN pending[q.actor]
      BY <1>1, <2>1, <3>1, <3>2, <3>3 DEF KnownInv
    <3>4. CASE q.id \in DOMAIN pending[q.actor]
      <4>1. SameBut(q, Asked(q.actor, q.id))
        BY <1>1, <2>1, <3>1, <3>4 DEF SameInv
      <4>2. ~Cleanup(Asked(q.actor, q.id)) /\ Asked(q.actor, q.id).seats = q.seats
        BY <2>1, <4>1 DEF SameBut, First, Cleanup
      <4>3. q.id \in Dropped(q.actor)
        BY <2>1, <3>4 DEF Dropped
      <4> QED
        BY <3>2, <4>2, <4>3
    <3> QED
      BY <3>3, <3>4
  <2>2. ASSUME NEW a \in Actor, NEW s \in Seat, KeyOf(a, s) \in DOMAIN router.sequences,
               s \notin Known(a)'
        PROVE  \E i \in DOMAIN pending'[a] :
                  ~Cleanup(Asked(a, i)') /\ s \in Asked(a, i)'.seats /\ Answered(a, i)'
    <3>1. s \notin Known(a)
      BY <2>2
    <3>2. PICK i \in DOMAIN pending[a] :
            ~Cleanup(Asked(a, i)) /\ s \in Asked(a, i).seats /\ Answered(a, i)
      BY <1>1, <2>2, <3>1 DEF KnownInv
    <3>3. i \in DOMAIN pending'[a]
      BY <2>2, <3>2 DEF Dropped
    <3> QED
      BY <1>3, <3>2, <3>3
  <2>3. \A a, s : KeyOf(a, s)' = KeyOf(a, s)
    BY DEF KeyOf
  <2>4. \A q \in OnTheWay' : First(q) /\ Mine(q) /\ q.id \notin DOMAIN pending'[q.actor] =>
           q.seats \subseteq Known(q.actor)'
    BY <2>1
  <2>5. \A a \in Actor : \A s \in Seat : KeyOf(a, s) \in DOMAIN router.sequences =>
           \/ s \in Known(a)'
           \/ \E i \in DOMAIN pending'[a] :
                 ~Cleanup(Asked(a, i)') /\ s \in Asked(a, i)'.seats /\ Answered(a, i)'
    BY <2>2
  <2> QED
    BY <1>2, <1>4, <2>3, <2>4, <2>5 DEF KnownInv
<1> QED
  BY <1>6, <1>7, <1>8, <1>9 DEF AskedInv

LEMMA RetryRetries ==
    ASSUME StateInv, CleanInv, ArtifactInv, ~frozen, RetryInv, NEW a \in Actor, Retry(a)
    PROVE  RetryInv'
<1>0. TypeInv /\ AskedInv /\ StaysServed
  BY RetryServes DEF StateInv, RetryInv
<1>1. PICK id \in DOMAIN pending[a] :
        /\ queue' = Append(queue, pending[a][id].request)
        /\ pending' = [pending EXCEPT ![a][id].attempts = @ + 1]
        /\ UNCHANGED <<router, frozen, lookahead, batch, incarnation,
                       nextRequest, binding, closing, inbox>>
  BY DEF Retry, serverVars
<1>2. PICK f, e, p : f = pending[a] /\ e = f[id] /\ p = [f EXCEPT ![id].attempts = @ + 1]
  OBVIOUS
<1>3. pending \in [Actor -> Maps(Nat, Entry)] /\ f \in Maps(Nat, Entry)
  BY <1>0, <1>2 DEF TypeInv
<1>4. pending'[a] = p /\ \A b \in Actor : b # a => pending'[b] = pending[b]
  BY <1>1, <1>2, <1>3
<1>5. DOMAIN p = DOMAIN f /\ \A x \in DOMAIN f : p[x].request = f[x].request
  <2>1. DOMAIN p = DOMAIN f /\ \A x \in DOMAIN f : x # id => p[x] = f[x]
    BY <1>2
  <2>2. p[id] = [f[id] EXCEPT !.attempts = @ + 1]
    BY <1>1, <1>2
  <2>3. f[id] \in Entry
    BY <1>1, <1>2, <1>3, MapFacts
  <2>4. p[id].request = f[id].request
    BY <2>2, <2>3 DEF Entry
  <2> QED
    BY <2>1, <2>4
<1>6. \A b \in Actor : /\ DOMAIN pending'[b] = DOMAIN pending[b]
                       /\ \A x \in DOMAIN pending[b] :
                             pending'[b][x].request = pending[b][x].request
  <2>1. TAKE b \in Actor
  <2>2. CASE b = a
    <3>1. pending'[b] = p /\ pending[b] = f
      BY <1>2, <1>4, <2>2
    <3> QED
      BY <1>5, <3>1
  <2>3. CASE b # a
    BY <1>4, <2>3
  <2> QED
    BY <2>2, <2>3
<1>7. ASSUME NEW q \in OnTheWay'
      PROVE  \/ q \in OnTheWay
             \/ \E b \in Actor : \E x \in DOMAIN pending'[b] : q = Asked(b, x)
  <2>1. queue \in Seq(Request) /\ Asked(a, id) \in Request
    BY <1>0, AskedFacts DEF TypeInv
  <2>2. queue' = Append(queue, Asked(a, id))
    BY <1>1 DEF Asked
  <2>3. Range(queue') = Range(queue) \cup {Asked(a, id)}
    BY <2>1, <2>2, AppendFacts
  <2>4. q \in OnTheWay \/ q = Asked(a, id)
    BY <1>1, <1>7, <2>3 DEF OnTheWay
  <2> QED
    BY <1>6, <2>4
<1>8. /\ \A b \in Actor : Known(b)' = Known(b)
      /\ \A b, x : Answered(b, x)' <=> Answered(b, x)
      /\ \A b \in Actor : Dropped(b) = {}
  BY <1>1, <1>6 DEF Known, Answered, Dropped
<1>9. AskedInv'
  <2>1. /\ router' = router /\ incarnation' = incarnation /\ nextRequest' = nextRequest
        /\ inbox' = inbox
    BY <1>1
  <2>2. \A b \in Actor : \A x \in DOMAIN pending'[b] : Answered(b, x) => Answered(b, x)'
    BY <1>8
  <2> QED
    BY <1>0, <1>6, <1>7, <1>8, <2>1, <2>2, WaitingRetries
<1>10. RefusedInv => RefusedInv'
  BY <1>1, <1>6 DEF RefusedInv, RequestKey, Mine
<1> QED
  BY <1>9, <1>10 DEF RetryInv

LEMMA AbandonRetries ==
    ASSUME StateInv, CleanInv, ArtifactInv, ~frozen, RetryInv, NEW a \in Actor, Abandon(a)
    PROVE  RetryInv'
<1>0. TypeInv /\ AskedInv /\ StaysServed
  BY AbandonServes DEF StateInv, RetryInv
<1>1. PICK id \in DOMAIN pending[a] :
        /\ pending' = [pending EXCEPT ![a] = Restrict(@, DOMAIN @ \ {id})]
        /\ closing' = IF pending[a][id].request.kind = "decode"
                      THEN [closing EXCEPT ![a] = @ \cup pending[a][id].request.seats]
                      ELSE closing
        /\ UNCHANGED <<router, frozen, lookahead, batch, queue,
                       incarnation, nextRequest, binding, inbox>>
  BY DEF Abandon, serverVars
<1>2. /\ DOMAIN pending'[a] = DOMAIN pending[a] \ {id}
      /\ \A b \in Actor : b # a => pending'[b] = pending[b]
      /\ \A b \in Actor : \A x \in DOMAIN pending'[b] :
            x \in DOMAIN pending[b] /\ pending'[b][x] = pending[b][x]
  BY <1>0, <1>1, NoLongerPending
<1>3. /\ Dropped(a) = {id}
      /\ \A b \in Actor : b # a => Dropped(b) = {}
  BY <1>2 DEF Dropped
<1>4. closing \in [Actor -> SUBSET Seat]
  BY <1>0 DEF TypeInv
<1>5. PICK e : e = Asked(a, id)
  OBVIOUS
<1>6. /\ \A b \in Actor : b # a => closing'[b] = closing[b]
      /\ closing'[a] = IF ~Cleanup(e) THEN closing[a] \cup e.seats ELSE closing[a]
  BY <1>1, <1>4, <1>5 DEF Asked, Cleanup
<1>7. /\ \A b \in Actor : b # a => Known(b)' = Known(b)
      /\ Known(a)' = IF ~Cleanup(e) THEN Known(a) \cup e.seats ELSE Known(a)
  BY <1>1, <1>6 DEF Known
<1>8. \A b \in Actor : Known(b) \subseteq Known(b)'
  BY <1>7
<1>9. \A b \in Actor : \A s \in Known(b)' :
         s \in Known(b) \/ \E x \in Dropped(b) : s \in Asked(b, x).seats
  BY <1>3, <1>5, <1>7
<1>10. \A b \in Actor : \A x \in Dropped(b) :
          ~Cleanup(Asked(b, x)) => Asked(b, x).seats \subseteq Known(b)'
  BY <1>3, <1>5, <1>7
<1>11. AskedInv'
  <2>1. /\ router' = router /\ incarnation' = incarnation /\ nextRequest' = nextRequest
        /\ \A b \in Actor : Range(inbox'[b]) \subseteq Range(inbox[b])
        /\ OnTheWay' = OnTheWay
    BY <1>1 DEF OnTheWay
  <2>2. \A b \in Actor : \A x \in DOMAIN pending'[b] : Answered(b, x) => Answered(b, x)'
    BY <1>1 DEF Answered
  <2> QED
    BY <1>0, <1>2, <1>8, <1>9, <1>10, <2>1, <2>2, WaitingRetries
<1>12. ASSUME RefusedInv PROVE RefusedInv'
  <2>1. \A b \in Actor : \A i \in DOMAIN inbox[b] :
           \/ inbox[b][i].ok
           \/ ~Mine(inbox[b][i])
           \/ inbox[b][i].id \notin DOMAIN pending'[b]
           \/ \E j \in 1 .. (i - 1) : RequestKey(inbox[b][j]) = RequestKey(inbox[b][i])
    BY <1>2, <1>12 DEF RefusedInv
  <2>2. \A q : Mine(q)' <=> Mine(q)
    BY <1>1 DEF Mine
  <2>3. inbox' = inbox
    BY <1>1
  <2> QED
    BY <2>1, <2>2, <2>3 DEF RefusedInv, RequestKey
<1> QED
  BY <1>1, <1>11, <1>12 DEF RetryInv

\* What a process knows of once it read an answer.
LEMMA ReceiveKnows ==
    ASSUME StateInv, CleanInv, ~frozen, NEW a \in Actor, Receive(a),
           NEW p, p = Head(inbox[a]),
           NEW mine, mine = (p.incarnation = incarnation[a] /\ p.id \in DOMAIN pending[a])
    PROVE  /\ \A b \in Actor : b # a => Known(b)' = Known(b)
           /\ Known(a) \subseteq Known(a)'
           /\ \A s \in Known(a)' : s \in Known(a) \/ (mine /\ ~Cleanup(p) /\ s \in p.seats)
           /\ mine /\ ~Cleanup(p) => p.seats \subseteq Known(a)'
<1>0. /\ inbox \in [Actor -> Seq(Response)]
      /\ binding \in [Actor -> Maps(Seat, Nat)]
      /\ closing \in [Actor -> SUBSET Seat]
  BY DEF StateInv, TypeInv
<1>1. PICK f, c : f = binding[a] /\ c = closing[a]
  OBVIOUS
<1>2. /\ inbox[a] # <<>>
      /\ binding' = [binding EXCEPT ![a] =
                 CASE mine /\ p.ok /\ p.kind = "decode" -> Put(f, p.seats, p.artifact)
                   [] mine /\ p.ok /\ p.kind = "release" ->
                          Restrict(f, DOMAIN f \ p.seats)
                   [] OTHER -> f]
      /\ closing' = IF mine /\ ~p.ok /\ p.kind = "decode"
                    THEN [closing EXCEPT ![a] = @ \cup p.seats] ELSE closing
  BY <1>1 DEF Receive
<1>3. p \in Range(inbox[a]) /\ p \in Response
  BY <1>0, <1>2, TailFacts
<1>4. PICK g : g = CASE mine /\ p.ok /\ p.kind = "decode" -> Put(f, p.seats, p.artifact)
                   [] mine /\ p.ok /\ p.kind = "release" ->
                          Restrict(f, DOMAIN f \ p.seats)
                   [] OTHER -> f
  OBVIOUS
<1>5. binding'[a] = g /\ \A b \in Actor : b # a => binding'[b] = binding[b]
  BY <1>0, <1>2, <1>4
<1>6. \A b \in Actor : b # a => closing'[b] = closing[b]
  BY <1>0, <1>2
<1>7. Known(a) = DOMAIN f \cup c /\ Known(a)' = DOMAIN g \cup closing'[a]
  BY <1>1, <1>5 DEF Known
<1>8. CASE mine /\ p.ok /\ p.kind = "decode"
  <2>1. DOMAIN g = p.seats \cup DOMAIN f
    BY <1>4, <1>8 DEF Put
  <2>2. closing'[a] = c
    BY <1>1, <1>2, <1>8
  <2>3. Known(a)' = p.seats \cup Known(a)
    BY <1>7, <2>1, <2>2
  <2> QED
    BY <1>5, <1>6, <1>8, <2>3 DEF Known, Cleanup
<1>9. CASE mine /\ p.ok /\ p.kind = "release"
  <2>1. g = Restrict(f, DOMAIN f \ p.seats) /\ f \in Maps(Seat, Nat)
    BY <1>0, <1>1, <1>4, <1>9
  <2>2. DOMAIN g = DOMAIN f \ p.seats
    BY <2>1, RestrictMaps
  <2>3. closing'[a] = c
    BY <1>1, <1>2, <1>9
  <2>4. p.seats \subseteq c
    <3>1. p.actor = a
      BY <1>3 DEF CleanInv, AnswerInv
    <3>2. Cleanup(p) /\ p.ok /\ Mine(p)
      BY <1>9, <3>1 DEF Cleanup, Mine
    <3>3. Done(a, p.seats)
      BY <1>3, <3>2 DEF CleanInv, DoneInv
    <3> QED
      BY <1>1, <3>3 DEF Done, Closed
  <2>5. Known(a)' = Known(a)
    BY <1>7, <2>2, <2>3, <2>4
  <2> QED
    BY <1>5, <1>6, <1>9, <2>5 DEF Known, Cleanup
<1>10. CASE mine /\ ~p.ok /\ p.kind = "decode"
  <2>1. g = f
    BY <1>4, <1>10
  <2>2. closing'[a] = c \cup p.seats
    BY <1>0, <1>1, <1>2, <1>10
  <2>3. Known(a)' = p.seats \cup Known(a)
    BY <1>7, <2>1, <2>2
  <2> QED
    BY <1>5, <1>6, <1>10, <2>3 DEF Known, Cleanup
<1>11. CASE ~mine \/ (p.kind # "decode" /\ ~(p.ok /\ p.kind = "release"))
  <2>1. g = f
    BY <1>4, <1>11
  <2>2. closing'[a] = c
    BY <1>1, <1>2, <1>11
  <2>3. Known(a)' = Known(a)
    BY <1>7, <2>1, <2>2
  <2> QED
    BY <1>5, <1>6, <1>11, <2>3 DEF Known, Cleanup
<1> QED
  BY <1>8, <1>9, <1>10, <1>11

LEMMA ReceiveRetries ==
    ASSUME StateInv, CleanInv, ArtifactInv, ~frozen, RetryInv, NEW a \in Actor, Receive(a)
    PROVE  RetryInv'
<1>0. TypeInv /\ AskedInv /\ SameInv /\ StaysServed
  BY ReceiveServes DEF StateInv, RetryInv, AskedInv
<1>1. PICK p : p = Head(inbox[a])
  OBVIOUS
<1>2. PICK mine : mine = (p.incarnation = incarnation[a] /\ p.id \in DOMAIN pending[a])
  OBVIOUS
<1>3. /\ inbox[a] # <<>>
      /\ inbox' = [inbox EXCEPT ![a] = Tail(@)]
      /\ pending' = IF mine THEN [pending EXCEPT ![a] = Restrict(@, DOMAIN @ \ {p.id})]
                    ELSE pending
      /\ UNCHANGED <<router, frozen, lookahead, batch, queue, incarnation, nextRequest>>
  BY <1>1, <1>2 DEF Receive, serverVars
<1>4. PICK s, t : s = inbox[a] /\ t = inbox'[a]
  OBVIOUS
<1>5. /\ inbox \in [Actor -> Seq(Response)] /\ s \in Seq(Response) /\ s # <<>>
      /\ t = Tail(s) /\ p = Head(s)
      /\ \A b \in Actor : b # a => inbox'[b] = inbox[b]
  BY <1>0, <1>1, <1>3, <1>4 DEF TypeInv
<1>6. /\ Len(s) \in Nat \ {0} /\ DOMAIN s = 1 .. Len(s) /\ DOMAIN t = 1 .. (Len(s) - 1)
      /\ \A i \in 1 .. (Len(s) - 1) : t[i] = s[i + 1]
      /\ s[1] = p
  BY <1>5
<1>7. p \in Range(s) /\ Range(t) \subseteq Range(s)
  BY <1>5, TailFacts
<1>8. p.actor = a
  BY <1>4, <1>7 DEF CleanInv, AnswerInv
<1>9. /\ \A b \in Actor : b # a => pending'[b] = pending[b]
      /\ \A b \in Actor : \A x \in DOMAIN pending'[b] :
            x \in DOMAIN pending[b] /\ pending'[b][x] = pending[b][x]
      /\ DOMAIN pending'[a] = IF mine THEN DOMAIN pending[a] \ {p.id} ELSE DOMAIN pending[a]
  <2>1. CASE mine
    <3>1. pending' = [pending EXCEPT ![a] = Restrict(@, DOMAIN @ \ {p.id})]
      BY <1>3, <2>1
    <3> QED
      BY <1>0, <2>1, <3>1, NoLongerPending
  <2>2. CASE ~mine
    BY <1>3, <2>2
  <2> QED
    BY <2>1, <2>2
<1>10. /\ Dropped(a) = IF mine THEN {p.id} ELSE {}
       /\ \A b \in Actor : b # a => Dropped(b) = {}
  BY <1>2, <1>9 DEF Dropped
<1>11. mine => For(p, Asked(a, p.id))
  BY <1>0, <1>2, <1>4, <1>7, <1>8 DEF SameInv, Mine
<1>12. /\ \A b \in Actor : b # a => Known(b)' = Known(b)
       /\ Known(a) \subseteq Known(a)'
       /\ \A x \in Known(a)' : x \in Known(a) \/ (mine /\ ~Cleanup(p) /\ x \in p.seats)
       /\ mine /\ ~Cleanup(p) => p.seats \subseteq Known(a)'
  BY <1>1, <1>2, ReceiveKnows
<1>13. AskedInv'
  <2>1. /\ router' = router /\ incarnation' = incarnation /\ nextRequest' = nextRequest
        /\ OnTheWay' = OnTheWay
    BY <1>3 DEF OnTheWay
  <2>2. \A b \in Actor : Range(inbox'[b]) \subseteq Range(inbox[b])
    BY <1>4, <1>5, <1>7
  <2>3. ASSUME NEW b \in Actor, NEW x \in DOMAIN pending'[b], Answered(b, x)
        PROVE  Answered(b, x)'
    <3>1. CASE b # a
      <4>1. inbox'[b] = inbox[b]
        BY <1>5, <3>1
      <4> QED
        BY <2>1, <2>3, <4>1 DEF Answered
    <3>2. CASE b = a
      <4>1. PICK q \in Range(s) : q.incarnation = incarnation[a] /\ q.id = x
        BY <1>4, <2>3, <3>2 DEF Answered
      <4>2. PICK i \in DOMAIN s : s[i] = q
        BY <4>1 DEF Range
      <4>3. CASE i = 1
        <5>1. mine /\ x = p.id
          BY <1>2, <1>6, <1>9, <2>3, <3>2, <4>1, <4>2, <4>3
        <5> QED
          BY <1>9, <2>3, <3>2, <5>1
      <4>4. CASE i # 1
        <5>1. i - 1 \in DOMAIN t /\ t[i - 1] = q
          BY <1>6, <4>2, <4>4
        <5>2. q \in Range(inbox'[a])
          BY <1>4, <5>1 DEF Range
        <5> QED
          BY <2>1, <3>2, <4>1, <5>2 DEF Answered
      <4> QED
        BY <4>3, <4>4
    <3> QED
      BY <3>1, <3>2
  <2>4. \A b \in Actor : Known(b) \subseteq Known(b)'
    BY <1>12
  <2>5. \A b \in Actor : \A x \in Known(b)' :
           x \in Known(b) \/ \E id \in Dropped(b) : x \in Asked(b, id).seats
    BY <1>10, <1>11, <1>12 DEF For
  <2>6. \A b \in Actor : \A id \in Dropped(b) :
           ~Cleanup(Asked(b, id)) => Asked(b, id).seats \subseteq Known(b)'
    BY <1>10, <1>11, <1>12 DEF For, Cleanup
  <2> QED
    BY <1>0, <1>9, <2>1, <2>2, <2>3, <2>4, <2>5, <2>6, WaitingRetries
<1>14. ASSUME RefusedInv PROVE RefusedInv'
  <2>1. ASSUME NEW b \in Actor, NEW i \in DOMAIN inbox'[b]
        PROVE  \/ inbox'[b][i].ok
               \/ ~Mine(inbox'[b][i])
               \/ inbox'[b][i].id \notin DOMAIN pending'[b]
               \/ \E j \in 1 .. (i - 1) : RequestKey(inbox'[b][j]) = RequestKey(inbox'[b][i])
    <3>1. CASE b # a
      <4>1. inbox'[b] = inbox[b] /\ pending'[b] = pending[b]
        BY <1>5, <1>9, <3>1
      <4> QED
        BY <1>14, <2>1, <4>1 DEF RefusedInv
    <3>2. CASE b = a
      <4>1. i \in 1 .. (Len(s) - 1) /\ i + 1 \in DOMAIN s /\ t[i] = s[i + 1]
        BY <1>4, <1>6, <2>1, <3>2
      <4>2. \/ s[i + 1].ok
            \/ ~Mine(s[i + 1])
            \/ s[i + 1].id \notin DOMAIN pending[a]
            \/ \E j \in 1 .. i : RequestKey(s[j]) = RequestKey(s[i + 1])
        <5>1. (i + 1) - 1 = i
          BY <4>1
        <5> QED
          BY <1>4, <1>14, <4>1, <5>1 DEF RefusedInv
      <4>3. CASE \E j \in 1 .. i : RequestKey(s[j]) = RequestKey(s[i + 1])
        <5>1. PICK j \in 1 .. i : RequestKey(s[j]) = RequestKey(s[i + 1])
          BY <4>3
        <5>2. CASE j = 1
          <6>1. p.incarnation = t[i].incarnation /\ p.id = t[i].id /\ p.actor = t[i].actor
            BY <1>6, <4>1, <5>1, <5>2 DEF RequestKey
          <6>2. CASE ~Mine(t[i])
            BY <1>4, <3>2, <6>2
          <6>3. CASE Mine(t[i])
            <7>1. p.incarnation = incarnation[a]
              BY <1>8, <6>1, <6>3 DEF Mine
            <7>2. t[i].id \notin DOMAIN pending'[a]
              BY <1>2, <1>9, <6>1, <7>1
            <7> QED
              BY <1>4, <3>2, <7>2
          <6> QED
            BY <6>2, <6>3
        <5>3. CASE j # 1
          <6>1. j - 1 \in 1 .. (i - 1) /\ t[j - 1] = s[j]
            BY <1>6, <4>1, <5>3
          <6> QED
            BY <1>4, <3>2, <4>1, <5>1, <6>1
        <5> QED
          BY <5>2, <5>3
      <4>4. CASE s[i + 1].ok \/ ~Mine(s[i + 1]) \/ s[i + 1].id \notin DOMAIN pending[a]
        BY <1>4, <1>9, <3>2, <4>1, <4>4
      <4> QED
        BY <4>2, <4>3, <4>4
    <3> QED
      BY <3>1, <3>2
  <2>2. \A q : Mine(q)' <=> Mine(q)
    BY <1>3 DEF Mine
  <2> QED
    BY <2>1, <2>2 DEF RefusedInv, RequestKey
<1> QED
  BY <1>13, <1>14 DEF RetryInv

\* A process asks for sequences it does not wait for, first decodes those it knows
\* nothing of, and names the artifact it was told.
LEMMA SubmitRetries ==
    ASSUME StateInv, CleanInv, ArtifactInv, ~frozen, RetryInv,
           NEW a \in Actor, NEW kind \in Kind, NEW ss \in SUBSET Seat, NEW v \in Nat,
           Submit(a, kind, ss, v), StaysServed, ss \cap Waiting(a) = {},
           kind = "decode" /\ v = Unbound => ss \cap Known(a) = {},
           kind = "release" \/ (kind = "decode" /\ v # Unbound)
              => \A s \in ss : Served(a, s, v)
    PROVE  RetryInv'
<1>0. TypeInv /\ NumberedInv /\ SameInv /\ ApartInv /\ KnownInv
  BY DEF StateInv, RetryInv, AskedInv
<1>1. PICK q : q = [actor |-> a, incarnation |-> incarnation[a],
                    id |-> nextRequest[a], kind |-> kind, seats |-> ss,
                    expected |-> v, at |-> 0]
  OBVIOUS
<1>2. PICK e : e = [request |-> q, attempts |-> 0]
  OBVIOUS
<1>3. PICK f, n : f = pending[a] /\ n = nextRequest[a]
  OBVIOUS
<1>4. /\ queue' = Append(queue, q)
      /\ pending' = [pending EXCEPT ![a] = Put(f, {n}, e)]
      /\ nextRequest' = [nextRequest EXCEPT ![a] = n + 1]
      /\ closing' = IF kind = "decode" THEN closing
                    ELSE [closing EXCEPT ![a] = @ \cup ss]
      /\ UNCHANGED <<router, frozen, lookahead, batch, incarnation, binding, inbox>>
  BY <1>1, <1>2, <1>3 DEF Submit, serverVars
<1>5. /\ incarnation[a] \in Nat /\ n \in Nat /\ nextRequest \in [Actor -> Nat]
      /\ pending \in [Actor -> Maps(Nat, Entry)]
      /\ closing \in [Actor -> SUBSET Seat]
      /\ queue \in Seq(Request)
  BY <1>0, <1>3 DEF TypeInv
<1>6. /\ q \in Request /\ q.actor = a /\ Mine(q) /\ q.seats = ss /\ q.id = n
      /\ q.kind = kind /\ q.expected = v
      /\ Cleanup(q) <=> kind # "decode"
  BY <1>1, <1>3, <1>5 DEF Request, Mine, Cleanup
<1>7. /\ DOMAIN Put(f, {n}, e) = {n} \cup DOMAIN f
      /\ Put(f, {n}, e)[n] = e
      /\ \A id \in DOMAIN f : id # n => Put(f, {n}, e)[id] = f[id]
  BY DEF Put
<1>8. /\ \A b \in Actor : b # a => pending'[b] = pending[b]
      /\ pending'[a] = Put(f, {n}, e)
  BY <1>4, <1>5
<1>9. \A id \in DOMAIN pending[a] : id # n
  BY <1>3, <1>5, AskedFacts
<1>10. /\ \A b \in Actor : \A id \in DOMAIN pending[b] :
             id \in DOMAIN pending'[b] /\ Asked(b, id)' = Asked(b, id)
       /\ n \in DOMAIN pending'[a] /\ Asked(a, n)' = q
       /\ \A b \in Actor : \A id \in DOMAIN pending'[b] :
             id \in DOMAIN pending[b] \/ (b = a /\ id = n)
  <2>1. e.request = q
    BY <1>2
  <2>2. \A id \in DOMAIN pending[a] : id \in DOMAIN pending'[a] /\ pending'[a][id] = pending[a][id]
    BY <1>3, <1>7, <1>8, <1>9
  <2>3. n \in DOMAIN pending'[a] /\ pending'[a][n] = e
    BY <1>7, <1>8
  <2>4. \A id \in DOMAIN pending'[a] : id \in DOMAIN pending[a] \/ id = n
    BY <1>3, <1>7, <1>8
  <2>5. \A b \in Actor : \A id \in DOMAIN pending[b] :
             id \in DOMAIN pending'[b] /\ Asked(b, id)' = Asked(b, id)
    BY <1>8, <2>2 DEF Asked
  <2>6. Asked(a, n)' = q
    BY <2>1, <2>3 DEF Asked
  <2> QED
    BY <1>8, <2>3, <2>4, <2>5, <2>6
<1>11. /\ nextRequest'[a] = n + 1 /\ nextRequest[a] = n
       /\ \A b \in Actor : b # a => nextRequest'[b] = nextRequest[b]
  BY <1>3, <1>4, <1>5
<1>12. ASSUME NEW b \in Actor, NEW i \in Nat, i < nextRequest[b]
       PROVE  i < nextRequest'[b] /\ (b = a => i # n)
  BY <1>5, <1>11, <1>12
<1>13. OnTheWay' = OnTheWay \cup {q}
  <2>1. Range(queue') = Range(queue) \cup {q}
    BY <1>4, <1>5, <1>6, AppendFacts
  <2> QED
    BY <1>4, <2>1 DEF OnTheWay
<1>14. /\ \A x : Mine(x)' <=> Mine(x)
       /\ \A b, s : KeyOf(b, s)' = KeyOf(b, s)
       /\ \A b, id : Answered(b, id)' <=> Answered(b, id)
       /\ \A x : (First(x)' <=> First(x)) /\ (Cleanup(x)' <=> Cleanup(x)) /\ (Named(x)' <=> Named(x))
  BY <1>4 DEF Mine, KeyOf, Answered, First, Cleanup, Named
<1>15. /\ \A b \in Actor : b # a => Known(b)' = Known(b)
       /\ Known(a)' = IF kind = "decode" THEN Known(a) ELSE Known(a) \cup ss
  <2>1. /\ \A b \in Actor : b # a => closing'[b] = closing[b]
        /\ closing'[a] = IF kind = "decode" THEN closing[a] ELSE closing[a] \cup ss
    BY <1>4, <1>5
  <2> QED
    BY <1>4, <2>1 DEF Known
<1>16. \A id \in DOMAIN pending[a] : Asked(a, id).seats \cap ss = {}
  BY DEF Waiting, Asked
<1>17. ASSUME NEW x \in OnTheWay
       PROVE  /\ x.actor \in Actor
              /\ Mine(x) => /\ x.id < nextRequest'[x.actor]
                            /\ ~(x.actor = a /\ x.id = n)
  <2>1. x \in Request
    BY <1>0, OnTheWayTyped
  <2>2. x.actor \in Actor /\ x.id \in Nat
    BY <2>1 DEF Request
  <2>3. Mine(x) => x.id < nextRequest[x.actor]
    BY <1>0 DEF NumberedInv
  <2> QED
    BY <1>12, <2>2, <2>3
<1>18. ASSUME NEW x \in Range(router.replays)
       PROVE  /\ x.actor \in Actor
              /\ Mine(x) => /\ x.id < nextRequest'[x.actor]
                            /\ ~(x.actor = a /\ x.id = n)
  <2>1. x.actor \in Actor /\ x.id \in Nat
    BY AnswersTyped DEF Response
  <2>2. Mine(x) => x.id < nextRequest[x.actor]
    BY <1>0 DEF NumberedInv
  <2> QED
    BY <1>12, <2>1, <2>2
<1>19. ASSUME NEW b \in Actor, NEW x \in Range(inbox[b])
       PROVE  Mine(x) => x.id < nextRequest'[b] /\ ~(b = a /\ x.id = n)
  <2>1. x.id \in Nat
    BY AnswersTyped DEF Response
  <2>2. Mine(x) => x.id < nextRequest[b]
    BY <1>0 DEF NumberedInv
  <2> QED
    BY <1>12, <2>1, <2>2
<1>20. NumberedInv'
  <2>1. q.id < nextRequest'[q.actor]
    BY <1>5, <1>6, <1>11
  <2>2. \A x \in OnTheWay' : Mine(x) => x.id < nextRequest'[x.actor]
    BY <1>13, <1>17, <2>1
  <2>3. router'.replays = router.replays /\ inbox' = inbox
    BY <1>4
  <2> QED
    BY <1>14, <1>18, <1>19, <2>2, <2>3 DEF NumberedInv
<1>21. SameInv'
  <2>1. ASSUME NEW x \in OnTheWay', Mine(x), x.id \in DOMAIN pending'[x.actor]
        PROVE  SameBut(x, Asked(x.actor, x.id)')
    <3>1. CASE x = q
      <4>1. Asked(x.actor, x.id)' = q
        BY <1>6, <1>10, <3>1
      <4> QED
        BY <3>1, <4>1 DEF SameBut
    <3>2. CASE x \in OnTheWay
      <4>1. x.actor \in Actor /\ x.id \in DOMAIN pending[x.actor]
        BY <1>10, <1>17, <2>1, <3>2
      <4>2. Asked(x.actor, x.id)' = Asked(x.actor, x.id)
        BY <1>10, <4>1
      <4> QED
        BY <1>0, <2>1, <3>2, <4>1, <4>2 DEF SameInv
    <3> QED
      BY <1>13, <3>1, <3>2
  <2>2. ASSUME NEW x \in Range(router.replays), Mine(x), x.id \in DOMAIN pending'[x.actor]
        PROVE  For(x, Asked(x.actor, x.id)') /\ Answered(x.actor, x.id)
    <3>1. x.actor \in Actor /\ x.id \in DOMAIN pending[x.actor]
      BY <1>10, <1>18, <2>2
    <3>2. Asked(x.actor, x.id)' = Asked(x.actor, x.id)
      BY <1>10, <3>1
    <3> QED
      BY <1>0, <2>2, <3>1, <3>2 DEF SameInv
  <2>3. ASSUME NEW b \in Actor, NEW x \in Range(inbox[b]), Mine(x), x.id \in DOMAIN pending'[b]
        PROVE  For(x, Asked(b, x.id)')
    <3>1. x.id \in DOMAIN pending[b]
      BY <1>10, <1>19, <2>3
    <3>2. Asked(b, x.id)' = Asked(b, x.id)
      BY <1>10, <3>1
    <3> QED
      BY <1>0, <2>3, <3>1, <3>2 DEF SameInv
  <2>4. \A x \in OnTheWay' : Mine(x) /\ x.id \in DOMAIN pending'[x.actor] =>
           SameBut(x, Asked(x.actor, x.id)')
    BY <2>1
  <2>5. \A x \in Range(router'.replays) : Mine(x) /\ x.id \in DOMAIN pending'[x.actor] =>
           For(x, Asked(x.actor, x.id)') /\ Answered(x.actor, x.id)
    BY <1>4, <2>2
  <2>6. \A b \in Actor : \A x \in Range(inbox'[b]) : Mine(x) /\ x.id \in DOMAIN pending'[b] =>
           For(x, Asked(b, x.id)')
    BY <1>4, <2>3
  <2> QED
    BY <1>14, <2>4, <2>5, <2>6 DEF SameInv, SameBut, For
<1>22. ApartInv'
  <2>1. ASSUME NEW b \in Actor, NEW i \in DOMAIN pending'[b], NEW j \in DOMAIN pending'[b], i # j
        PROVE  Asked(b, i)'.seats \cap Asked(b, j)'.seats = {}
    <3>1. CASE i \in DOMAIN pending[b] /\ j \in DOMAIN pending[b]
      BY <1>0, <1>10, <2>1, <3>1 DEF ApartInv
    <3>2. CASE i \notin DOMAIN pending[b]
      <4>1. b = a /\ i = n /\ j \in DOMAIN pending[a]
        BY <1>10, <2>1, <3>2
      <4> QED
        BY <1>6, <1>10, <1>16, <4>1
    <3>3. CASE j \notin DOMAIN pending[b]
      <4>1. b = a /\ j = n /\ i \in DOMAIN pending[a]
        BY <1>10, <2>1, <3>3
      <4> QED
        BY <1>6, <1>10, <1>16, <4>1
    <3> QED
      BY <3>1, <3>2, <3>3
  <2>2. ASSUME NEW b \in Actor, NEW i \in DOMAIN pending'[b], First(Asked(b, i)')
        PROVE  Asked(b, i)'.seats \cap Known(b)' = {}
    <3>1. CASE i \in DOMAIN pending[b]
      <4>1. Asked(b, i).seats \cap Known(b) = {} /\ Asked(b, i)' = Asked(b, i)
        BY <1>0, <1>10, <2>2, <3>1 DEF ApartInv
      <4> QED
        BY <1>15, <1>16, <3>1, <4>1
    <3>2. CASE i \notin DOMAIN pending[b]
      <4>1. b = a /\ Asked(b, i)' = q
        BY <1>10, <3>2
      <4>2. kind = "decode" /\ v = Unbound
        BY <1>6, <2>2, <4>1 DEF First, Cleanup
      <4> QED
        BY <1>6, <1>15, <4>1, <4>2
    <3> QED
      BY <3>1, <3>2
  <2>3. ASSUME NEW b \in Actor, NEW i \in DOMAIN pending'[b], NEW x, x = Asked(b, i)',
               Named(x), NEW s \in x.seats, NEW w, w = x.expected
        PROVE  Served(b, s, w)'
    <3>1. CASE i \in DOMAIN pending[b]
      <4>1. x = Asked(b, i)
        BY <1>10, <2>3, <3>1
      <4>2. s \in Seat
        BY <2>3, <3>1, <4>1, AskedFacts
      <4>3. Served(b, s, w)
        BY <1>0, <2>3, <3>1, <4>1 DEF ApartInv
      <4> QED
        BY <4>2, <4>3 DEF StaysServed
    <3>2. CASE i \notin DOMAIN pending[b]
      <4>1. b = a /\ x = q /\ s \in ss /\ w = v
        BY <1>6, <1>10, <2>3, <3>2
      <4>2. kind = "release" \/ (kind = "decode" /\ v # Unbound)
        BY <1>6, <2>3, <4>1 DEF Named
      <4>3. Served(a, s, v)
        BY <4>1, <4>2
      <4>4. Served(a, s, v)'
        BY <4>1, <4>3 DEF StaysServed
      <4> QED
        BY <4>1, <4>4
    <3> QED
      BY <3>1, <3>2
  <2>4. ASSUME NEW b \in Actor, NEW i \in DOMAIN pending'[b], Named(Asked(b, i)'),
               NEW s \in Asked(b, i)'.seats
        PROVE  Served(b, s, Asked(b, i).expected)'
    <3>1. PICK x, w : x = Asked(b, i)' /\ w = x.expected
      OBVIOUS
    <3>2. Served(b, s, w)'
      BY <2>3, <2>4, <3>1
    <3> QED
      BY <3>1, <3>2 DEF Served, Upholds
  <2>5. (\A b \in Actor : \A i \in DOMAIN pending[b] : Named(Asked(b, i)) =>
            \A s \in Asked(b, i).seats : Served(b, s, Asked(b, i).expected))'
    BY <1>14, <2>4
  <2>6. \A b \in Actor : \A i, j \in DOMAIN pending'[b] :
           i # j => Asked(b, i)'.seats \cap Asked(b, j)'.seats = {}
    BY <2>1
  <2>7. \A b \in Actor : \A i \in DOMAIN pending'[b] :
           First(Asked(b, i)') => Asked(b, i)'.seats \cap Known(b)' = {}
    BY <2>2
  <2> QED
    BY <1>14, <2>5, <2>6, <2>7 DEF ApartInv
<1>23. KnownInv'
  <2>1. ASSUME NEW x \in OnTheWay', First(x), Mine(x), x.id \notin DOMAIN pending'[x.actor]
        PROVE  x.seats \subseteq Known(x.actor)'
    <3>1. x \in OnTheWay
      BY <1>6, <1>10, <1>13, <2>1
    <3>2. x.actor \in Actor /\ x.id \notin DOMAIN pending[x.actor]
      BY <1>10, <1>17, <2>1, <3>1
    <3>3. x.seats \subseteq Known(x.actor)
      BY <1>0, <2>1, <3>1, <3>2 DEF KnownInv
    <3> QED
      BY <1>15, <3>2, <3>3
  <2>2. ASSUME NEW b \in Actor, NEW s \in Seat, KeyOf(b, s) \in DOMAIN router.sequences,
               s \notin Known(b)'
        PROVE  \E i \in DOMAIN pending'[b] :
                  ~Cleanup(Asked(b, i)') /\ s \in Asked(b, i)'.seats /\ Answered(b, i)
    <3>1. s \notin Known(b)
      BY <1>15, <2>2
    <3>2. PICK i \in DOMAIN pending[b] :
            ~Cleanup(Asked(b, i)) /\ s \in Asked(b, i).seats /\ Answered(b, i)
      BY <1>0, <2>2, <3>1 DEF KnownInv
    <3> QED
      BY <1>10, <3>2
  <2>3. \A x \in OnTheWay' : First(x) /\ Mine(x) /\ x.id \notin DOMAIN pending'[x.actor] =>
           x.seats \subseteq Known(x.actor)'
    BY <2>1
  <2>4. \A b \in Actor : \A s \in Seat : KeyOf(b, s) \in DOMAIN router'.sequences =>
           \/ s \in Known(b)'
           \/ \E i \in DOMAIN pending'[b] :
                 ~Cleanup(Asked(b, i)') /\ s \in Asked(b, i)'.seats /\ Answered(b, i)
    BY <1>4, <2>2
  <2> QED
    BY <1>14, <2>3, <2>4 DEF KnownInv
<1>24. ASSUME RefusedInv PROVE RefusedInv'
  <2>1. ASSUME NEW b \in Actor, NEW i \in DOMAIN inbox[b]
        PROVE  \/ inbox[b][i].ok
               \/ ~Mine(inbox[b][i])
               \/ inbox[b][i].id \notin DOMAIN pending'[b]
               \/ \E j \in 1 .. (i - 1) : RequestKey(inbox[b][j]) = RequestKey(inbox[b][i])
    <3>1. inbox[b][i] \in Range(inbox[b])
      BY DEF Range
    <3>2. Mine(inbox[b][i]) /\ inbox[b][i].id \in DOMAIN pending'[b]
             => inbox[b][i].id \in DOMAIN pending[b]
      BY <1>10, <1>19, <3>1
    <3> QED
      BY <1>24, <3>2 DEF RefusedInv
  <2>2. \A b \in Actor : \A i \in DOMAIN inbox[b] :
           \/ inbox[b][i].ok
           \/ ~Mine(inbox[b][i])
           \/ inbox[b][i].id \notin DOMAIN pending'[b]
           \/ \E j \in 1 .. (i - 1) : RequestKey(inbox[b][j]) = RequestKey(inbox[b][i])
    BY <2>1
  <2>3. inbox' = inbox /\ \A x : Mine(x)' <=> Mine(x)
    BY <1>4, <1>14
  <2> QED
    BY <2>2, <2>3 DEF RefusedInv, RequestKey
<1> QED
  BY <1>20, <1>21, <1>22, <1>23, <1>24 DEF RetryInv, AskedInv

\* A new process asked for nothing, and nothing that is under way is its own.
LEMMA RestartRetries ==
    ASSUME StateInv, CleanInv, ArtifactInv, ~frozen, RetryInv, NEW a \in Actor, Restart(a)
    PROVE  RetryInv'
<1>0. /\ TypeInv /\ PastInv /\ AnswerInv
      /\ NumberedInv /\ SameInv /\ ApartInv /\ KnownInv
  BY DEF StateInv, CleanInv, RetryInv, AskedInv
<1>1. /\ incarnation' = [incarnation EXCEPT ![a] = @ + 1]
      /\ nextRequest' = [nextRequest EXCEPT ![a] = 1]
      /\ pending' = [pending EXCEPT ![a] = <<>>]
      /\ binding' = [binding EXCEPT ![a] = <<>>]
      /\ closing' = [closing EXCEPT ![a] = {}]
      /\ UNCHANGED <<router, frozen, loaded, lookahead, batch, queue, inbox>>
  BY DEF Restart, serverVars
<1>2. /\ incarnation \in [Actor -> Nat]
      /\ nextRequest \in [Actor -> Nat]
      /\ pending \in [Actor -> Maps(Nat, Entry)]
      /\ binding \in [Actor -> Maps(Seat, Nat)]
      /\ closing \in [Actor -> SUBSET Seat]
  BY <1>0 DEF TypeInv
<1>3. /\ incarnation[a] \in Nat
      /\ incarnation'[a] = incarnation[a] + 1
      /\ DOMAIN pending'[a] = {}
      /\ \A b \in Actor : b # a =>
            /\ incarnation'[b] = incarnation[b] /\ pending'[b] = pending[b]
            /\ closing'[b] = closing[b] /\ binding'[b] = binding[b]
            /\ nextRequest'[b] = nextRequest[b]
  <2>1. DOMAIN <<>> = {}
    OBVIOUS
  <2> QED
    BY <1>1, <1>2, <2>1
<1>4. ASSUME NEW p, p.actor \in Actor, p.incarnation \in Nat,
             p.incarnation <= incarnation[p.actor], Mine(p)'
      PROVE  p.actor # a /\ Mine(p)
  <2>1. PICK b, i : b = p.actor /\ i = p.incarnation
    OBVIOUS
  <2>2. i = incarnation'[b] /\ i <= incarnation[b] /\ i \in Nat
    BY <1>4, <2>1 DEF Mine
  <2>3. b # a
    BY <1>3, <2>2
  <2>4. i = incarnation[b]
    BY <1>3, <1>4, <2>1, <2>2, <2>3
  <2> QED
    BY <2>1, <2>3, <2>4 DEF Mine
<1>5. OnTheWay' = OnTheWay
  BY <1>1 DEF OnTheWay
<1>6. ASSUME NEW q \in OnTheWay, Mine(q)' PROVE q.actor \in Actor /\ q.actor # a /\ Mine(q)
  <2>1. q \in Request /\ q.incarnation <= incarnation[q.actor]
    BY <1>0, OnTheWayTyped DEF PastInv, OnTheWay
  <2>2. q.actor \in Actor /\ q.incarnation \in Nat
    BY <2>1 DEF Request
  <2> QED
    BY <1>4, <1>6, <2>1, <2>2
<1>7. ASSUME NEW p \in Range(router.replays), Mine(p)'
      PROVE  p.actor \in Actor /\ p.actor # a /\ Mine(p)
  <2>1. p \in Response /\ p.incarnation <= incarnation[p.actor]
    BY <1>0, AnswersTyped DEF AnswerInv
  <2>2. p.actor \in Actor /\ p.incarnation \in Nat
    BY <2>1 DEF Response
  <2> QED
    BY <1>4, <1>7, <2>1, <2>2
<1>8. ASSUME NEW b \in Actor, NEW p \in Range(inbox[b]), Mine(p)'
      PROVE  b # a /\ Mine(p)
  <2>1. p \in Response /\ p.actor = b /\ p.incarnation <= incarnation[p.actor]
    BY <1>0, AnswersTyped DEF AnswerInv
  <2>2. p.actor \in Actor /\ p.incarnation \in Nat
    BY <2>1 DEF Response
  <2> QED
    BY <1>4, <1>8, <2>1, <2>2
<1>9. ASSUME NEW b \in Actor, b # a, NEW s \in Seat, NEW v, Served(b, s, v)
      PROVE  Served(b, s, v)'
  <2>1. KeyOf(b, s)' = KeyOf(b, s)
    BY <1>3, <1>9 DEF KeyOf
  <2>2. Upholds(router, KeyOf(b, s), v)'
    BY <1>1, <1>9, <2>1 DEF Served, Upholds, Marked
  <2>3. ASSUME KeyOf(b, s) \notin DOMAIN router.sequences PROVE Done(b, {s})'
    <3>1. Done(b, {s})
      BY <1>9, <2>3 DEF Served
    <3>2. Closed(b, {s})'
      BY <1>3, <1>9, <3>1 DEF Done, Closed, Cleanup
    <3>3. ASSUME NEW q \in OnTheWay, q.actor = b, ~Cleanup(q), Mine(q)'
          PROVE  q.seats \cap {s} = {}
      <4>1. Mine(q)
        BY <1>3, <1>9, <3>3 DEF Mine
      <4> QED
        BY <3>1, <3>3, <4>1 DEF Done, Undecoded
    <3>4. Undecoded(b, {s})'
      BY <1>5, <3>3 DEF Undecoded, Cleanup
    <3>5. Unheld(b, {s})'
      BY <1>1, <2>1, <3>1 DEF Done, Unheld
    <3> QED
      BY <3>2, <3>4, <3>5 DEF Done
  <2>4. KeyOf(b, s)' \notin DOMAIN router'.sequences => Done(b, {s})'
    BY <1>1, <2>1, <2>3
  <2>5. frozen' => v = 1
    BY <1>1, <1>9 DEF Served
  <2> QED
    BY <2>2, <2>4, <2>5 DEF Served
<1>10. /\ \A b \in Actor : b # a => Known(b)' = Known(b)
       /\ \A b \in Actor : \A id \in DOMAIN pending'[b] : b # a /\ id \in DOMAIN pending[b]
       /\ \A b \in Actor : b # a => \A id : Asked(b, id)' = Asked(b, id)
       /\ \A b \in Actor : b # a => \A id : Answered(b, id) => Answered(b, id)'
       /\ \A b \in Actor : b # a => \A s : KeyOf(b, s)' = KeyOf(b, s)
       /\ \A q : (First(q)' <=> First(q)) /\ (Cleanup(q)' <=> Cleanup(q)) /\ (Named(q)' <=> Named(q))
  BY <1>1, <1>3 DEF Known, Asked, Answered, KeyOf, First, Cleanup, Named
<1>11. NumberedInv'
  <2>1. \A q \in OnTheWay : Mine(q)' => q.id < nextRequest'[q.actor]
    BY <1>0, <1>3, <1>6 DEF NumberedInv
  <2>2. \A p \in Range(router.replays) : Mine(p)' => p.id < nextRequest'[p.actor]
    BY <1>0, <1>3, <1>7 DEF NumberedInv
  <2>3. \A b \in Actor : \A p \in Range(inbox[b]) : Mine(p)' => p.id < nextRequest'[b]
    BY <1>0, <1>3, <1>8 DEF NumberedInv
  <2> QED
    BY <1>1, <1>5, <2>1, <2>2, <2>3 DEF NumberedInv
<1>12. SameInv'
  <2>1. ASSUME NEW q \in OnTheWay, Mine(q)', q.id \in DOMAIN pending'[q.actor]
        PROVE  SameBut(q, Asked(q.actor, q.id)')
    <3>1. q.actor \in Actor /\ q.actor # a /\ Mine(q) /\ q.id \in DOMAIN pending[q.actor]
      BY <1>3, <1>6, <2>1
    <3>2. SameBut(q, Asked(q.actor, q.id))
      BY <1>0, <3>1 DEF SameInv
    <3> QED
      BY <1>10, <3>1, <3>2
  <2>2. ASSUME NEW p \in Range(router.replays), Mine(p)', p.id \in DOMAIN pending'[p.actor]
        PROVE  For(p, Asked(p.actor, p.id)') /\ Answered(p.actor, p.id)'
    <3>1. p.actor \in Actor /\ p.actor # a /\ Mine(p) /\ p.id \in DOMAIN pending[p.actor]
      BY <1>3, <1>7, <2>2
    <3>2. For(p, Asked(p.actor, p.id)) /\ Answered(p.actor, p.id)
      BY <1>0, <3>1 DEF SameInv
    <3> QED
      BY <1>10, <3>1, <3>2
  <2>3. ASSUME NEW b \in Actor, NEW p \in Range(inbox[b]), Mine(p)', p.id \in DOMAIN pending'[b]
        PROVE  For(p, Asked(b, p.id)')
    <3>1. b # a /\ Mine(p) /\ p.id \in DOMAIN pending[b]
      BY <1>3, <1>8, <2>3
    <3>2. For(p, Asked(b, p.id))
      BY <1>0, <3>1 DEF SameInv
    <3> QED
      BY <1>10, <3>1, <3>2
  <2>4. \A q \in OnTheWay' : Mine(q)' /\ q.id \in DOMAIN pending'[q.actor] =>
           SameBut(q, Asked(q.actor, q.id)')
    BY <1>5, <2>1
  <2>5. \A p \in Range(router'.replays) : Mine(p)' /\ p.id \in DOMAIN pending'[p.actor] =>
           For(p, Asked(p.actor, p.id)') /\ Answered(p.actor, p.id)'
    BY <1>1, <2>2
  <2>6. \A b \in Actor : \A p \in Range(inbox'[b]) : Mine(p)' /\ p.id \in DOMAIN pending'[b] =>
           For(p, Asked(b, p.id)')
    BY <1>1, <2>3
  <2> QED
    BY <2>4, <2>5, <2>6 DEF SameInv, SameBut, For
<1>13. ApartInv'
  <2>1. \A b \in Actor : \A i, j \in DOMAIN pending'[b] :
           i # j => Asked(b, i)'.seats \cap Asked(b, j)'.seats = {}
    BY <1>0, <1>10 DEF ApartInv
  <2>2. \A b \in Actor : \A i \in DOMAIN pending'[b] :
           First(Asked(b, i)') => Asked(b, i)'.seats \cap Known(b)' = {}
    BY <1>0, <1>10 DEF ApartInv
  <2>3. ASSUME NEW b \in Actor, NEW i \in DOMAIN pending'[b], Named(Asked(b, i)'),
               NEW s \in Asked(b, i)'.seats
        PROVE  Served(b, s, Asked(b, i).expected)'
    <3>1. PICK w : w = Asked(b, i)'.expected
      OBVIOUS
    <3>2. b # a /\ i \in DOMAIN pending[b] /\ Asked(b, i)' = Asked(b, i)
      BY <1>10
    <3>3. s \in Seat
      BY <3>2, AskedFacts
    <3>4. Served(b, s, w)
      BY <1>0, <2>3, <3>1, <3>2 DEF ApartInv
    <3>5. Served(b, s, w)'
      BY <1>9, <3>2, <3>3, <3>4
    <3> QED
      BY <3>1, <3>5 DEF Served, Upholds
  <2>4. (\A b \in Actor : \A i \in DOMAIN pending[b] : Named(Asked(b, i)) =>
            \A s \in Asked(b, i).seats : Served(b, s, Asked(b, i).expected))'
    BY <1>10, <2>3
  <2> QED
    BY <1>10, <2>1, <2>2, <2>4 DEF ApartInv
<1>14. KnownInv'
  <2>1. ASSUME NEW q \in OnTheWay, First(q), Mine(q)', q.id \notin DOMAIN pending'[q.actor]
        PROVE  q.seats \subseteq Known(q.actor)'
    <3>1. q.actor \in Actor /\ q.actor # a /\ Mine(q)
      BY <1>6, <2>1
    <3>2. q.id \notin DOMAIN pending[q.actor]
      BY <1>3, <2>1, <3>1
    <3> QED
      BY <1>0, <1>10, <2>1, <3>1, <3>2 DEF KnownInv
  <2>2. ASSUME NEW b \in Actor, NEW s \in Seat, KeyOf(b, s)' \in DOMAIN router.sequences
        PROVE  \/ s \in Known(b)'
               \/ \E i \in DOMAIN pending'[b] :
                     ~Cleanup(Asked(b, i)') /\ s \in Asked(b, i)'.seats /\ Answered(b, i)'
    <3>1. b # a
      <4>1. SUFFICES ASSUME b = a PROVE FALSE
        OBVIOUS
      <4>2. KeyOf(b, s)'.actor = a /\ KeyOf(b, s)'.incarnation = incarnation[a] + 1
        BY <1>3, <4>1 DEF KeyOf
      <4>3. router.generation[a] = incarnation[a] + 1
        BY <2>2, <4>2 DEF StateInv, RouterInv, Owned
      <4>4. router.generation[a] <= incarnation[a]
        BY <1>0 DEF PastInv
      <4> QED
        BY <1>3, <4>3, <4>4
    <3>2. KeyOf(b, s) \in DOMAIN router.sequences
      BY <1>10, <2>2, <3>1
    <3>3. \/ s \in Known(b)
          \/ \E i \in DOMAIN pending[b] :
                ~Cleanup(Asked(b, i)) /\ s \in Asked(b, i).seats /\ Answered(b, i)
      BY <1>0, <3>2 DEF KnownInv
    <3>4. pending'[b] = pending[b]
      BY <1>3, <3>1
    <3> QED
      BY <1>10, <3>1, <3>3, <3>4
  <2>3. \A q \in OnTheWay' : First(q) /\ Mine(q)' /\ q.id \notin DOMAIN pending'[q.actor] =>
           q.seats \subseteq Known(q.actor)'
    BY <1>5, <2>1
  <2>4. \A b \in Actor : \A s \in Seat : KeyOf(b, s)' \in DOMAIN router'.sequences =>
           \/ s \in Known(b)'
           \/ \E i \in DOMAIN pending'[b] :
                 ~Cleanup(Asked(b, i)') /\ s \in Asked(b, i)'.seats /\ Answered(b, i)'
    BY <1>1, <2>2
  <2> QED
    BY <1>10, <2>3, <2>4 DEF KnownInv
<1>15. ASSUME RefusedInv PROVE RefusedInv'
  <2>1. ASSUME NEW b \in Actor, NEW i \in DOMAIN inbox[b]
        PROVE  \/ inbox[b][i].ok
               \/ ~Mine(inbox[b][i])'
               \/ inbox[b][i].id \notin DOMAIN pending'[b]
               \/ \E j \in 1 .. (i - 1) : RequestKey(inbox[b][j]) = RequestKey(inbox[b][i])
    <3>1. PICK p : p = inbox[b][i]
      OBVIOUS
    <3>2. p \in Range(inbox[b])
      BY <3>1 DEF Range
    <3>3. Mine(p)' => b # a /\ Mine(p)
      BY <1>8, <3>2
    <3>4. b # a => pending'[b] = pending[b]
      BY <1>3
    <3>5. \/ p.ok \/ ~Mine(p) \/ p.id \notin DOMAIN pending[b]
          \/ \E j \in 1 .. (i - 1) : RequestKey(inbox[b][j]) = RequestKey(inbox[b][i])
      BY <1>15, <3>1 DEF RefusedInv
    <3>6. Mine(inbox[b][i])' => Mine(p)'
      BY <1>1, <3>1 DEF Mine
    <3> QED
      BY <3>1, <3>3, <3>4, <3>5, <3>6
  <2>2. inbox' = inbox
    BY <1>1
  <2>3. \A b \in Actor : \A i \in DOMAIN inbox'[b] :
           \/ inbox'[b][i].ok
           \/ ~Mine(inbox[b][i])'
           \/ inbox'[b][i].id \notin DOMAIN pending'[b]
           \/ \E j \in 1 .. (i - 1) : RequestKey(inbox'[b][j]) = RequestKey(inbox'[b][i])
    BY <2>1, <2>2
  <2> QED
    BY <2>3 DEF RefusedInv, RequestKey
<1> QED
  BY <1>11, <1>12, <1>13, <1>14, <1>15 DEF RetryInv, AskedInv

LEMMA ClientRetries ==
    ASSUME StateInv, CleanInv, ArtifactInv, ~frozen, RetryInv, NEW a \in Actor, Client(a)
    PROVE  RetryInv'
<1>1. /\ Idle(a) \subseteq Seat /\ Idle(a) \cap Waiting(a) = {}
      /\ Version \subseteq Nat /\ Unbound \in Nat /\ Unbound \notin Version
  BY RecurrentAssumption DEF Idle, Version, Unbound
<1>2. "decode" \in Kind /\ "release" \in Kind /\ "abort" \in Kind
  BY DEF Kind
<1>3. Known(a) = DOMAIN binding[a] \cup closing[a]
  BY DEF Known
<1>4. ASSUME NEW ss \in SUBSET Seat, NEW v, Bound(a, ss, v), NEW s \in ss
      PROVE  Served(a, s, v)
  BY <1>4 DEF ArtifactInv, ServedInv, Bound
<1>5. CASE SubmitFirst(a)
  <2>1. PICK ss \in SUBSET Seat :
           /\ Submit(a, "decode", ss, Unbound)
           /\ ss \cap closing[a] = {} /\ ss \cap Waiting(a) = {} /\ ss \cap Known(a) = {}
    BY <1>1, <1>3, <1>5 DEF SubmitFirst
  <2>2. StaysServed
    BY <1>1, <1>2, <2>1, SubmitServes
  <2> QED
    BY <1>1, <1>2, <2>1, <2>2, SubmitRetries
<1>6. CASE SubmitNext(a)
  <2>1. PICK ss \in SUBSET Seat, v \in Version :
           /\ Submit(a, "decode", ss, v) /\ Bound(a, ss, v)
           /\ ss \cap closing[a] = {} /\ ss \cap Waiting(a) = {}
    BY <1>1, <1>6 DEF SubmitNext
  <2>2. v \in Nat /\ v # Unbound /\ \A s \in ss : Served(a, s, v)
    BY <1>1, <1>4, <2>1
  <2>3. StaysServed
    BY <1>2, <2>1, <2>2, SubmitServes
  <2> QED
    BY <1>2, <2>1, <2>2, <2>3, SubmitRetries
<1>7. CASE SubmitRelease(a)
  <2>1. PICK ss \in SUBSET Seat, v \in Version :
           /\ Submit(a, "release", ss, v) /\ Bound(a, ss, v) /\ ss \cap Waiting(a) = {}
    BY <1>1, <1>7 DEF SubmitRelease
  <2>2. v \in Nat /\ \A s \in ss : Served(a, s, v)
    BY <1>1, <1>4, <2>1
  <2>3. StaysServed
    BY <1>2, <2>1, <2>2, SubmitServes
  <2> QED
    BY <1>2, <2>1, <2>2, <2>3, SubmitRetries
<1>8. CASE SubmitAbort(a)
  <2>1. PICK ss \in SUBSET Seat :
           Submit(a, "abort", ss, Unbound) /\ ss \cap Waiting(a) = {}
    BY <1>1, <1>8 DEF SubmitAbort
  <2>2. StaysServed
    BY <1>1, <1>2, <2>1, SubmitServes
  <2> QED
    BY <1>1, <1>2, <2>1, <2>2, SubmitRetries
<1> QED
  BY <1>5, <1>6, <1>7, <1>8, ReceiveRetries, RetryRetries, AbandonRetries, RestartRetries
  DEF Client

LEMMA InitRetries == Init => RetryInv
<1> SUFFICES ASSUME Init PROVE RetryInv
  OBVIOUS
<1>1. /\ router.sequences = <<>> /\ router.replays = <<>>
      /\ queue = <<>> /\ lookahead = <<>> /\ batch = <<>>
      /\ \A a \in Actor : pending[a] = <<>> /\ inbox[a] = <<>>
  BY DEF Init
<1>2. DOMAIN <<>> = {} /\ Range(<<>>) = {}
  BY EmptyFacts, EmptySeq
<1>3. OnTheWay = {}
  BY <1>1, <1>2 DEF OnTheWay
<1>4. NumberedInv
  BY <1>1, <1>2, <1>3 DEF NumberedInv
<1>5. SameInv
  BY <1>1, <1>2, <1>3 DEF SameInv
<1>6. ApartInv
  BY <1>1, <1>2 DEF ApartInv
<1>7. KnownInv
  BY <1>1, <1>2, <1>3 DEF KnownInv
<1>8. RefusedInv
  BY <1>1, <1>2 DEF RefusedInv
<1> QED
  BY <1>4, <1>5, <1>6, <1>7, <1>8 DEF RetryInv, AskedInv

LEMMA NextRetries ==
    StateInv /\ CleanInv /\ ArtifactInv /\ RetryInv /\ [Next]_vars => RetryInv'
<1> SUFFICES ASSUME StateInv, CleanInv, ArtifactInv, RetryInv, [Next]_vars, ~frozen'
             PROVE  RetryInv'
  BY DEF RetryInv
<1>1. ~frozen
  <2>1. CASE UNCHANGED vars
    BY <2>1 DEF vars, serverVars
  <2>2. CASE LoadRoute \/ Publish
    BY <2>2 DEF LoadRoute, Publish
  <2>3. CASE Server
    BY <2>3 DEF Server, Drain, ServeReplay, ServeDecode, ServeRelease, ServeAbort, Reply
  <2>4. ASSUME NEW a \in Actor, Client(a) PROVE frozen' = frozen
    <3>1. ASSUME NEW kind, NEW ss, NEW v, Submit(a, kind, ss, v) PROVE frozen' = frozen
      BY <3>1 DEF Submit, serverVars
    <3>2. CASE SubmitFirst(a) \/ SubmitNext(a) \/ SubmitRelease(a) \/ SubmitAbort(a)
      BY <3>1, <3>2 DEF SubmitFirst, SubmitNext, SubmitRelease, SubmitAbort
    <3>3. CASE Receive(a) \/ Retry(a) \/ Abandon(a) \/ Restart(a)
      BY <3>3 DEF Receive, Retry, Abandon, Restart, serverVars
    <3> QED
      BY <2>4, <3>2, <3>3 DEF Client
  <2> QED
    BY <2>1, <2>2, <2>3, <2>4 DEF Next
<1>2. ~LoadRoute
  BY <1>1 DEF LoadRoute, CleanInv, LoadedInv
<1>3. CASE UNCHANGED vars
  <2>1. /\ UNCHANGED <<router, frozen, queue, lookahead, batch, incarnation,
                       pending, inbox, closing, ended, binding>>
        /\ UNCHANGED actorVars
    BY <1>3 DEF vars, serverVars, actorVars
  <2>2. OnTheWay' = OnTheWay
    BY <2>1 DEF OnTheWay
  <2>3. ASSUME NEW a, NEW ss, Done(a, ss) PROVE Done(a, ss)'
    <3>1. Closed(a, ss)'
      BY <2>1, <2>3 DEF Done, Closed, Cleanup
    <3>2. Undecoded(a, ss)'
      BY <2>1, <2>2, <2>3 DEF Done, Undecoded, Cleanup, Mine
    <3>3. Unheld(a, ss)'
      BY <2>1, <2>3 DEF Done, Unheld, KeyOf
    <3> QED
      BY <3>1, <3>2, <3>3 DEF Done
  <2>4. StaysDone
    BY <2>3 DEF StaysDone
  <2>5. StaysServed
    BY <2>1, <2>4, WaitingServes
  <2>6. NothingNew
    BY <2>2 DEF NothingNew, SameBut
  <2> QED
    BY <1>1, <2>1, <2>5, <2>6, QuietRetries
<1>4. CASE \E a \in Actor : Client(a)
  BY <1>1, <1>4, ClientRetries
<1> QED
  BY <1>1, <1>2, <1>3, <1>4, PublishRetries, DrainRetries, ServeReplayRetries,
     ServeDecodeRetries, ServeReleaseRetries, ServeAbortRetries DEF Next, Server

LEMMA RetriesHarmless ==
    ASSUME Roomy, Large, StateInv, CleanInv, RetryInv
    PROVE  RetriesAreSafe
<1> SUFFICES ASSUME ~frozen, NEW a \in Actor, NEW i \in DOMAIN inbox[a],
                    NEW p, p = inbox[a][i]
             PROVE  \/ p.ok
                    \/ p.incarnation # incarnation[a]
                    \/ p.id \notin DOMAIN pending[a]
                    \/ \E j \in 1..(i - 1) : RequestKey(inbox[a][j]) = RequestKey(p)
  BY DEF RetriesAreSafe
<1>1. p \in Range(inbox[a])
  BY DEF Range
<1>2. p.actor = a
  BY <1>1 DEF CleanInv, AnswerInv
<1>3. Mine(p) <=> p.incarnation = incarnation[a]
  BY <1>2 DEF Mine
<1> QED
  BY <1>3 DEF RetryInv, RefusedInv

\* With room for a lease of every sequence of the running processes, and to
\* remember those that were released, a retry is harmless: no request that a
\* process still waits for is refused, whatever was answered late, however often
\* it asked and whatever the replay cache forgot.
THEOREM RetriesSafe ==
    ASSUME Roomy, Large
    PROVE  Spec => []RetriesAreSafe
<1>1. Init => StateInv /\ CleanInv /\ ArtifactInv /\ RetryInv
  BY InitState, InitCleans, InitServes, InitRetries
<1>2. StateInv /\ CleanInv /\ ArtifactInv /\ RetryInv /\ [Next]_vars
         => (StateInv /\ CleanInv /\ ArtifactInv /\ RetryInv)'
  BY NextState, NextCleans, NextServes, NextRetries
<1>3. StateInv /\ CleanInv /\ RetryInv => RetriesAreSafe
  BY RetriesHarmless
<1> QED
  BY <1>1, <1>2, <1>3, PTL DEF Spec

=============================================================================
