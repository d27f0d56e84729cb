--------------------------- MODULE Retrieval_proofs ---------------------------
(***************************************************************************)
(* Proofs about Retrieval for any corpus and any requests.                 *)
(*                                                                         *)
(* Nothing in the pipeline needs more of an order than its range, its head *)
(* or that no place occurs twice, so the lemmas about ByKey, Kept and the  *)
(* helpers made of them say just that.  Sums are cardinalities, and their  *)
(* laws those of finite sets.                                              *)
(***************************************************************************)
EXTENDS Retrieval, SequenceTheorems, FiniteSetTheorems, WellFoundedInduction, TLAPS

LEMMA Induction ==
    ASSUME NEW S \in SUBSET Nat, 0 \in S, \A n \in S : n + 1 \in S
    PROVE  S = Nat
  <1> SUFFICES ASSUME Nat \ S # {}
               PROVE  FALSE
    OBVIOUS
  <1>1. PICK m \in Nat \ S : \A y \in Nat \ S : ~(<<y, m>> \in OpToRel(<, Nat))
    BY NatLessThanWellFounded, WFMin, Zenon
  <1>2. \A y \in Nat \ S : ~(y < m)
    BY <1>1 DEF OpToRel
  <1>3. m # 0
    OBVIOUS
  <1>4. m - 1 \in S
    BY <1>2, <1>3
  <1> QED  BY <1>4

\* A loop over L rounds from start, by step, has a value after each round.
IsLoop(f, V, start, L, step) ==
    /\ f \in [0 .. L -> V]
    /\ f[0] = start
    /\ \A n \in 1 .. L : f[n] = step[<<n, f[n - 1]>>]

LEMMA Recursion ==
    ASSUME NEW V, NEW start \in V, NEW L \in Nat, NEW step \in [(1 .. L) \X V -> V]
    PROVE  \E f : IsLoop(f, V, start, L, step)
  <1> DEFINE Loop(k, f) == f[0] = start /\ \A n \in 1 .. k : f[n] = step[<<n, f[n - 1]>>]
             S == {k \in Nat : k <= L => \E f \in [0 .. k -> V] : Loop(k, f)}
  <1>1. 0 \in S
    <2>1. [n \in 0 .. 0 |-> start] \in [0 .. 0 -> V]
      OBVIOUS
    <2>2. Loop(0, [n \in 0 .. 0 |-> start])
      OBVIOUS
    <2> QED  BY <2>1, <2>2
  <1>2. ASSUME NEW k \in S
        PROVE  k + 1 \in S
    <2> SUFFICES ASSUME k + 1 <= L
                 PROVE  \E f \in [0 .. k + 1 -> V] : Loop(k + 1, f)
      OBVIOUS
    <2>1. PICK f \in [0 .. k -> V] : Loop(k, f)
      OBVIOUS
    <2> DEFINE g == [n \in 0 .. k + 1 |-> IF n <= k THEN f[n]
                                          ELSE step[<<k + 1, f[k]>>]]
    <2>2. g \in [0 .. k + 1 -> V]
      <3>1. f[k] \in V /\ k + 1 \in 1 .. L
        OBVIOUS
      <3>2. step[<<k + 1, f[k]>>] \in V
        BY <3>1
      <3> QED  BY <3>2
    <2>3. \A n \in 0 .. k : g[n] = f[n]
      OBVIOUS
    <2>4. g[k + 1] = step[<<k + 1, f[k]>>]
      OBVIOUS
    <2>5. Loop(k + 1, g)
      <3> HIDE DEF g
      <3>1. g[0] = start
        BY <2>1, <2>3
      <3>2. ASSUME NEW n \in 1 .. k + 1
            PROVE  g[n] = step[<<n, g[n - 1]>>]
        <4>1. CASE n \in 1 .. k
          <5>1. n - 1 \in 0 .. k /\ n \in 0 .. k
            BY <4>1
          <5> QED  BY <2>1, <2>3, <4>1, <5>1
        <4>2. CASE n = k + 1
          BY <2>3, <2>4, <4>2
        <4> QED  BY <4>1, <4>2
      <3> QED  BY <3>1, <3>2
    <2> QED  BY <2>2, <2>5
  <1>3. S = Nat
    <2> HIDE DEF S
    <2>1. S \in SUBSET Nat
      BY DEF S
    <2> QED  BY <1>1, <1>2, <2>1, Induction
  <1>4. PICK f \in [0 .. L -> V] : Loop(L, f)
    BY <1>3
  <1> QED  BY <1>4 DEF IsLoop

-----------------------------------------------------------------------------
(***************************************************************************)
(* Orders and selections.                                                  *)
(***************************************************************************)
LEMMA SameSize ==
    ASSUME NEW S, IsFiniteSet(S), NEW T, NEW f \in [S -> T],
           \A x, y \in S : f[x] = f[y] => x = y, \A y \in T : \E x \in S : f[x] = y
    PROVE  IsFiniteSet(T) /\ Cardinality(T) = Cardinality(S)
  <1>1. f \in Bijection(S, T)
    BY DEF Bijection, Injection, Surjection, IsInjective
  <1> QED  BY <1>1, FS_Bijection DEF ExistsBijection

IsKey(S, key) == /\ \A c \in S : key[c] \in Nat
                 /\ \A c, d \in S : key[c] = key[d] => c = d

LEMMA ByKeyIs ==
    ASSUME NEW S, IsFiniteSet(S), NEW key, IsKey(S, key)
    PROVE  /\ ByKey(S, key) \in Seq(S)
           /\ Len(ByKey(S, key)) = Cardinality(S) /\ Cardinality(S) \in Nat
           /\ \A c \in S : \E k \in 1 .. Cardinality(S) : ByKey(S, key)[k] = c
           /\ \A i, j \in 1 .. Cardinality(S) : i < j => key[ByKey(S, key)[i]] < key[ByKey(S, key)[j]]
  <1> DEFINE n == Cardinality(S)
             below(c) == {d \in S : key[d] <= key[c]}
             rank == [c \in S |-> Cardinality(below(c))]
             s == ByKey(S, key)
  <1>1. n \in Nat
    BY FS_CardinalityType
  <1>2. ASSUME NEW c \in S
        PROVE  /\ IsFiniteSet(below(c)) /\ rank[c] \in 1 .. n
    <2>1. IsFiniteSet(below(c)) /\ Cardinality(below(c)) <= n
      BY FS_Subset
    <2>2. Cardinality(below(c)) \in Nat
      BY <2>1, FS_CardinalityType
    <2>3. c \in below(c)
      BY DEF IsKey
    <2>4. Cardinality(below(c)) # 0
      BY <2>1, <2>3, FS_EmptySet
    <2> QED  BY <1>1, <2>1, <2>2, <2>4
  <1>3. ASSUME NEW c \in S, NEW d \in S, key[c] < key[d]
        PROVE  rank[c] < rank[d]
    <2>1. key[c] \in Nat /\ key[d] \in Nat /\ \A e \in S : key[e] \in Nat
      BY DEF IsKey
    <2>2. below(c) \in SUBSET below(d) /\ d \in below(d) /\ d \notin below(c)
      BY <1>3, <2>1
    <2>3. Cardinality(below(c)) <= Cardinality(below(d)) /\ Cardinality(below(c)) # Cardinality(below(d))
      BY <1>2, <2>2, FS_Subset
    <2> QED  BY <1>1, <1>2, <2>3
  <1>4. \A c, d \in S : rank[c] = rank[d] => c = d
    <2> SUFFICES ASSUME NEW c \in S, NEW d \in S, c # d
                 PROVE  rank[c] # rank[d]
      OBVIOUS
    <2>1. key[c] \in Nat /\ key[d] \in Nat /\ key[c] # key[d]
      BY DEF IsKey
    <2>2. key[c] < key[d] \/ key[d] < key[c]
      BY <2>1
    <2> QED  BY <1>1, <1>2, <1>3, <2>2
  <1>5. \A k \in 1 .. n : \E c \in S : rank[c] = k
    <2>1. rank \in Injection(S, 1 .. n)
      BY <1>2, <1>4 DEF Injection, IsInjective
    <2>2. IsFiniteSet(1 .. n) /\ Cardinality(1 .. n) = n
      BY <1>1, FS_Interval
    <2>3. rank \in Surjection(S, 1 .. n)
      BY <2>1, <2>2, FS_Injection
    <2> QED  BY <2>3 DEF Surjection
  <1>6. s = [k \in 1 .. n |-> CHOOSE c \in S : Cardinality(below(c)) = k]
    BY DEF ByKey
  <1>7. ASSUME NEW k \in 1 .. n
        PROVE  s[k] \in S /\ rank[s[k]] = k
    <2>1. s[k] = CHOOSE c \in S : Cardinality(below(c)) = k
      BY <1>6
    <2>2. \E c \in S : Cardinality(below(c)) = k
      BY <1>5
    <2> QED  BY <2>1, <2>2
  <1> HIDE DEF s, rank
  <1>8. s \in Seq(S) /\ Len(s) = n
    <2> DEFINE pick(k) == CHOOSE c \in S : Cardinality(below(c)) = k
    <2>1. \A k \in 1 .. n : pick(k) \in S
      BY <1>6, <1>7
    <2> HIDE DEF n, pick
    <2>2. [k \in 1 .. n |-> pick(k)] \in [1 .. n -> S]
      BY <2>1
    <2>3. s = [k \in 1 .. n |-> pick(k)]
      BY <1>6 DEF pick
    <2> QED  BY <1>1, <2>2, <2>3
  <1>9. \A c \in S : \E k \in 1 .. n : s[k] = c
    BY <1>2, <1>4, <1>7
  <1>10. \A i, j \in 1 .. n : i < j => key[s[i]] < key[s[j]]
    <2> SUFFICES ASSUME NEW i \in 1 .. n, NEW j \in 1 .. n, i < j
                 PROVE  key[s[i]] < key[s[j]]
      OBVIOUS
    <2>1. s[i] \in S /\ s[j] \in S /\ rank[s[i]] = i /\ rank[s[j]] = j
      BY <1>7
    <2>2. key[s[i]] \in Nat /\ key[s[j]] \in Nat
      BY <2>1 DEF IsKey
    <2>3. ~(key[s[j]] < key[s[i]])
      BY <1>3, <2>1
    <2>4. key[s[j]] # key[s[i]]
      BY <2>1 DEF IsKey
    <2> QED  BY <2>2, <2>3, <2>4
  <1> QED  BY <1>1, <1>8, <1>9, <1>10 DEF s

LEMMA PlacesIs ==
    ASSUME NEW P \in SUBSET Nat, IsFiniteSet(P)
    PROVE  /\ Places(P) \in Seq(P) /\ ToSet(Places(P)) = P
           /\ Len(Places(P)) = Cardinality(P) /\ Cardinality(P) \in Nat
           /\ \A i, j \in 1 .. Len(Places(P)) : i < j => Places(P)[i] < Places(P)[j]
  <1> DEFINE key == [i \in P |-> i]
  <1>1. \A i \in P : key[i] = i /\ i \in Nat
    OBVIOUS
  <1>2. IsKey(P, key) /\ Places(P) = ByKey(P, key)
    BY <1>1 DEF IsKey, Places
  <1> HIDE DEF key
  <1>3. /\ Places(P) \in Seq(P)
        /\ Len(Places(P)) = Cardinality(P) /\ Cardinality(P) \in Nat
        /\ \A c \in P : \E k \in 1 .. Cardinality(P) : Places(P)[k] = c
        /\ \A i, j \in 1 .. Cardinality(P) : i < j => key[Places(P)[i]] < key[Places(P)[j]]
    BY <1>2, ByKeyIs
  <1> DEFINE s == Places(P)
             n == Len(s)
  <1> HIDE DEF s
  <1>4. s \in Seq(P) /\ n \in Nat /\ DOMAIN s = 1 .. n /\ \A i \in 1 .. n : s[i] \in P
    BY <1>3 DEF s
  <1>5. ToSet(s) = P
    BY <1>3, <1>4 DEF ToSet, s
  <1>6. \A i, j \in 1 .. n : i < j => key[s[i]] < key[s[j]]
    BY <1>3 DEF s
  <1>7. \A i, j \in 1 .. n : i < j => s[i] < s[j]
    BY <1>1, <1>4, <1>6
  <1> QED  BY <1>3, <1>5, <1>7 DEF s

LEMMA ChunksAreFinite == ASSUME NEW S \in SUBSET Chunk PROVE IsFiniteSet(S)
  BY PackingAssumption, FS_Subset

LEMMA InOrderIs ==
    ASSUME NEW S \in SUBSET Chunk
    PROVE  /\ InOrder(S) \in Seq(S) /\ ToSet(InOrder(S)) = S
           /\ Len(InOrder(S)) = Cardinality(S) /\ Cardinality(S) \in Nat
  <1>1. IsKey(S, Position) /\ IsFiniteSet(S) /\ InOrder(S) = ByKey(S, Position)
    BY PackingAssumption, ChunksAreFinite DEF IsKey, InOrder
  <1>2. /\ InOrder(S) \in Seq(S)
        /\ Len(InOrder(S)) = Cardinality(S) /\ Cardinality(S) \in Nat
        /\ \A c \in S : \E k \in 1 .. Cardinality(S) : InOrder(S)[k] = c
    BY <1>1, ByKeyIs
  <1>3. \A i \in 1 .. Len(InOrder(S)) : InOrder(S)[i] \in S
    BY <1>2
  <1>4. ToSet(InOrder(S)) = S
    BY <1>2, <1>3 DEF ToSet
  <1> QED  BY <1>2, <1>4

LEMMA RankedIs ==
    ASSUME NEW S, IsFiniteSet(S), NEW seq \in Ranked(S)
    PROVE  seq \in Seq(S) /\ ToSet(seq) = S
  <1> DEFINE n == Cardinality(S)
  <1>1. n \in Nat /\ IsFiniteSet(1 .. n) /\ Cardinality(1 .. n) = n
    BY FS_CardinalityType, FS_Interval
  <1>2. seq \in [1 .. n -> S] /\ \A i, j \in 1 .. n : i # j => seq[i] # seq[j]
    BY DEF Ranked, SetToSeqs
  <1>3. seq \in Injection(1 .. n, S)
    BY <1>2 DEF Injection, IsInjective
  <1>4. seq \in Surjection(1 .. n, S)
    BY <1>1, <1>3, FS_Injection
  <1>5. \A c \in S : \E k \in 1 .. n : seq[k] = c
    BY <1>4 DEF Surjection
  <1> HIDE DEF n
  <1> QED  BY <1>1, <1>2, <1>5 DEF ToSet

LEMMA InDomain ==
    ASSUME NEW T, NEW seq \in Seq(T), NEW P \in SUBSET DOMAIN seq
    PROVE  /\ P \in SUBSET Nat /\ IsFiniteSet(P)
           /\ Places(P) \in Seq(P) /\ Places(P) \in Seq(DOMAIN seq) /\ ToSet(Places(P)) = P
  <1>1. Len(seq) \in Nat /\ DOMAIN seq = 1 .. Len(seq)
    OBVIOUS
  <1>2. IsFiniteSet(DOMAIN seq) /\ P \in SUBSET Nat
    BY <1>1, FS_Interval
  <1>3. IsFiniteSet(P)
    BY <1>2, FS_Subset
  <1>4. Places(P) \in Seq(P) /\ ToSet(Places(P)) = P
    BY <1>2, <1>3, PlacesIs
  <1>5. Places(P) \in Seq(DOMAIN seq)
    BY <1>4
  <1> QED  BY <1>2, <1>3, <1>4, <1>5

LEMMA RangeIs ==
    ASSUME NEW T, NEW seq \in Seq(T)
    PROVE  /\ ToSet(seq) \in SUBSET T /\ \A c \in ToSet(seq) : \E i \in 1 .. Len(seq) : seq[i] = c
           /\ \A i \in 1 .. Len(seq) : seq[i] \in ToSet(seq) /\ seq \in Seq(ToSet(seq))
  BY DEF ToSet

LEMMA AtIs ==
    ASSUME NEW T, NEW seq \in Seq(T), NEW places \in Seq(DOMAIN seq)
    PROVE  /\ At(seq, places) \in Seq(T) /\ Len(At(seq, places)) = Len(places)
           /\ \A k \in 1 .. Len(places) : At(seq, places)[k] = seq[places[k]]
           /\ ToSet(At(seq, places)) = {seq[i] : i \in ToSet(places)}
  <1>1. /\ DOMAIN places = 1 .. Len(places) /\ Len(places) \in Nat
        /\ \A k \in 1 .. Len(places) : seq[places[k]] \in T
    OBVIOUS
  <1> DEFINE s == [k \in 1 .. Len(places) |-> seq[places[k]]]
  <1>2. s \in Seq(T) /\ Len(s) = Len(places)
    BY <1>1
  <1>3. At(seq, places) = s
    BY <1>1 DEF At
  <1>4. \A k \in 1 .. Len(places) : s[k] = seq[places[k]]
    OBVIOUS
  <1> HIDE DEF s
  <1>5. ToSet(s) = {seq[i] : i \in ToSet(places)}
    <2>1. ToSet(s) = {s[k] : k \in 1 .. Len(places)} /\ ToSet(places) = {places[k] : k \in 1 .. Len(places)}
      BY <1>1, <1>2 DEF ToSet
    <2> QED  BY <1>4, <2>1
  <1> QED  BY <1>2, <1>3, <1>4, <1>5

Where(seq, S) == {i \in DOMAIN seq : seq[i] \in S}

LEMMA KeptPlaces ==
    ASSUME NEW T, NEW seq \in Seq(T), NEW S, NEW pl, pl = Places(Where(seq, S))
    PROVE  /\ pl \in Seq(DOMAIN seq) /\ ToSet(pl) = Where(seq, S)
           /\ \A i, j \in 1 .. Len(pl) : i < j => pl[i] < pl[j]
           /\ Kept(S, seq) \in Seq(T) /\ Len(Kept(S, seq)) = Len(pl)
           /\ \A k \in 1 .. Len(pl) : Kept(S, seq)[k] = seq[pl[k]]
           /\ ToSet(Kept(S, seq)) = {seq[i] : i \in ToSet(pl)}
  <1> DEFINE P == Where(seq, S)
  <1>1. Kept(S, seq) = At(seq, pl)
    BY DEF Kept, Where
  <1>2. P \subseteq DOMAIN seq /\ pl = Places(P)
    BY DEF Where
  <1> HIDE DEF P
  <1>3. P \in SUBSET Nat /\ IsFiniteSet(P) /\ pl \in Seq(DOMAIN seq) /\ ToSet(pl) = P
    BY <1>2, InDomain
  <1>4. \A i, j \in 1 .. Len(pl) : i < j => pl[i] < pl[j]
    <2>1. \A i, j \in 1 .. Len(Places(P)) : i < j => Places(P)[i] < Places(P)[j]
      BY <1>3, PlacesIs
    <2> QED  BY <1>2, <2>1
  <1>5. /\ At(seq, pl) \in Seq(T) /\ Len(At(seq, pl)) = Len(pl)
        /\ \A k \in 1 .. Len(pl) : At(seq, pl)[k] = seq[pl[k]]
        /\ ToSet(At(seq, pl)) = {seq[i] : i \in ToSet(pl)}
    <2>1. pl \in Seq(DOMAIN seq)
      BY <1>3
    <2> QED  BY <2>1, AtIs
  <1> QED  BY <1>1, <1>3, <1>4, <1>5 DEF P

LEMMA KeptIs ==
    ASSUME NEW T, NEW seq \in Seq(T), NEW S
    PROVE  /\ Kept(S, seq) \in Seq(T \cap S) /\ Kept(S, seq) \in Seq(T)
           /\ ToSet(Kept(S, seq)) = ToSet(seq) \cap S
  <1> DEFINE P == Where(seq, S)
             pl == Places(P)
  <1> HIDE DEF pl
  <1>1. /\ pl \in Seq(DOMAIN seq) /\ ToSet(pl) = P
        /\ Kept(S, seq) \in Seq(T) /\ Len(Kept(S, seq)) = Len(pl)
        /\ \A k \in 1 .. Len(pl) : Kept(S, seq)[k] = seq[pl[k]]
        /\ ToSet(Kept(S, seq)) = {seq[i] : i \in ToSet(pl)}
    <2>1. pl = Places(Where(seq, S))
      BY DEF pl
    <2> QED  BY <2>1, KeptPlaces
  <1>2. \A k \in 1 .. Len(pl) : pl[k] \in P
    <2>1. \A k \in 1 .. Len(pl) : pl[k] \in ToSet(pl)
      BY <1>1, RangeIs
    <2> QED  BY <1>1, <2>1
  <1>3. \A k \in 1 .. Len(pl) : Kept(S, seq)[k] \in T \cap S
    BY <1>1, <1>2 DEF Where
  <1>4. Kept(S, seq) \in Seq(T \cap S)
    BY <1>1, <1>3
  <1>5. ToSet(Kept(S, seq)) = ToSet(seq) \cap S
    <2>1. ToSet(seq) = {seq[i] : i \in DOMAIN seq}
      BY DEF ToSet
    <2>2. \A i \in DOMAIN seq : i \in P <=> seq[i] \in S
      BY DEF Where
    <2>3. P \subseteq DOMAIN seq /\ ToSet(Kept(S, seq)) = {seq[i] : i \in P}
      BY <1>1 DEF Where
    <2> HIDE DEF P
    <2> QED  BY <2>1, <2>2, <2>3
  <1> QED  BY <1>1, <1>4, <1>5

LEMMA FirstIs ==
    ASSUME NEW T, NEW seq \in Seq(T), NEW n \in Nat
    PROVE  /\ First(seq, n) \in Seq(T) /\ Len(First(seq, n)) = Least(n, Len(seq))
           /\ Len(First(seq, n)) \in Nat /\ Len(First(seq, n)) <= n /\ Len(First(seq, n)) <= Len(seq)
           /\ \A i \in 1 .. Len(First(seq, n)) : First(seq, n)[i] = seq[i]
           /\ ToSet(First(seq, n)) \subseteq ToSet(seq)
  <1> DEFINE m == Least(n, Len(seq))
  <1>1. m \in Nat /\ m <= Len(seq) /\ m <= n
    BY DEF Least
  <1>2. First(seq, n) = SubSeq(seq, 1, m)
    BY DEF First
  <1> HIDE DEF m
  <1>3. /\ SubSeq(seq, 1, m) \in Seq(T) /\ Len(SubSeq(seq, 1, m)) = m
        /\ \A i \in 1 .. m : SubSeq(seq, 1, m)[i] = seq[i]
    BY <1>1
  <1>4. ToSet(SubSeq(seq, 1, m)) \subseteq ToSet(seq)
    BY <1>1, <1>3 DEF ToSet
  <1> QED  BY <1>1, <1>2, <1>3, <1>4 DEF m

LEMMA JoinIs ==
    ASSUME NEW T, NEW s \in Seq(T), NEW t \in Seq(T)
    PROVE  /\ s \o t \in Seq(T) /\ Len(s \o t) = Len(s) + Len(t)
           /\ \A i \in 1 .. Len(s) : (s \o t)[i] = s[i]
           /\ \A i \in 1 .. Len(t) : (s \o t)[Len(s) + i] = t[i]
           /\ ToSet(s \o t) = ToSet(s) \cup ToSet(t)
  <1>1. /\ s \o t \in Seq(T) /\ Len(s \o t) = Len(s) + Len(t)
        /\ Len(s) \in Nat /\ Len(t) \in Nat
        /\ \A i \in 1 .. Len(s) : (s \o t)[i] = s[i]
        /\ \A i \in 1 .. Len(t) : (s \o t)[Len(s) + i] = t[i]
    OBVIOUS
  <1>2. ToSet(s \o t) \subseteq ToSet(s) \cup ToSet(t)
    <2> SUFFICES ASSUME NEW k \in 1 .. Len(s) + Len(t)
                 PROVE  (s \o t)[k] \in ToSet(s) \cup ToSet(t)
      BY <1>1 DEF ToSet
    <2>1. CASE k <= Len(s)
      BY <1>1, <2>1 DEF ToSet
    <2>2. CASE k > Len(s)
      <3>1. k - Len(s) \in 1 .. Len(t) /\ Len(s) + (k - Len(s)) = k
        BY <1>1, <2>2
      <3>2. (s \o t)[k] = t[k - Len(s)]
        BY <1>1, <3>1
      <3> QED  BY <3>1, <3>2 DEF ToSet
    <2> QED  BY <1>1, <2>1, <2>2
  <1>3. ToSet(s) \subseteq ToSet(s \o t)
    BY <1>1 DEF ToSet
  <1>4. ToSet(t) \subseteq ToSet(s \o t)
    <2> SUFFICES ASSUME NEW i \in 1 .. Len(t)
                 PROVE  t[i] \in ToSet(s \o t)
      BY <1>1 DEF ToSet
    <2>1. Len(s) + i \in 1 .. Len(s \o t) /\ (s \o t)[Len(s) + i] = t[i]
      BY <1>1
    <2> QED  BY <1>1, <2>1 DEF ToSet
  <1> QED  BY <1>1, <1>2, <1>3, <1>4

LEMMA NoneIsEmpty == ToSet(<<>>) = {} /\ \A T : <<>> \in Seq(T) /\ Len(<<>>) = 0
  <1>1. \A T : <<>> \in Seq(T) /\ Len(<<>>) = 0
    OBVIOUS
  <1>2. \A i : i \notin DOMAIN <<>>
    OBVIOUS
  <1> QED  BY <1>1, <1>2 DEF ToSet

LEMMA FirstPerDocumentIs ==
    ASSUME NEW T, NEW seq \in Seq(T), NEW P \in SUBSET DOMAIN seq, NEW n \in Nat
    PROVE  /\ FirstPerDocument(seq, P, n) \in Seq(DOMAIN seq)
           /\ ToSet(FirstPerDocument(seq, P, n)) \subseteq P
  <1> DEFINE Q == {i \in P : \A j \in P : j < i => Document[File[seq[j]]] # Document[File[seq[i]]]}
  <1>1. Q \in SUBSET DOMAIN seq /\ Q \subseteq P /\ FirstPerDocument(seq, P, n) = First(Places(Q), n)
    BY DEF FirstPerDocument
  <1> HIDE DEF Q
  <1>2. Places(Q) \in Seq(DOMAIN seq) /\ ToSet(Places(Q)) = Q
    BY <1>1, InDomain
  <1> QED  BY <1>1, <1>2, FirstIs

LEMMA LeadIs ==
    ASSUME NEW T, NEW seq \in Seq(T), NEW places \in Seq(DOMAIN seq)
    PROVE  /\ Lead(seq, places) \in Seq(T) /\ ToSet(Lead(seq, places)) = ToSet(seq)
           /\ Len(places) > 0 => Len(Lead(seq, places)) > 0 /\ Lead(seq, places)[1] = seq[places[1]]
  <1> DEFINE P == DOMAIN seq \ ToSet(places)
             all == places \o Places(P)
  <1>1. /\ Places(P) \in Seq(DOMAIN seq) /\ ToSet(Places(P)) = P
    BY InDomain
  <1>2. Lead(seq, places) = At(seq, all)
    BY DEF Lead
  <1>3. ToSet(places) \subseteq DOMAIN seq /\ P = DOMAIN seq \ ToSet(places)
    BY RangeIs
  <1> HIDE DEF P
  <1>4. /\ all \in Seq(DOMAIN seq) /\ ToSet(all) = DOMAIN seq /\ Len(all) >= Len(places)
        /\ \A i \in 1 .. Len(places) : all[i] = places[i]
    <2> DEFINE more == Places(P)
    <2>1. more \in Seq(DOMAIN seq) /\ ToSet(more) = P /\ all = places \o more
      BY <1>1
    <2> HIDE DEF more, all
    <2>2. /\ all \in Seq(DOMAIN seq) /\ Len(all) = Len(places) + Len(more)
          /\ \A i \in 1 .. Len(places) : all[i] = places[i]
          /\ ToSet(all) = ToSet(places) \cup P
      BY <2>1, JoinIs
    <2>3. Len(more) \in Nat /\ Len(places) \in Nat
      BY <2>1
    <2>4. ToSet(places) \cup P = DOMAIN seq
      BY <1>3
    <2> QED  BY <2>2, <2>3, <2>4
  <1> HIDE DEF all
  <1>5. /\ At(seq, all) \in Seq(T) /\ Len(At(seq, all)) = Len(all)
        /\ \A k \in 1 .. Len(all) : At(seq, all)[k] = seq[all[k]]
        /\ ToSet(At(seq, all)) = {seq[i] : i \in ToSet(all)}
    BY <1>4, AtIs
  <1>6. ToSet(At(seq, all)) = ToSet(seq)
    BY <1>4, <1>5 DEF ToSet
  <1> QED  BY <1>2, <1>4, <1>5, <1>6

LEMMA ThenIs ==
    ASSUME NEW T, NEW s \in Seq(T), NEW t \in Seq(T)
    PROVE  /\ Then(s, t) \in Seq(T) /\ ToSet(Then(s, t)) = ToSet(s) \cup ToSet(t)
           /\ Len(s) > 0 => Len(Then(s, t)) > 0 /\ Then(s, t)[1] = s[1]
  <1> DEFINE rest == Kept(ToSet(t) \ ToSet(s), t)
  <1>1. rest \in Seq(T) /\ ToSet(rest) = ToSet(t) \cap (ToSet(t) \ ToSet(s))
    BY KeptIs
  <1>2. Then(s, t) = s \o rest
    BY DEF Then
  <1> HIDE DEF rest
  <1>3. /\ s \o rest \in Seq(T) /\ Len(s \o rest) = Len(s) + Len(rest)
        /\ \A i \in 1 .. Len(s) : (s \o rest)[i] = s[i]
        /\ ToSet(s \o rest) = ToSet(s) \cup ToSet(rest)
    BY <1>1, JoinIs
  <1> QED  BY <1>1, <1>2, <1>3

-----------------------------------------------------------------------------
(* What a sequence begins with.                                            *)

StartsWith(s, c) == Len(s) > 0 /\ s[1] = c

LEMMA KeptHead ==
    ASSUME NEW T, NEW seq \in Seq(T), NEW S, NEW c \in S, StartsWith(seq, c)
    PROVE  StartsWith(Kept(S, seq), c)
  <1> DEFINE P == Where(seq, S)
             pl == Places(P)
  <1> HIDE DEF pl
  <1>1. /\ pl \in Seq(DOMAIN seq) /\ ToSet(pl) = P
        /\ \A i, j \in 1 .. Len(pl) : i < j => pl[i] < pl[j]
        /\ Kept(S, seq) \in Seq(T) /\ Len(Kept(S, seq)) = Len(pl)
        /\ \A k \in 1 .. Len(pl) : Kept(S, seq)[k] = seq[pl[k]]
    <2>1. pl = Places(Where(seq, S))
      BY DEF pl
    <2> QED  BY <2>1, KeptPlaces
  <1>2. Len(seq) > 0 /\ seq[1] \in S /\ seq[1] = c
    BY DEF StartsWith
  <1>3. 1 \in P
    BY <1>2 DEF Where
  <1>4. PICK k \in 1 .. Len(pl) : pl[k] = 1
    BY <1>1, <1>3 DEF ToSet
  <1>5. \A i \in 1 .. Len(pl) : pl[i] \in Nat /\ pl[i] >= 1
    BY <1>1
  <1>6. k = 1
    <2> SUFFICES ASSUME k # 1
                 PROVE  FALSE
      OBVIOUS
    <2>1. 1 < k /\ 1 \in 1 .. Len(pl)
      BY <1>4
    <2>2. pl[1] < 1
      BY <1>1, <1>4, <2>1
    <2> QED  BY <1>5, <2>1, <2>2
  <1> QED  BY <1>1, <1>2, <1>4, <1>6 DEF StartsWith

LEMMA FirstHead ==
    ASSUME NEW T, NEW seq \in Seq(T), NEW c, StartsWith(seq, c), NEW n \in Nat \ {0}
    PROVE  StartsWith(First(seq, n), c)
  <1>1. Len(seq) > 0 /\ seq[1] = c /\ Len(seq) \in Nat
    BY DEF StartsWith
  <1>2. /\ First(seq, n) \in Seq(T) /\ Len(First(seq, n)) = Least(n, Len(seq))
        /\ \A i \in 1 .. Len(First(seq, n)) : First(seq, n)[i] = seq[i]
    BY FirstIs
  <1>3. Least(n, Len(seq)) > 0
    BY <1>1 DEF Least
  <1> QED  BY <1>1, <1>2, <1>3 DEF StartsWith

LEMMA JoinHead ==
    ASSUME NEW T, NEW s \in Seq(T), NEW t \in Seq(T), NEW c
    PROVE  /\ StartsWith(s, c) => StartsWith(s \o t, c)
           /\ Len(s) = 0 => s \o t = t
  <1>1. /\ s \o t \in Seq(T) /\ Len(s \o t) = Len(s) + Len(t) /\ Len(s) \in Nat /\ Len(t) \in Nat
        /\ \A i \in 1 .. Len(s) : (s \o t)[i] = s[i]
    BY JoinIs
  <1>2. StartsWith(s, c) => StartsWith(s \o t, c)
    BY <1>1 DEF StartsWith
  <1>3. Len(s) = 0 => s \o t = t
    OBVIOUS
  <1> QED  BY <1>2, <1>3

LEMMA ThenHead ==
    ASSUME NEW T, NEW s \in Seq(T), NEW t \in Seq(T), NEW c
    PROVE  /\ StartsWith(s, c) => StartsWith(Then(s, t), c)
           /\ Len(s) = 0 /\ StartsWith(t, c) => StartsWith(Then(s, t), c)
  <1> DEFINE rest == Kept(ToSet(t) \ ToSet(s), t)
  <1>1. rest \in Seq(T)
    BY KeptIs
  <1>2. Then(s, t) = s \o rest
    BY DEF Then
  <1>3. ASSUME Len(s) = 0, StartsWith(t, c)
        PROVE  StartsWith(rest, c)
    <2>1. c \in ToSet(t) \ ToSet(s)
      BY <1>3 DEF StartsWith, ToSet
    <2> DEFINE S == ToSet(t) \ ToSet(s)
    <2> HIDE DEF S
    <2>2. StartsWith(Kept(S, t), c)
      BY <1>3, <2>1, KeptHead DEF S
    <2> QED  BY <2>2 DEF S
  <1> HIDE DEF rest
  <1>4. /\ StartsWith(s, c) => StartsWith(s \o rest, c)
        /\ Len(s) = 0 => s \o rest = rest
    BY <1>1, JoinHead
  <1> QED  BY <1>2, <1>3, <1>4

LEMMA LeadHead ==
    ASSUME NEW T, NEW seq \in Seq(T), NEW places \in Seq(DOMAIN seq), NEW c, Len(seq) > 0,
           IF places = <<>> THEN seq[1] = c ELSE seq[places[1]] = c
    PROVE  StartsWith(Lead(seq, places), c)
  <1>1. CASE Len(places) > 0
    <2>1. Len(Lead(seq, places)) > 0 /\ Lead(seq, places)[1] = seq[places[1]]
      BY <1>1, LeadIs
    <2>2. places # <<>>
      BY <1>1
    <2> QED  BY <2>1, <2>2 DEF StartsWith
  <1>2. CASE Len(places) = 0
    <2> DEFINE pl == Places(DOMAIN seq)
    <2>1. pl \in Seq(DOMAIN seq)
      BY InDomain
    <2>2. places = <<>>
      BY <1>2
    <2>3. DOMAIN seq \ ToSet(places) = DOMAIN seq
      BY <2>2, NoneIsEmpty
    <2>4. Lead(seq, places) = At(seq, places \o pl)
      BY <2>3, Zenon DEF Lead
    <2>5. places \o pl = pl
      BY <2>1, <2>2
    <2>6. {i \in DOMAIN seq : seq[i] \in ToSet(seq)} = DOMAIN seq
      BY DEF ToSet
    <2>7. Kept(ToSet(seq), seq) = At(seq, Places({i \in DOMAIN seq : seq[i] \in ToSet(seq)}))
      BY DEF Kept
    <2>8. Lead(seq, places) = Kept(ToSet(seq), seq)
      BY <2>4, <2>5, <2>6, <2>7
    <2>9. c \in ToSet(seq) /\ StartsWith(seq, c)
      BY <2>2 DEF ToSet, StartsWith
    <2> DEFINE S == ToSet(seq)
    <2>10. c \in S
      BY <2>9
    <2> HIDE DEF S
    <2>11. StartsWith(Kept(S, seq), c)
      BY <2>9, <2>10, KeptHead
    <2> QED  BY <2>8, <2>11 DEF S
  <1> QED  BY <1>1, <1>2


-----------------------------------------------------------------------------
(***************************************************************************)
(* What the stages return: sequences over the passages they were given.    *)
(***************************************************************************)
LEMMA LeastExists ==
    ASSUME NEW S \in SUBSET Nat, S # {}
    PROVE  Min(S) \in S /\ \A x \in S : Min(S) <= x
  <1>1. PICK m \in S : \A y \in S : ~(<<y, m>> \in OpToRel(<, Nat))
    BY NatLessThanWellFounded, WFMin, Zenon
  <1>2. \A y \in S : ~(y < m)
    BY <1>1 DEF OpToRel
  <1>3. \E x \in S : \A y \in S : x <= y
    BY <1>2
  <1>4. Min(S) = CHOOSE x \in S : \A y \in S : x <= y
    BY DEF Min
  <1> QED  BY <1>3, <1>4

LEMMA RequestIs ==
    ASSUME r \in Requests
    PROVE  /\ r.topk \in Nat /\ r.topk >= 1
           /\ r.hits \in [ToSet(Channels) -> SUBSET Chunk] /\ r.entity \subseteq Chunk /\ r.direct \subseteq Chunk
           /\ IsFiniteSet(r.subjects) /\ r.topics \in Seq(ToSet(r.topics))
           /\ r.domains \in Seq({"rre", "orem"}) /\ Len(r.domains) <= 2
  BY RequestAssumption

LEMMA UptoIs ==
    ASSUME NEW T, NEW seq \in Seq(T), NEW named \in Seq(DOMAIN seq), NEW P \in SUBSET DOMAIN seq,
           NEW n \in Nat
    PROVE  /\ Upto(seq, named, P, n) \in Seq(DOMAIN seq)
           /\ \A c : StartsWith(named, c) => StartsWith(Upto(seq, named, P, n), c)
           /\ P = {} => Upto(seq, named, P, n) = named
  <1> DEFINE Q == P \ ToSet(named)
             m == Most(0, n - Len(named))
             more == First(Places(Q), m)
  <1>1. m \in Nat
    BY DEF Most
  <1>2. Q \in SUBSET DOMAIN seq /\ Upto(seq, named, P, n) = named \o more
    BY DEF Upto
  <1> HIDE DEF Q, m
  <1>3. Places(Q) \in Seq(DOMAIN seq) /\ ToSet(Places(Q)) = Q
    BY <1>2, InDomain
  <1>4. more \in Seq(DOMAIN seq) /\ ToSet(more) \subseteq Q
    BY <1>1, <1>3, FirstIs
  <1> HIDE DEF more
  <1>5. named \o more \in Seq(DOMAIN seq) /\ \A c : StartsWith(named, c) => StartsWith(named \o more, c)
    BY <1>4, JoinIs, JoinHead
  <1>6. P = {} => named \o more = named
    <2> SUFFICES ASSUME P = {}
                 PROVE  named \o more = named
      OBVIOUS
    <2>1. ToSet(more) = {}
      BY <1>4 DEF Q
    <2>2. Len(more) = 0
      BY <1>4, <2>1, RangeIs
    <2>3. more = <<>>
      BY <1>4, <2>2
    <2> QED  BY <2>3
  <1> QED  BY <1>2, <1>5, <1>6

LEMMA TopicFirstIs ==
    ASSUME r \in Requests, NEW T, NEW seq \in Seq(T)
    PROVE  /\ TopicFirst(seq) \in Seq(T)
           /\ r.topics = <<>> => ToSet(TopicFirst(seq)) = ToSet(seq)
           /\ \A c : r.topics = <<>> /\ StartsWith(seq, c) => StartsWith(TopicFirst(seq), c)
  <1> DEFINE of(doc) == {i \in DOMAIN seq : Document[File[seq[i]]] = doc}
             D == {doc \in ToSet(r.topics) : of(doc) # {}}
             all == Kept(D, r.topics)
             found == First(all, r.topk)
             places == [k \in DOMAIN found |-> Min(of(found[k]))]
  <1>1. TopicFirst(seq) = IF Len(places) = r.topk THEN At(seq, places) ELSE Lead(seq, places)
    BY DEF TopicFirst
  <1>2. /\ r.topics \in Seq(ToSet(r.topics)) /\ r.topk \in Nat /\ r.topk >= 1
    BY RequestIs
  <1>3. \A doc \in D : Min(of(doc)) \in DOMAIN seq
    <2> SUFFICES ASSUME NEW doc \in D
                 PROVE  Min(of(doc)) \in DOMAIN seq
      OBVIOUS
    <2>1. of(doc) # {} /\ of(doc) \in SUBSET Nat /\ of(doc) \subseteq DOMAIN seq
      OBVIOUS
    <2> HIDE DEF of
    <2> QED  BY <2>1, LeastExists
  <1>4. all \in Seq(ToSet(r.topics) \cap D) /\ all \in Seq(ToSet(r.topics))
    <2> HIDE DEF D
    <2> QED  BY <1>2, KeptIs
  <1>5. all \in Seq(D)
    BY <1>4
  <1> HIDE DEF all, D
  <1>6. found \in Seq(D) /\ Len(found) <= r.topk
    BY <1>2, <1>5, FirstIs
  <1>7. places \in Seq(DOMAIN seq) /\ Len(places) = Len(found)
    <2> HIDE DEF found, of
    <2>1. Len(found) \in Nat /\ DOMAIN found = 1 .. Len(found) /\ \A k \in 1 .. Len(found) : found[k] \in D
      BY <1>6
    <2>2. \A k \in 1 .. Len(found) : Min(of(found[k])) \in DOMAIN seq
      BY <1>3, <2>1
    <2> QED  BY <2>1, <2>2
  <1>8. r.topics = <<>> => places = <<>>
    <2> SUFFICES ASSUME r.topics = <<>>
                 PROVE  places = <<>>
      OBVIOUS
    <2>1. ToSet(r.topics) = {}
      BY NoneIsEmpty
    <2>2. Len(all) = 0
      BY <1>4, <2>1
    <2>3. Len(found) = 0
      BY <1>2, <1>4, <2>2, FirstIs DEF Least
    <2> QED  BY <1>7, <2>3
  <1> HIDE DEF places
  <1>9. At(seq, places) \in Seq(T) /\ Lead(seq, places) \in Seq(T) /\ ToSet(Lead(seq, places)) = ToSet(seq)
    BY <1>7, AtIs, LeadIs
  <1>10. \A c : StartsWith(seq, c) => StartsWith(Lead(seq, <<>>), c)
    <2> SUFFICES ASSUME NEW c, StartsWith(seq, c)
                 PROVE  StartsWith(Lead(seq, <<>>), c)
      OBVIOUS
    <2>1. Len(seq) > 0 /\ seq[1] = c /\ <<>> \in Seq(DOMAIN seq)
      BY DEF StartsWith
    <2> QED  BY <2>1, LeadHead
  <1>11. r.topics = <<>> => Len(places) # r.topk
    BY <1>2, <1>8
  <1> QED  BY <1>1, <1>8, <1>9, <1>10, <1>11

LEMMA PrivateFirstIs ==
    ASSUME r \in Requests, NEW T, NEW seq \in Seq(T)
    PROVE  /\ PrivateFirst(seq) \in Seq(T) /\ ToSet(PrivateFirst(seq)) = ToSet(seq)
           /\ \A c \in ToSet(seq) : "scoped" \in Tags(c)
                => \E d \in ToSet(seq) : StartsWith(PrivateFirst(seq), d) /\ "scoped" \in Tags(d)
  <1> DEFINE P == Tagged(seq, "scoped")
             n == Least(3, Most(1, r.topk \div 3))
             places == First(Places(P), n)
  <1>1. P \in SUBSET DOMAIN seq /\ PrivateFirst(seq) = Lead(seq, places)
    BY DEF PrivateFirst, Tagged
  <1>2. n \in Nat /\ n >= 1
    <2>1. r.topk \in Nat
      BY RequestIs
    <2>2. r.topk \div 3 \in Nat
      BY <2>1
    <2> QED  BY <2>2 DEF Least, Most
  <1> HIDE DEF P, n
  <1>3. Places(P) \in Seq(DOMAIN seq) /\ ToSet(Places(P)) = P
    BY <1>1, InDomain
  <1>4. places \in Seq(DOMAIN seq) /\ Len(places) = Least(n, Len(Places(P))) /\ ToSet(places) \subseteq P
    BY <1>2, <1>3, FirstIs
  <1> HIDE DEF places
  <1>5. /\ Lead(seq, places) \in Seq(T) /\ ToSet(Lead(seq, places)) = ToSet(seq)
        /\ Len(places) > 0 => Len(Lead(seq, places)) > 0 /\ Lead(seq, places)[1] = seq[places[1]]
    BY <1>4, LeadIs
  <1>6. ASSUME NEW c \in ToSet(seq), "scoped" \in Tags(c)
        PROVE  \E d \in ToSet(seq) : StartsWith(Lead(seq, places), d) /\ "scoped" \in Tags(d)
    <2>1. PICK i \in DOMAIN seq : seq[i] = c
      BY DEF ToSet
    <2>2. i \in P
      BY <1>6, <2>1 DEF P, Tagged
    <2>3. Len(Places(P)) >= 1
      BY <1>3, <2>2 DEF ToSet
    <2>4. Len(places) > 0
      BY <1>2, <1>3, <1>4, <2>3 DEF Least
    <2>5. places[1] \in P
      BY <1>4, <2>4 DEF ToSet
    <2>6. seq[places[1]] \in ToSet(seq) /\ "scoped" \in Tags(seq[places[1]])
      BY <2>5 DEF P, Tagged, ToSet
    <2> QED  BY <1>5, <2>4, <2>6 DEF StartsWith
  <1> QED  BY <1>1, <1>5, <1>6

LEMMA NamedIs ==
    ASSUME r \in Requests, NEW T, NEW seq \in Seq(T)
    PROVE  /\ Named(seq) \in Seq(DOMAIN seq)
           /\ /\ r.category = "none" /\ ~r.procedure
              /\ Tagged(seq, "exact") = {} /\ r.hits["section"] = {}
              => Named(seq) = <<>>
  <1> DEFINE lexical == IF r.procedure
                        THEN FirstPerDocument(seq, Tagged(seq, "domain"), Least(r.topk, 4)) ELSE <<>>
             places == CategoryPlaces(seq, lexical)
             named == lexical \o places
             P == Tagged(seq, "exact") \cap InForce(seq)
             exact == Upto(seq, named, P, r.topk)
             Q == {i \in InForce(seq) : seq[i] \in r.hits["section"]}
             n == Len(exact) + 1
  <1>1. r.topk \in Nat /\ <<>> \in Seq(DOMAIN seq)
    BY RequestIs
  <1>2. \A tag : Tagged(seq, tag) \in SUBSET DOMAIN seq
    BY DEF Tagged
  <1>3. lexical \in Seq(DOMAIN seq)
    <2> DEFINE m == Least(r.topk, 4)
    <2>1. m \in Nat
      BY <1>1 DEF Least
    <2> HIDE DEF m
    <2>2. FirstPerDocument(seq, Tagged(seq, "domain"), m) \in Seq(DOMAIN seq)
      BY <1>2, <2>1, FirstPerDocumentIs
    <2> QED  BY <1>1, <2>2 DEF m
  <1> HIDE DEF lexical
  <1>4. places \in Seq(DOMAIN seq)
    <2> DEFINE direct == Tagged(seq, "category")
               elsewhere(one) == {i \in DOMAIN seq :
                             \A j \in ToSet(one) : Document[File[seq[i]]] # Document[File[seq[j]]]}
               beside(one) == one \o Kept(elsewhere(one), FirstPerDocument(seq, direct, r.topk))
               k == Most(1, Least(r.topk, 6) - Len(lexical))
               l == Least(3, r.topk)
    <2>1. direct \in SUBSET DOMAIN seq
      BY <1>2
    <2>2. k \in Nat /\ l \in Nat
      BY <1>1, <1>3 DEF Most, Least
    <2>3. places = CASE r.category = "generic" -> FirstPerDocument(seq, direct, k)
                     [] r.category = "one" -> beside(First(Places(direct), l))
                     [] OTHER -> <<>>
      BY DEF CategoryPlaces
    <2> HIDE DEF direct, k, l, elsewhere
    <2>4. FirstPerDocument(seq, direct, k) \in Seq(DOMAIN seq) /\ FirstPerDocument(seq, direct, r.topk) \in Seq(DOMAIN seq)
      BY <1>1, <2>1, <2>2, FirstPerDocumentIs
    <2>5. First(Places(direct), l) \in Seq(DOMAIN seq)
      <3>1. Places(direct) \in Seq(DOMAIN seq)
        BY <2>1, InDomain
      <3> QED  BY <2>2, <3>1, FirstIs
    <2>6. \A one \in Seq(DOMAIN seq) : beside(one) \in Seq(DOMAIN seq)
      <3> SUFFICES ASSUME NEW one \in Seq(DOMAIN seq)
                   PROVE  beside(one) \in Seq(DOMAIN seq)
        OBVIOUS
      <3> DEFINE rest == Kept(elsewhere(one), FirstPerDocument(seq, direct, r.topk))
      <3>1. rest \in Seq(DOMAIN seq)
        BY <2>4, KeptIs
      <3> HIDE DEF rest
      <3>2. one \o rest \in Seq(DOMAIN seq)
        BY <3>1
      <3> QED  BY <3>2 DEF rest
    <2>7. beside(First(Places(direct), l)) \in Seq(DOMAIN seq)
      BY <2>5, <2>6
    <2> HIDE DEF beside
    <2> QED  BY <1>1, <2>3, <2>4, <2>7
  <1> HIDE DEF places
  <1>5. named \in Seq(DOMAIN seq)
    BY <1>3, <1>4
  <1> HIDE DEF named
  <1>6. P \in SUBSET DOMAIN seq /\ Q \in SUBSET DOMAIN seq
    BY <1>2 DEF InForce
  <1>7. P = Tagged(seq, "exact") \cap InForce(seq) /\ (r.hits["section"] = {} => Q = {})
    OBVIOUS
  <1>8. Named(seq) = WithTerm(seq, WithExact(seq, named))
    BY DEF Named, lexical, places, named
  <1>9. WithExact(seq, named) = exact /\ WithTerm(seq, exact) = Upto(seq, exact, Q, n)
    BY DEF WithExact, WithTerm
  <1> HIDE DEF P, Q
  <1>10. exact \in Seq(DOMAIN seq) /\ (P = {} => exact = named)
    BY <1>1, <1>5, <1>6, UptoIs
  <1> HIDE DEF exact
  <1>11. n \in Nat
    BY <1>10
  <1> HIDE DEF n
  <1>12. Upto(seq, exact, Q, n) \in Seq(DOMAIN seq) /\ (Q = {} => Upto(seq, exact, Q, n) = exact)
    BY <1>6, <1>10, <1>11, UptoIs
  <1>13. r.category = "none" /\ ~r.procedure => named = <<>>
    <2> SUFFICES ASSUME r.category = "none", ~r.procedure
                 PROVE  named = <<>>
      OBVIOUS
    <2>1. lexical = <<>>
      BY DEF lexical
    <2>2. places = <<>>
      BY DEF places, CategoryPlaces
    <2> QED  BY <2>1, <2>2 DEF named
  <1> QED  BY <1>7, <1>8, <1>9, <1>10, <1>12, <1>13

LEMMA SpreadIs ==
    ASSUME r \in Requests, NEW T, NEW seq \in Seq(T), NEW named \in Seq(DOMAIN seq)
    PROVE  /\ Spread(seq, named) \in Seq(DOMAIN seq)
           /\ named = <<>> /\ Len(seq) > 0 /\ seq[1] \notin Gone => StartsWith(Spread(seq, named), 1)
  <1> DEFINE L == Len(seq)
             D == DOMAIN seq
             inSection(acc, i) == {j \in DOMAIN acc : Section[seq[acc[j]]] = Section[seq[i]]}
             full(acc, n) == \/ Len(acc) >= r.topk \/ n \in ToSet(acc) \/ seq[n] \in Gone
                             \/ Cardinality(inSection(acc, n)) >= 2 /\ Len(acc) + 2 < r.topk
             next(n, acc) == IF full(n, acc) THEN acc ELSE Append(acc, n)
             step == [x \in (1 .. L) \X Seq(D) |-> IF full(x[2], x[1]) THEN x[2] ELSE Append(x[2], x[1])]
             Step(f, n) == IF n = 0 THEN named ELSE IF full(f[n - 1], n) THEN f[n - 1] ELSE Append(f[n - 1], n)
             Is(f) == f = [n \in 0 .. L |-> Step(f, n)]
             all == CHOOSE f : Is(f)
  <1>1. L \in Nat /\ D = 1 .. L
    OBVIOUS
  <1>2. Spread(seq, named) = all[L]
    BY DEF Spread
  <1> HIDE DEF D, full
  <1>3. step \in [(1 .. L) \X Seq(D) -> Seq(D)]
    <2> SUFFICES ASSUME NEW x \in (1 .. L) \X Seq(D)
                 PROVE  (IF full(x[2], x[1]) THEN x[2] ELSE Append(x[2], x[1])) \in Seq(D)
      BY Zenon
    <2>1. x[1] \in D /\ x[2] \in Seq(D)
      BY <1>1
    <2>2. Append(x[2], x[1]) \in Seq(D)
      BY <2>1
    <2> QED  BY <2>1, <2>2
  <1>4. \E f : IsLoop(f, Seq(D), named, L, step)
    <2>1. named \in Seq(D)
      BY DEF D
    <2> HIDE DEF step, L
    <2> QED  BY <1>1, <1>3, <2>1, Recursion
  <1>5. \E f : Is(f)
    <2>1. PICK f : IsLoop(f, Seq(D), named, L, step)
      BY <1>4
    <2>2. f = [n \in 0 .. L |-> f[n]] /\ f[0] = named
      BY <2>1 DEF IsLoop
    <2>3. \A n \in 1 .. L : f[n] = Step(f, n)
      <3> SUFFICES ASSUME NEW n \in 1 .. L
                   PROVE  f[n] = Step(f, n)
        OBVIOUS
      <3>1. n - 1 \in 0 .. L /\ n # 0
        BY <1>1
      <3>2. f[n - 1] \in Seq(D) /\ f[n] = step[<<n, f[n - 1]>>]
        BY <2>1, <3>1 DEF IsLoop
      <3>3. step[<<n, f[n - 1]>>] = IF full(f[n - 1], n) THEN f[n - 1] ELSE Append(f[n - 1], n)
        BY <3>2
      <3> QED  BY <3>1, <3>2, <3>3
    <2>4. f[0] = Step(f, 0)
      BY <2>2
    <2>5. \A n \in 0 .. L : n = 0 \/ n \in 1 .. L
      BY <1>1
    <2> HIDE DEF Step
    <2>6. \A n \in 0 .. L : f[n] = Step(f, n)
      BY <2>3, <2>4, <2>5
    <2> QED  BY <2>2, <2>6
  <1>6. Is(all)
    <2> HIDE DEF Is
    <2> QED  BY <1>5
  <1> HIDE DEF all
  <1>7. all[0] = named /\ \A n \in 1 .. L : all[n] = IF full(all[n - 1], n) THEN all[n - 1] ELSE Append(all[n - 1], n)
    <2>1. \A n \in 0 .. L : all[n] = Step(all, n)
      <3> HIDE DEF Step
      <3> QED  BY <1>6
    <2>2. 0 \in 0 .. L /\ \A n \in 1 .. L : n \in 0 .. L /\ n # 0
      BY <1>1
    <2> HIDE DEF L
    <2> QED  BY <2>1, <2>2
  <1> HIDE DEF L, Is, step
  <1>8. ASSUME NEW n \in 0 .. L
        PROVE  all[n] \in Seq(D)
    <2> DEFINE S == {k \in Nat : k <= L => all[k] \in Seq(D)}
    <2>1. 0 \in S
      BY <1>7 DEF D
    <2>2. ASSUME NEW k \in S
          PROVE  k + 1 \in S
      <3> SUFFICES ASSUME k + 1 <= L
                   PROVE  all[k + 1] \in Seq(D)
        OBVIOUS
      <3>1. k \in Nat /\ k + 1 \in 1 .. L /\ k + 1 \in D /\ all[k] \in Seq(D)
        BY <1>1
      <3>2. all[k + 1] = IF full(all[k], k + 1) THEN all[k] ELSE Append(all[k], k + 1)
        <4>1. (k + 1) - 1 = k
          BY <3>1
        <4> QED  BY <1>7, <3>1, <4>1
      <3> QED  BY <3>1, <3>2
    <2>3. S \in SUBSET Nat
      OBVIOUS
    <2> HIDE DEF S
    <2>4. S = Nat
      BY <2>1, <2>2, <2>3, Induction
    <2>5. n \in S /\ n <= L
      BY <1>1, <2>4
    <2> QED  BY <2>5 DEF S
  <1>9. ASSUME named = <<>>, L > 0, seq[1] \notin Gone, NEW n \in 1 .. L
        PROVE  StartsWith(all[n], 1)
    <2> DEFINE S == {k \in Nat : k + 1 <= L => StartsWith(all[k + 1], 1)}
    <2>1. 0 \in S
      <3>1. 1 \in 1 .. L /\ all[0] = <<>> /\ 1 - 1 = 0
        BY <1>1, <1>7, <1>9
      <3>2. ~full(<<>>, 1)
        <4>1. ToSet(<<>>) = {} /\ Len(<<>>) = 0
          BY NoneIsEmpty
        <4>2. inSection(<<>>, 1) = {}
          OBVIOUS
        <4>3. Cardinality(inSection(<<>>, 1)) = 0
          BY <4>2, FS_EmptySet
        <4>4. r.topk \in Nat /\ r.topk >= 1
          BY RequestIs
        <4> HIDE DEF inSection
        <4> QED  BY <1>9, <4>1, <4>3, <4>4 DEF full
      <3>3. all[1] = Append(<<>>, 1)
        BY <1>7, <3>1, <3>2
      <3>4. StartsWith(all[1], 1)
        BY <3>3 DEF StartsWith
      <3> QED  BY <3>4
    <2>2. ASSUME NEW k \in S
          PROVE  k + 1 \in S
      <3> SUFFICES ASSUME (k + 1) + 1 <= L
                   PROVE  StartsWith(all[(k + 1) + 1], 1)
        OBVIOUS
      <3>1. k \in Nat /\ (k + 1) + 1 \in 1 .. L /\ k + 1 \in 0 .. L /\ StartsWith(all[k + 1], 1)
        BY <1>1
      <3> DEFINE m == k + 1
      <3>2. all[m + 1] = IF full(all[m], m + 1) THEN all[m] ELSE Append(all[m], m + 1)
        <4>1. (m + 1) - 1 = m
          BY <3>1
        <4> QED  BY <1>7, <3>1, <4>1
      <3>3. all[m] \in Seq(D)
        BY <1>8, <3>1
      <3>4. StartsWith(all[m], 1)
        BY <3>1
      <3> HIDE DEF m
      <3>5. StartsWith(Append(all[m], m + 1), 1)
        BY <3>3, <3>4 DEF StartsWith
      <3>6. StartsWith(all[m + 1], 1)
        BY <3>2, <3>4, <3>5
      <3> QED  BY <3>6 DEF m
    <2>3. S \in SUBSET Nat
      OBVIOUS
    <2> HIDE DEF S
    <2>4. S = Nat
      BY <2>1, <2>2, <2>3, Induction
    <2>5. n - 1 \in S /\ (n - 1) + 1 = n /\ n <= L
      BY <1>1, <2>4
    <2> QED  BY <2>5 DEF S
  <1>10. L \in 0 .. L
    BY <1>1
  <1>11. Spread(seq, named) \in Seq(DOMAIN seq)
    BY <1>2, <1>8, <1>10 DEF D
  <1>12. ASSUME named = <<>>, Len(seq) > 0, seq[1] \notin Gone
         PROVE  StartsWith(Spread(seq, named), 1)
    <2>1. L > 0 /\ L \in 1 .. L
      BY <1>1, <1>12 DEF L
    <2> QED  BY <1>2, <1>9, <1>12, <2>1
  <1> QED  BY <1>11, <1>12

LEMMA DiversifiedIs ==
    ASSUME r \in Requests, NEW T, NEW seq \in Seq(T)
    PROVE  /\ Diversified(seq) \in Seq(T)
           /\ Named(seq) = <<>> /\ Len(seq) > 0 /\ seq[1] \notin Gone
              => StartsWith(Diversified(seq), seq[1])
  <1> DEFINE named == Named(seq)
             spread == Spread(seq, named)
             filled == Filled(seq, spread)
             all == First(filled, r.topk)
  <1>1. r.topk \in Nat /\ r.topk \in Nat \ {0}
    BY RequestIs
  <1>2. Diversified(seq) = At(seq, all)
    BY DEF Diversified
  <1>3. named \in Seq(DOMAIN seq)
    BY NamedIs
  <1> HIDE DEF named
  <1>4. /\ spread \in Seq(DOMAIN seq)
        /\ named = <<>> /\ Len(seq) > 0 /\ seq[1] \notin Gone => StartsWith(spread, 1)
    BY <1>3, SpreadIs
  <1> HIDE DEF spread
  <1>5. /\ filled \in Seq(DOMAIN seq)
        /\ \A c : StartsWith(spread, c) => StartsWith(filled, c)
    <2> DEFINE D == DOMAIN seq
    <2>1. D \in SUBSET DOMAIN seq /\ filled = Upto(seq, spread, D, r.topk)
      BY DEF Filled
    <2> HIDE DEF D
    <2>2. /\ Upto(seq, spread, D, r.topk) \in Seq(DOMAIN seq)
          /\ \A c : StartsWith(spread, c) => StartsWith(Upto(seq, spread, D, r.topk), c)
      BY <1>1, <1>4, <2>1, UptoIs
    <2> QED  BY <2>1, <2>2
  <1> HIDE DEF filled
  <1>6. all \in Seq(DOMAIN seq)
    BY <1>1, <1>5, FirstIs
  <1>7. \A c : StartsWith(filled, c) => StartsWith(all, c)
    BY <1>1, <1>5, FirstHead
  <1> HIDE DEF all
  <1>8. /\ At(seq, all) \in Seq(T) /\ Len(At(seq, all)) = Len(all)
        /\ \A k \in 1 .. Len(all) : At(seq, all)[k] = seq[all[k]]
    BY <1>6, AtIs
  <1>9. StartsWith(all, 1) => StartsWith(At(seq, all), seq[1])
    BY <1>6, <1>8 DEF StartsWith
  <1> QED  BY <1>2, <1>4, <1>5, <1>7, <1>8, <1>9 DEF named

LEMMA OnlyOperationsIs ==
    ASSUME NEW T, NEW seq \in Seq(T)
    PROVE  /\ OnlyOperations(seq) \in Seq(T)
           /\ r.hits["procedural"] = {} => OnlyOperations(seq) = seq
  <1> DEFINE H == r.hits["procedural"]
  <1>1. OnlyOperations(seq) = IF \E c \in ToSet(seq) : c \in H THEN Kept(H, seq) ELSE seq
    BY DEF OnlyOperations
  <1> HIDE DEF H
  <1>2. Kept(H, seq) \in Seq(T)
    BY KeptIs
  <1> QED  BY <1>1, <1>2 DEF H

LEMMA SelectedIs ==
    ASSUME r \in Requests, NEW T, NEW seq \in Seq(T)
    PROVE  /\ Selected(seq) \in Seq(T)
           /\ /\ NothingByName /\ Named(seq) = <<>> /\ r.named = {}
              /\ Len(seq) > 0 /\ seq[1] \in Chunk \ Gone
              /\ \A c : "concept" \notin Tags(c)
              => StartsWith(Selected(seq), seq[1])
  <1> DEFINE div == Diversified(seq)
             S == InTarget(Chunk \ Gone) \ (IF r.value THEN Accounting ELSE {})
             prism == Kept(S, div)
             concept == Tagged(prism, "concept")
             head == At(prism, Places(concept))
             first == Then(head, prism)
             joined == Then(first, seq)
             topic == TopicFirst(joined)
             few == First(topic, r.topk)
             chosen == IF r.named # {} THEN first ELSE few
             Calm == /\ NothingByName /\ Named(seq) = <<>> /\ r.named = {}
                     /\ Len(seq) > 0 /\ seq[1] \in Chunk \ Gone
                     /\ \A c : "concept" \notin Tags(c)
             Good(s) == s \in Seq(T) /\ (Calm => StartsWith(s, seq[1]))
  <1>1. Selected(seq) = OnlyOperations(chosen)
    BY DEF Selected, Chosen, ConceptFirst, Prism
  <1>2. r.topk \in Nat \ {0}
    BY RequestIs
  <1>3. Calm => /\ Named(seq) = <<>> /\ Len(seq) > 0 /\ seq[1] \notin Gone /\ seq[1] \in S
                /\ concept = {} /\ r.topics = <<>> /\ r.named = {} /\ r.hits["procedural"] = {}
    BY DEF NothingByName, InTarget, Tagged
  <1> HIDE DEF Calm, S
  <1>4. Good(div)
    <2> HIDE DEF div
    <2>1. /\ div \in Seq(T)
          /\ Named(seq) = <<>> /\ Len(seq) > 0 /\ seq[1] \notin Gone => StartsWith(div, seq[1])
      BY DiversifiedIs DEF div
    <2> QED  BY <1>3, <2>1
  <1> HIDE DEF div
  <1>5. Good(prism)
    <2>1. prism \in Seq(T)
      BY <1>4, KeptIs
    <2>2. ASSUME Calm PROVE StartsWith(prism, seq[1])
      <3>1. seq[1] \in S /\ StartsWith(div, seq[1]) /\ div \in Seq(T)
        BY <1>3, <1>4, <2>2
      <3> HIDE DEF prism
      <3>2. StartsWith(Kept(S, div), seq[1])
        BY <3>1, KeptHead
      <3> QED  BY <3>2 DEF prism
    <2> QED  BY <2>1, <2>2
  <1> HIDE DEF prism
  <1>6. head \in Seq(T) /\ (Calm => Len(head) = 0)
    <2>1. concept \in SUBSET DOMAIN prism /\ prism \in Seq(T)
      BY <1>5 DEF Tagged
    <2> HIDE DEF concept
    <2>2. Places(concept) \in Seq(DOMAIN prism) /\ ToSet(Places(concept)) = concept
      BY <2>1, InDomain
    <2>3. head \in Seq(T) /\ Len(head) = Len(Places(concept))
      BY <2>1, <2>2, AtIs
    <2>4. ASSUME Calm PROVE Len(Places(concept)) = 0
      <3>1. concept = {}
        BY <1>3, <2>4
      <3> QED  BY <2>2, <3>1, RangeIs
    <2> QED  BY <2>3, <2>4
  <1> HIDE DEF head
  <1>7. Good(first)
    <2>1. first \in Seq(T)
      BY <1>5, <1>6, ThenIs
    <2>2. Calm => StartsWith(first, seq[1])
      BY <1>5, <1>6, ThenHead
    <2> QED  BY <2>1, <2>2
  <1> HIDE DEF first
  <1>8. Good(joined)
    <2>1. joined \in Seq(T)
      BY <1>7, ThenIs
    <2>2. Calm => StartsWith(joined, seq[1])
      BY <1>7, ThenHead
    <2> QED  BY <2>1, <2>2
  <1> HIDE DEF joined
  <1>9. Good(topic)
    <2>1. /\ topic \in Seq(T)
          /\ r.topics = <<>> /\ StartsWith(joined, seq[1]) => StartsWith(topic, seq[1])
      BY <1>8, TopicFirstIs
    <2> QED  BY <1>3, <1>8, <2>1
  <1> HIDE DEF topic
  <1>10. Good(few)
    <2>1. few \in Seq(T)
      BY <1>2, <1>9, FirstIs
    <2>2. Calm => StartsWith(few, seq[1])
      BY <1>2, <1>9, FirstHead
    <2> QED  BY <2>1, <2>2
  <1> HIDE DEF few
  <1>11. Good(chosen)
    BY <1>3, <1>7, <1>10
  <1> HIDE DEF chosen
  <1>12. OnlyOperations(chosen) \in Seq(T) /\ (r.hits["procedural"] = {} => OnlyOperations(chosen) = chosen)
    BY <1>11, OnlyOperationsIs
  <1> QED  BY <1>1, <1>3, <1>11, <1>12 DEF Calm

\* What the packer is offered are passages the routing kept.
LEMMA EvidenceIs ==
    ASSUME r \in Requests, NEW T, NEW seq \in Seq(T)
    PROVE  Evidence(seq) \in Seq(T)
  <1> DEFINE E == Eligible(ToSet(seq))
             topical == Topical(seq)
             own == OwnFirst(topical)
             chosen == Selected(own)
  <1>1. Evidence(seq) = IF r.frontiers THEN Kept(E, seq)
                        ELSE IF r.coverage THEN own ELSE Then(chosen, own)
    BY DEF Evidence
  <1> HIDE DEF E
  <1>2. Kept(E, seq) \in Seq(T)
    BY KeptIs
  <1>3. topical \in Seq(T)
    BY TopicFirstIs DEF Topical
  <1> HIDE DEF topical
  <1>4. own \in Seq(T)
    BY <1>3, PrivateFirstIs DEF OwnFirst
  <1> HIDE DEF own
  <1>5. chosen \in Seq(T)
    BY <1>4, SelectedIs
  <1> HIDE DEF chosen
  <1>6. Then(chosen, own) \in Seq(T)
    BY <1>4, <1>5, ThenIs
  <1> QED  BY <1>1, <1>2, <1>4, <1>6

\* A passage of the chat's own files is put first and stays first.
LEMMA OwnIsFirst ==
    ASSUME r \in Requests, NEW seq \in Seq(Chunk \ Gone), r.private # {}, r.named = {}, ~r.frontiers,
           r.coverage \/ (NothingByName /\ \A c : "concept" \notin Tags(c) /\ "exact" \notin Tags(c)),
           NEW c \in ToSet(Evidence(seq)), "scoped" \in Tags(c)
    PROVE  \E d : StartsWith(Evidence(seq), d) /\ "scoped" \in Tags(d)
  <1> DEFINE T == ToSet(seq)
             topical == Topical(seq)
             own == PrivateFirst(topical)
             chosen == Selected(own)
  <1>1. seq \in Seq(T) /\ T \subseteq Chunk \ Gone
    BY RangeIs
  <1>2. Evidence(seq) = IF r.coverage THEN own ELSE Then(chosen, own)
    BY DEF Evidence, OwnFirst
  <1> HIDE DEF T
  <1>3. Evidence(seq) \in Seq(T)
    BY <1>1, EvidenceIs
  <1>4. c \in T
    BY <1>3, RangeIs
  <1>5. r.coverage \/ r.topics = <<>>
    BY DEF NothingByName
  <1>6. topical \in Seq(T) /\ ToSet(topical) = T
    <2>1. topical = seq \/ (topical = TopicFirst(seq) /\ r.topics = <<>>)
      BY <1>5 DEF Topical
    <2>2. /\ TopicFirst(seq) \in Seq(T)
          /\ r.topics = <<>> => ToSet(TopicFirst(seq)) = ToSet(seq)
      BY <1>1, TopicFirstIs
    <2>3. ToSet(seq) = T
      BY DEF T
    <2> HIDE DEF topical
    <2> QED  BY <1>1, <2>1, <2>2, <2>3
  <1> HIDE DEF topical
  <1>7. /\ own \in Seq(T)
        /\ \E d \in T : StartsWith(own, d) /\ "scoped" \in Tags(d)
    <2>1. /\ own \in Seq(T)
          /\ \A e \in ToSet(topical) : "scoped" \in Tags(e)
                => \E d \in ToSet(topical) : StartsWith(own, d) /\ "scoped" \in Tags(d)
      BY <1>6, PrivateFirstIs
    <2> QED  BY <1>4, <1>6, <2>1
  <1> HIDE DEF own
  <1>8. PICK d \in T : StartsWith(own, d) /\ "scoped" \in Tags(d)
    BY <1>7
  <1>9. CASE r.coverage
    BY <1>2, <1>8, <1>9
  <1>10. CASE ~r.coverage
    <2>1. NothingByName /\ \A e : "concept" \notin Tags(e) /\ "exact" \notin Tags(e)
      BY <1>10
    <2>2. Named(own) = <<>>
      <3>1. Tagged(own, "exact") = {}
        BY <2>1 DEF Tagged
      <3>2. r.category = "none" /\ ~r.procedure /\ r.hits["section"] = {}
        BY <2>1 DEF NothingByName
      <3> QED  BY <1>7, <3>1, <3>2, NamedIs
    <2>3. Len(own) > 0 /\ own[1] = d /\ d \in Chunk \ Gone
      BY <1>1, <1>8 DEF StartsWith
    <2>4. chosen \in Seq(T) /\ StartsWith(chosen, d)
      <3>1. chosen \in Seq(T)
        BY <1>7, SelectedIs
      <3>2. StartsWith(chosen, own[1])
        BY <1>7, <2>1, <2>2, <2>3, SelectedIs
      <3> QED  BY <2>3, <3>1, <3>2
    <2> HIDE DEF chosen
    <2>5. StartsWith(Then(chosen, own), d)
      BY <1>7, <2>4, ThenHead
    <2> QED  BY <1>2, <1>8, <1>10, <2>5
  <1> QED  BY <1>9, <1>10

-----------------------------------------------------------------------------
(* Routing: what is reserved comes before the cap, and sorting loses none. *)

LEMMA KeptLength ==
    ASSUME NEW T, NEW seq \in Seq(T), NEW S
    PROVE  Len(Kept(S, seq)) \in Nat /\ Len(Kept(S, seq)) <= Len(seq)
  <1> DEFINE P == Where(seq, S)
             pl == Places(P)
  <1>1. pl = Places(Where(seq, S)) /\ P \in SUBSET DOMAIN seq
    BY DEF Where
  <1> HIDE DEF P
  <1>2. Len(pl) = Cardinality(P) /\ Cardinality(P) \in Nat
    <2>1. P \in SUBSET Nat /\ IsFiniteSet(P)
      BY <1>1, InDomain
    <2> QED  BY <2>1, PlacesIs
  <1> HIDE DEF pl
  <1>3. Kept(S, seq) \in Seq(T) /\ Len(Kept(S, seq)) = Len(pl)
    BY <1>1, KeptPlaces
  <1>4. IsFiniteSet(1 .. Len(seq)) /\ Cardinality(1 .. Len(seq)) = Len(seq) /\ Len(seq) \in Nat
    <2>1. Len(seq) \in Nat
      OBVIOUS
    <2> DEFINE n == Len(seq)
    <2> HIDE DEF n
    <2>2. n \in Nat /\ IsFiniteSet(1 .. n) /\ Cardinality(1 .. n) = n
      <3>1. n \in Nat
        BY <2>1 DEF n
      <3> QED  BY <3>1, FS_Interval
    <2> QED  BY <2>2 DEF n
  <1>5. Cardinality(P) <= Cardinality(1 .. Len(seq))
    <2>1. P \in SUBSET (1 .. Len(seq))
      BY <1>1
    <2> QED  BY <1>4, <2>1, FS_Subset
  <1> QED  BY <1>2, <1>3, <1>4, <1>5

\* the places of a domain's passages
Of(seq, d) == {i \in DOMAIN seq : d \in Domains[File[seq[i]]]}

LEMMA HeadsAre ==
    ASSUME r \in Requests, NEW T, NEW seq \in Seq(T)
    PROVE  /\ Heads(seq) \in Seq(DOMAIN seq) /\ Len(Heads(seq)) <= 2
           /\ \A d \in ToSet(r.domains) : Of(seq, d) # {}
                => \E k \in 1 .. Len(Heads(seq)) : Heads(seq)[k] \in Of(seq, d)
  <1> DEFINE D == {d \in ToSet(r.domains) : Of(seq, d) # {}}
             active == Kept(D, r.domains)
             s == [k \in DOMAIN active |-> Min(Of(seq, active[k]))]
  <1>1. Heads(seq) = s
    BY DEF Heads, Of
  <1>2. r.domains \in Seq({"rre", "orem"}) /\ Len(r.domains) <= 2
    BY RequestIs
  <1>3. \A d \in D : Min(Of(seq, d)) \in Of(seq, d)
    <2> SUFFICES ASSUME NEW d \in D PROVE Min(Of(seq, d)) \in Of(seq, d)
      OBVIOUS
    <2>1. Of(seq, d) \in SUBSET Nat /\ Of(seq, d) # {}
      BY DEF Of
    <2> QED  BY <2>1, LeastExists
  <1>4. D \subseteq ToSet(r.domains) /\ \A d \in ToSet(r.domains) : Of(seq, d) # {} => d \in D
    OBVIOUS
  <1> HIDE DEF D
  <1>5. /\ active \in Seq({"rre", "orem"} \cap D) /\ ToSet(active) = ToSet(r.domains) \cap D
    BY <1>2, KeptIs
  <1>6. Len(active) \in Nat /\ Len(active) <= 2
    <2>1. Len(active) \in Nat /\ Len(active) <= Len(r.domains)
      BY <1>2, KeptLength
    <2> QED  BY <1>2, <2>1
  <1>7. active \in Seq(D) /\ \A d \in D : \E k \in 1 .. Len(active) : active[k] = d
    <2> HIDE DEF active
    <2>1. active \in Seq(D)
      BY <1>5
    <2>2. ToSet(active) = D
      BY <1>4, <1>5
    <2> QED  BY <2>1, <2>2, RangeIs
  <1> HIDE DEF active
  <1>8. DOMAIN active = 1 .. Len(active) /\ \A k \in 1 .. Len(active) : active[k] \in D
    BY <1>7
  <1>9. \A k \in 1 .. Len(active) : s[k] \in Of(seq, active[k])
    BY <1>3, <1>8
  <1>10. s \in Seq(DOMAIN seq) /\ Len(s) = Len(active)
    <2>1. \A d : Of(seq, d) \subseteq DOMAIN seq
      BY DEF Of
    <2>2. \A k \in 1 .. Len(active) : Min(Of(seq, active[k])) \in DOMAIN seq
      BY <1>8, <1>9, <2>1
    <2> QED  BY <1>6, <1>8, <2>2
  <1> HIDE DEF s
  <1>11. \A d \in D : \E k \in 1 .. Len(s) : s[k] \in Of(seq, d)
    BY <1>7, <1>9, <1>10
  <1> QED  BY <1>1, <1>4, <1>6, <1>10, <1>11

LEMMA ReservedIs ==
    ASSUME r \in Requests, NEW T, NEW seq \in Seq(T)
    PROVE  /\ Reserved(seq) \in Seq(DOMAIN seq) /\ Len(Reserved(seq)) >= Len(Heads(seq))
           /\ \A k \in 1 .. Len(Heads(seq)) : Reserved(seq)[k] = Heads(seq)[k]
  <1> DEFINE known(acc) == {Document[File[seq[i]]] : i \in ToSet(acc)}
             New(acc, P) == {i \in P : Document[File[seq[i]]] \notin known(acc)}
             more(acc, P, n) == acc \o FirstPerDocument(seq, New(acc, P), n)
             heads == Heads(seq)
             n == Least(6, Most(3, r.topk \div 2))
             m == Least(6, Most(2, r.topk \div 2))
             P == Tagged(seq, "category")
             Q == {i \in Tagged(seq, "domain") :
                         r.domains = <<>> \/ Domains[File[seq[i]]] \cap ToSet(r.domains) # {}}
             category == more(heads, P, n)
             Longer(s, t) == /\ t \in Seq(DOMAIN seq) /\ Len(t) >= Len(s)
                             /\ \A k \in 1 .. Len(s) : t[k] = s[k]
  <1>1. Reserved(seq) = more(category, Q, m)
    BY DEF Reserved
  <1>2. P \in SUBSET DOMAIN seq /\ Q \in SUBSET DOMAIN seq
    BY DEF Tagged
  <1>3. n \in Nat /\ m \in Nat
    <2>1. r.topk \in Nat
      BY RequestIs
    <2>2. r.topk \div 2 \in Nat
      BY <2>1
    <2> QED  BY <2>2 DEF Least, Most
  <1>4. ASSUME NEW acc \in Seq(DOMAIN seq), NEW R \in SUBSET DOMAIN seq, NEW k \in Nat
        PROVE  Longer(acc, more(acc, R, k))
    <2> DEFINE S == New(acc, R)
               t == FirstPerDocument(seq, S, k)
    <2>1. S \in SUBSET DOMAIN seq
      OBVIOUS
    <2> HIDE DEF S
    <2>2. t \in Seq(DOMAIN seq)
      BY <2>1, FirstPerDocumentIs
    <2> HIDE DEF t
    <2>3. Longer(acc, acc \o t)
      BY <2>2, JoinIs
    <2> QED  BY <2>3 DEF S, t
  <1>5. heads \in Seq(DOMAIN seq)
    BY HeadsAre
  <1> HIDE DEF P, Q, n, m, more, heads
  <1>6. Longer(heads, category)
    BY <1>2, <1>3, <1>4, <1>5
  <1> HIDE DEF category
  <1>7. Longer(category, more(category, Q, m))
    BY <1>2, <1>3, <1>4, <1>6
  <1>8. \A k \in 1 .. Len(heads) : k \in 1 .. Len(category)
    BY <1>5, <1>6
  <1> QED  BY <1>1, <1>5, <1>6, <1>7, <1>8 DEF heads

LEMMA RoutedIs ==
    ASSUME r \in Requests, NEW T, NEW seq \in Seq(T)
    PROVE  /\ Routed(seq) \in Seq(T) /\ ToSet(Routed(seq)) \subseteq ToSet(seq)
           /\ \A d \in ToSet(r.domains) : Of(seq, d) # {}
                => \E c \in ToSet(Routed(seq)) : d \in Domains[File[c]]
  <1> DEFINE first == Reserved(seq)
             P == DOMAIN seq \ ToSet(first)
             rest == Places(P)
             all == first \o rest
             ordered == At(seq, all)
             cut == First(ordered, 3 * r.topk)
  <1>1. Routed(seq) = ordered \/ Routed(seq) = cut
    BY DEF Routed
  <1>2. r.topk \in Nat /\ r.topk >= 1 /\ 3 * r.topk \in Nat /\ 3 * r.topk >= 2
    BY RequestIs
  <1>3. /\ Heads(seq) \in Seq(DOMAIN seq) /\ Len(Heads(seq)) <= 2
        /\ \A d \in ToSet(r.domains) : Of(seq, d) # {}
                => \E k \in 1 .. Len(Heads(seq)) : Heads(seq)[k] \in Of(seq, d)
    BY HeadsAre
  <1>4. /\ first \in Seq(DOMAIN seq) /\ Len(first) >= Len(Heads(seq))
        /\ \A k \in 1 .. Len(Heads(seq)) : first[k] = Heads(seq)[k]
    BY ReservedIs
  <1> HIDE DEF first
  <1>5. P \in SUBSET DOMAIN seq
    OBVIOUS
  <1> HIDE DEF P
  <1>6. rest \in Seq(DOMAIN seq)
    BY <1>5, InDomain
  <1> HIDE DEF rest
  <1>7. /\ all \in Seq(DOMAIN seq) /\ Len(all) = Len(first) + Len(rest)
        /\ \A k \in 1 .. Len(first) : all[k] = first[k]
    BY <1>4, <1>6, JoinIs
  <1>8. Len(all) >= Len(Heads(seq)) /\ \A k \in 1 .. Len(Heads(seq)) : all[k] = Heads(seq)[k]
    <2>1. Len(first) \in Nat /\ Len(rest) \in Nat /\ Len(Heads(seq)) \in Nat
      BY <1>3, <1>4, <1>6
    <2> QED  BY <1>4, <1>7, <2>1
  <1> HIDE DEF all
  <1>9. /\ ordered \in Seq(T) /\ Len(ordered) = Len(all)
        /\ \A k \in 1 .. Len(all) : ordered[k] = seq[all[k]]
        /\ ToSet(ordered) = {seq[i] : i \in ToSet(all)}
    BY <1>7, AtIs
  <1>10. ToSet(ordered) \subseteq ToSet(seq)
    <2>1. ToSet(all) \subseteq DOMAIN seq
      BY <1>7, RangeIs
    <2> QED  BY <1>9, <2>1 DEF ToSet
  <1> HIDE DEF ordered
  <1>11. /\ cut \in Seq(T) /\ Len(cut) = Least(3 * r.topk, Len(ordered))
         /\ \A i \in 1 .. Len(cut) : cut[i] = ordered[i]
         /\ ToSet(cut) \subseteq ToSet(ordered)
    BY <1>2, <1>9, FirstIs
  <1> HIDE DEF cut
  <1>12. ASSUME NEW d \in ToSet(r.domains), Of(seq, d) # {}
         PROVE  \E c \in ToSet(Routed(seq)) : d \in Domains[File[c]]
    <2>1. PICK k \in 1 .. Len(Heads(seq)) : Heads(seq)[k] \in Of(seq, d)
      BY <1>3, <1>12
    <2>2. Len(Heads(seq)) \in Nat /\ Len(all) \in Nat
      BY <1>3, <1>7
    <2>3. k \in Nat /\ k <= 2 /\ k \in 1 .. Len(all) /\ k \in 1 .. Len(ordered)
      BY <1>3, <1>8, <1>9, <2>2
    <2>4. k \in 1 .. Len(cut)
      BY <1>2, <1>9, <1>11, <2>2, <2>3 DEF Least
    <2>5. ordered[k] = seq[Heads(seq)[k]]
      BY <1>8, <1>9, <2>3
    <2>6. d \in Domains[File[ordered[k]]]
      BY <2>1, <2>5 DEF Of
    <2>7. ordered[k] \in ToSet(ordered) /\ ordered[k] \in ToSet(cut)
      <3>1. ordered[k] \in ToSet(ordered)
        BY <1>9, <2>3, RangeIs
      <3>2. cut[k] \in ToSet(cut) /\ cut[k] = ordered[k]
        BY <1>11, <2>4, RangeIs
      <3> QED  BY <3>1, <3>2
    <2> QED  BY <1>1, <2>6, <2>7
  <1> QED  BY <1>1, <1>9, <1>10, <1>11, <1>12

LEMMA SortedIs ==
    ASSUME NEW seq \in Seq(Chunk)
    PROVE  Sorted(seq) \in Seq(Chunk) /\ ToSet(Sorted(seq)) = ToSet(seq)
  <1> DEFINE L == Len(seq)
             D == DOMAIN seq
             key == [i \in D |-> Position[seq[i]] * (L + 1) + i]
             s == ByKey(D, key)
  <1>1. L \in Nat /\ D = 1 .. L /\ \A i \in D : seq[i] \in Chunk
    OBVIOUS
  <1>2. \A i \in D : i \in Nat /\ Position[seq[i]] \in Nat
    BY <1>1, PackingAssumption
  <1>3. \A i \in D : key[i] \in Nat
    BY <1>1, <1>2
  <1>4. ASSUME NEW i \in D, NEW j \in D, key[i] = key[j]
        PROVE  i = j
    <2> DEFINE a == Position[seq[i]]
               b == Position[seq[j]]
    <2>1. a \in Nat /\ b \in Nat /\ i \in 1 .. L /\ j \in 1 .. L
      BY <1>1, <1>2
    <2>2. a * (L + 1) + i = b * (L + 1) + j
      BY <1>4
    <2> HIDE DEF a, b
    <2>3. a = b
      <3>1. a <= b
        <4> SUFFICES ASSUME a >= b + 1 PROVE FALSE
          BY <2>1
        <4>1. a * (L + 1) >= (b + 1) * (L + 1)
          BY <1>1, <2>1
        <4>2. (b + 1) * (L + 1) = b * (L + 1) + (L + 1)
          BY <1>1, <2>1
        <4>3. a * (L + 1) \in Nat /\ b * (L + 1) \in Nat
          BY <1>1, <2>1
        <4> QED  BY <1>1, <2>1, <2>2, <4>1, <4>2, <4>3
      <3>2. b <= a
        <4> SUFFICES ASSUME b >= a + 1 PROVE FALSE
          BY <2>1
        <4>1. b * (L + 1) >= (a + 1) * (L + 1)
          BY <1>1, <2>1
        <4>2. (a + 1) * (L + 1) = a * (L + 1) + (L + 1)
          BY <1>1, <2>1
        <4>3. a * (L + 1) \in Nat /\ b * (L + 1) \in Nat
          BY <1>1, <2>1
        <4> QED  BY <1>1, <2>1, <2>2, <4>1, <4>2, <4>3
      <3> QED  BY <2>1, <3>1, <3>2
    <2>4. a * (L + 1) \in Nat
      BY <1>1, <2>1
    <2> QED  BY <2>1, <2>2, <2>3, <2>4
  <1>5. IsKey(D, key)
    <2> HIDE DEF key
    <2> QED  BY <1>3, <1>4 DEF IsKey
  <1>6. IsFiniteSet(D)
    BY <1>1, FS_Interval
  <1>7. Sorted(seq) = At(seq, s)
    BY DEF Sorted
  <1> HIDE DEF D, key
  <1>8. /\ s \in Seq(D) /\ Len(s) = Cardinality(D)
        /\ \A c \in D : \E k \in 1 .. Cardinality(D) : s[k] = c
    BY <1>5, <1>6, ByKeyIs
  <1> HIDE DEF s
  <1>9. s \in Seq(DOMAIN seq)
    BY <1>8 DEF D
  <1>10. ToSet(s) = DOMAIN seq
    <2>1. ToSet(s) = {s[k] : k \in 1 .. Len(s)}
      BY <1>8 DEF ToSet
    <2>2. \A k \in 1 .. Len(s) : s[k] \in D
      BY <1>8
    <2>3. ToSet(s) = D
      BY <1>8, <2>1, <2>2
    <2> QED  BY <2>3 DEF D
  <1>11. At(seq, s) \in Seq(Chunk) /\ ToSet(At(seq, s)) = {seq[i] : i \in ToSet(s)}
    BY <1>9, AtIs
  <1> QED  BY <1>7, <1>10, <1>11 DEF ToSet

-----------------------------------------------------------------------------
(***************************************************************************)
(* Sums: SumOf counts the cells <<c, 1>> .. <<c, size[c]>>.                *)
(***************************************************************************)
Cells(S, size) == UNION {{c} \X (1 .. size[c]) : c \in S}
Sizes(S, size) == IsFiniteSet(S) /\ \A c \in S : size[c] \in Nat

LEMMA CellsAre ==
    ASSUME NEW S, NEW size
    PROVE  \A x : x \in Cells(S, size) <=> \E c \in S : \E n \in 1 .. size[c] : x = <<c, n>>
  BY DEF Cells

LEMMA SumIsNatural ==
    ASSUME NEW S, NEW size, Sizes(S, size)
    PROVE  IsFiniteSet(Cells(S, size)) /\ SumOf(S, size) \in Nat /\ SumOf(S, size) = Cardinality(Cells(S, size))
  <1> DEFINE part(c) == {c} \X (1 .. size[c])
             parts == {part(c) : c \in S}
             f == [c \in S |-> part(c)]
  <1>1. f \in Surjection(S, parts)
    BY DEF Surjection
  <1>2. IsFiniteSet(parts)
    <2>1. IsFiniteSet(S)
      BY DEF Sizes
    <2> HIDE DEF f, parts
    <2> QED  BY <1>1, <2>1, FS_Surjection
  <1>3. ASSUME NEW c \in S PROVE IsFiniteSet(part(c))
    <2>1. IsFiniteSet({c}) /\ size[c] \in Nat
      BY FS_Singleton DEF Sizes
    <2>2. IsFiniteSet(1 .. size[c])
      BY <2>1, FS_Interval
    <2> QED  BY <2>1, <2>2, FS_Product
  <1>4. \A p \in parts : IsFiniteSet(p)
    BY <1>3
  <1>5. Cells(S, size) = UNION parts
    BY DEF Cells
  <1> HIDE DEF parts
  <1>6. IsFiniteSet(Cells(S, size))
    BY <1>2, <1>4, <1>5, FS_UNION
  <1>7. SumOf(S, size) = Cardinality(Cells(S, size))
    BY DEF SumOf, Cells
  <1> QED  BY <1>6, <1>7, FS_CardinalityType

LEMMA SumOfNone == ASSUME NEW size PROVE SumOf({}, size) = 0
  <1>1. Cells({}, size) = {}
    BY DEF Cells
  <1>2. SumOf({}, size) = Cardinality(Cells({}, size))
    BY DEF SumOf, Cells
  <1> QED  BY <1>1, <1>2, FS_EmptySet

\* A sum whose terms are matched by terms as large of another is no larger.
LEMMA SumInjects ==
    ASSUME NEW S, NEW small, Sizes(S, small), NEW T, NEW size, Sizes(T, size), NEW f \in [S -> T],
           \A c, d \in S : f[c] = f[d] => c = d, \A c \in S : small[c] <= size[f[c]]
    PROVE  SumOf(S, small) <= SumOf(T, size)
  <1> DEFINE A == Cells(S, small)
             B == Cells(T, size)
             g == [x \in A |-> <<f[x[1]], x[2]>>]
  <1>1. /\ IsFiniteSet(A) /\ SumOf(S, small) = Cardinality(A)
        /\ IsFiniteSet(B) /\ SumOf(T, size) = Cardinality(B)
    BY SumIsNatural
  <1>2. \A x : x \in A <=> \E c \in S : \E n \in 1 .. small[c] : x = <<c, n>>
    BY CellsAre
  <1>3. \A x : x \in B <=> \E c \in T : \E n \in 1 .. size[c] : x = <<c, n>>
    BY CellsAre
  <1> HIDE DEF A, B
  <1>4. ASSUME NEW x \in A
        PROVE  x[1] \in S /\ x[2] \in 1 .. small[x[1]] /\ x = <<x[1], x[2]>>
    BY <1>2
  <1>5. ASSUME NEW x \in A
        PROVE  <<f[x[1]], x[2]>> \in B
    <2>1. x[1] \in S /\ x[2] \in 1 .. small[x[1]] /\ f[x[1]] \in T
      BY <1>4
    <2>2. small[x[1]] \in Nat /\ size[f[x[1]]] \in Nat /\ small[x[1]] <= size[f[x[1]]]
      BY <2>1 DEF Sizes
    <2>3. x[2] \in 1 .. size[f[x[1]]]
      BY <2>1, <2>2
    <2> QED  BY <1>3, <2>1, <2>3
  <1>6. ASSUME NEW x \in A, NEW y \in A, <<f[x[1]], x[2]>> = <<f[y[1]], y[2]>>
        PROVE  x = y
    BY <1>4, <1>6
  <1>7. g \in Injection(A, B)
    BY <1>5, <1>6 DEF Injection, IsInjective
  <1> HIDE DEF g
  <1> QED  BY <1>1, <1>7, FS_Injection

LEMMA SumOfPart ==
    ASSUME NEW T, NEW size, Sizes(T, size), NEW S \in SUBSET T
    PROVE  Sizes(S, size) /\ SumOf(S, size) <= SumOf(T, size)
  <1> DEFINE f == [c \in S |-> c]
  <1>1. Sizes(S, size)
    BY FS_Subset DEF Sizes
  <1>2. /\ f \in [S -> T] /\ \A c, d \in S : f[c] = f[d] => c = d
        /\ \A c \in S : size[c] <= size[f[c]]
    <2>1. \A c \in S : size[c] \in Nat
      BY <1>1 DEF Sizes
    <2> QED  BY <2>1
  <1> HIDE DEF f
  <1> QED  BY <1>1, <1>2, SumInjects

LEMMA SumAdds ==
    ASSUME NEW S, NEW size, Sizes(S, size), NEW c, c \notin S, size[c] \in Nat
    PROVE  Sizes(S \cup {c}, size) /\ SumOf(S \cup {c}, size) = SumOf(S, size) + size[c]
  <1> DEFINE U == S \cup {c}
             part == {c} \X (1 .. size[c])
  <1>1. Sizes(U, size)
    BY FS_AddElement DEF Sizes
  <1>2. Cells(U, size) = Cells(S, size) \cup part /\ Cells(S, size) \cap part = {}
    BY DEF Cells
  <1>3. IsFiniteSet(part) /\ Cardinality(part) = size[c]
    <2>1. IsFiniteSet({c}) /\ Cardinality({c}) = 1
      BY FS_Singleton
    <2>2. IsFiniteSet(1 .. size[c]) /\ Cardinality(1 .. size[c]) = size[c]
      BY FS_Interval
    <2>3. IsFiniteSet(part) /\ Cardinality(part) = Cardinality({c}) * Cardinality(1 .. size[c])
      BY <2>1, <2>2, FS_Product
    <2> QED  BY <2>1, <2>2, <2>3
  <1>4. /\ IsFiniteSet(Cells(S, size)) /\ SumOf(S, size) \in Nat /\ SumOf(S, size) = Cardinality(Cells(S, size))
        /\ SumOf(U, size) = Cardinality(Cells(U, size))
    BY <1>1, SumIsNatural
  <1>5. Cardinality(Cells(S, size) \cup part)
          = Cardinality(Cells(S, size)) + Cardinality(part) - Cardinality(Cells(S, size) \cap part)
    BY <1>3, <1>4, FS_Union
  <1>6. Cardinality(Cells(S, size) \cap part) = 0
    BY <1>2, FS_EmptySet
  <1> HIDE DEF part
  <1>7. SumOf(U, size) = SumOf(S, size) + size[c] - 0
    <2>1. SumOf(U, size) = Cardinality(Cells(S, size) \cup part)
      BY <1>2, <1>4
    <2> QED  BY <1>3, <1>4, <1>5, <1>6, <2>1
  <1>8. SumOf(S, size) + size[c] - 0 = SumOf(S, size) + size[c]
    BY <1>4
  <1> QED  BY <1>1, <1>7, <1>8

LEMMA CharsAre ==
    ASSUME NEW T \in SUBSET Chunk
    PROVE  /\ Chars(T) \in Nat /\ \A S \in SUBSET T : Chars(S) <= Chars(T)
           /\ Chars({}) = 0 /\ Sizes(T, Size)
  <1>1. \A S \in SUBSET T : Sizes(S, Size)
    BY PackingAssumption, ChunksAreFinite DEF Sizes
  <1>2. \A S \in SUBSET T : SumOf(S, Size) <= SumOf(T, Size)
    BY <1>1, SumOfPart
  <1>3. SumOf(T, Size) \in Nat
    BY <1>1, SumIsNatural
  <1>4. SumOf({}, Size) = 0
    BY SumOfNone
  <1>5. \A S : Chars(S) = SumOf(S, Size)
    BY DEF Chars
  <1>6. T \in SUBSET T
    OBVIOUS
  <1> QED  BY <1>1, <1>2, <1>3, <1>4, <1>5, <1>6

-----------------------------------------------------------------------------
(***************************************************************************)
(* The packed context: passages of the docstore and what they cost.        *)
(***************************************************************************)
Pieces == [file : {File[c] : c \in Chunk}, sec : {Section[c] : c \in Chunk}, parts : SUBSET Chunk]
CostsOf(items) == [i \in DOMAIN items |-> Cost(items[i])]
Total(items) == SumOf(DOMAIN items, CostsOf(items))

LEMMA CostIs == ASSUME NEW item \in Pieces PROVE Cost(item) \in Nat
  <1>1. item.parts \in SUBSET Chunk
    BY DEF Pieces
  <1>2. Chars(item.parts) \in Nat
    BY <1>1, CharsAre
  <1> QED  BY <1>2 DEF Cost

LEMMA TotalIs ==
    ASSUME NEW items \in Seq(Pieces)
    PROVE  /\ Sizes(DOMAIN items, CostsOf(items)) /\ Total(items) \in Nat
           /\ \A i \in DOMAIN items : CostsOf(items)[i] = Cost(items[i]) /\ Cost(items[i]) \in Nat
  <1>1. Len(items) \in Nat /\ DOMAIN items = 1 .. Len(items) /\ \A i \in DOMAIN items : items[i] \in Pieces
    OBVIOUS
  <1>2. IsFiniteSet(DOMAIN items)
    BY <1>1, FS_Interval
  <1>3. \A i \in DOMAIN items : CostsOf(items)[i] = Cost(items[i]) /\ Cost(items[i]) \in Nat
    BY <1>1, CostIs DEF CostsOf
  <1>4. Sizes(DOMAIN items, CostsOf(items))
    BY <1>2, <1>3 DEF Sizes
  <1> QED  BY <1>3, <1>4, SumIsNatural DEF Total

LEMMA TotalOfNone == Total(<<>>) = 0
  <1>1. DOMAIN <<>> = {}
    OBVIOUS
  <1> QED  BY <1>1, SumOfNone DEF Total

LEMMA TotalAdds ==
    ASSUME NEW items \in Seq(Pieces), NEW item \in Pieces
    PROVE  Append(items, item) \in Seq(Pieces) /\ Total(Append(items, item)) = Total(items) + Cost(item)
  <1> DEFINE more == Append(items, item)
             n == Len(items)
             size == CostsOf(more)
  <1>1. /\ n \in Nat /\ more \in Seq(Pieces) /\ DOMAIN items = 1 .. n /\ DOMAIN more = 1 .. n + 1
        /\ more[n + 1] = item /\ \A i \in 1 .. n : more[i] = items[i]
    OBVIOUS
  <1>2. /\ Sizes(DOMAIN items, CostsOf(items)) /\ Sizes(DOMAIN more, size)
        /\ \A i \in DOMAIN items : CostsOf(items)[i] = Cost(items[i]) /\ Cost(items[i]) \in Nat
        /\ \A i \in DOMAIN more : size[i] = Cost(more[i]) /\ Cost(more[i]) \in Nat
    BY <1>1, TotalIs
  <1> HIDE DEF more, size
  <1>3. \A i \in 1 .. n : CostsOf(items)[i] = size[i]
    BY <1>1, <1>2
  <1>4. Cells(1 .. n, CostsOf(items)) = Cells(1 .. n, size)
    BY <1>3 DEF Cells
  <1>5. SumOf(1 .. n, CostsOf(items)) = SumOf(1 .. n, size)
    BY <1>4 DEF SumOf, Cells
  <1>6. /\ Sizes(1 .. n, size) /\ n + 1 \notin 1 .. n /\ size[n + 1] \in Nat /\ size[n + 1] = Cost(item)
        /\ 1 .. n + 1 = (1 .. n) \cup {n + 1}
    <2>1. size[n + 1] \in Nat /\ size[n + 1] = Cost(item)
      BY <1>1, <1>2
    <2>2. Sizes(1 .. n, size)
      <3>1. 1 .. n \in SUBSET DOMAIN more
        BY <1>1
      <3> QED  BY <1>2, <3>1, SumOfPart
    <2> QED  BY <1>1, <2>1, <2>2
  <1>7. SumOf((1 .. n) \cup {n + 1}, size) = SumOf(1 .. n, size) + size[n + 1]
    <2> DEFINE A == 1 .. n
               c == n + 1
    <2>1. Sizes(A, size) /\ c \notin A /\ size[c] \in Nat
      BY <1>6
    <2> HIDE DEF A, c
    <2>2. SumOf(A \cup {c}, size) = SumOf(A, size) + size[c]
      BY <2>1, SumAdds
    <2> QED  BY <2>2 DEF A, c
  <1>8. Total(more) = SumOf(1 .. n + 1, size) /\ Total(items) = SumOf(1 .. n, CostsOf(items))
    BY <1>1 DEF Total, size
  <1> QED  BY <1>1, <1>5, <1>6, <1>7, <1>8 DEF more

\* Passages taken from a context, each at most once, cost no more than it.
LEMMA TotalInjects ==
    ASSUME NEW some \in Seq(Pieces), NEW items \in Seq(Pieces), NEW f \in [DOMAIN some -> DOMAIN items],
           \A i, j \in DOMAIN some : f[i] = f[j] => i = j, \A i \in DOMAIN some : some[i] = items[f[i]]
    PROVE  Total(some) <= Total(items)
  <1>1. /\ Sizes(DOMAIN items, CostsOf(items)) /\ Sizes(DOMAIN some, CostsOf(some))
        /\ \A i \in DOMAIN items : CostsOf(items)[i] = Cost(items[i])
        /\ \A i \in DOMAIN some : CostsOf(some)[i] = Cost(some[i]) /\ Cost(some[i]) \in Nat
    BY TotalIs
  <1>2. \A i \in DOMAIN some : CostsOf(some)[i] <= CostsOf(items)[f[i]]
    BY <1>1
  <1>3. SumOf(DOMAIN some, CostsOf(some)) <= SumOf(DOMAIN items, CostsOf(items))
    BY <1>1, <1>2, SumInjects
  <1> QED  BY <1>3 DEF Total

LEMMA GreatestExists ==
    ASSUME NEW n \in Nat, NEW S \in SUBSET (0 .. n), S # {}
    PROVE  \E m \in S : \A x \in S : x <= m
  <1> DEFINE U == {u \in Nat : \A x \in S : x <= u}
             u == Min(U)
  <1>1. U \in SUBSET Nat /\ n \in U
    OBVIOUS
  <1>2. \A v : v \in U <=> v \in Nat /\ \A x \in S : x <= v
    OBVIOUS
  <1> HIDE DEF U
  <1>3. u \in U /\ \A v \in U : u <= v
    BY <1>1, LeastExists
  <1> HIDE DEF u
  <1>4. u \in Nat /\ \A x \in S : x <= u /\ x \in Nat
    BY <1>2, <1>3
  <1>5. u \in S
    <2> SUFFICES ASSUME u \notin S PROVE FALSE
      OBVIOUS
    <2>1. PICK y \in S : TRUE
      OBVIOUS
    <2>2. \A x \in S : x <= u - 1
      BY <1>4
    <2>3. u - 1 \in Nat
      BY <1>4, <2>1
    <2>4. u - 1 \in U
      BY <1>2, <2>2, <2>3
    <2> QED  BY <1>3, <1>4, <2>4
  <1> QED  BY <1>4, <1>5

LEMMA LeadingIs ==
    ASSUME NEW T, NEW seq \in Seq(T), NEW m \in Nat, m <= Len(seq)
    PROVE  SubSeq(seq, 1, m) \in Seq(T) /\ ToSet(SubSeq(seq, 1, m)) \subseteq ToSet(seq)
  <1>1. /\ SubSeq(seq, 1, m) \in Seq(T) /\ Len(SubSeq(seq, 1, m)) = m
        /\ \A i \in 1 .. m : SubSeq(seq, 1, m)[i] = seq[i]
    OBVIOUS
  <1> QED  BY <1>1 DEF ToSet

LEMMA PrefixIs ==
    ASSUME NEW parts \in SUBSET Chunk, NEW room \in Nat
    PROVE  Prefix(parts, room) \in SUBSET parts /\ Chars(Prefix(parts, room)) <= room
  <1> DEFINE blocks == InOrder(parts)
             n == Len(blocks)
             part(k) == ToSet(SubSeq(blocks, 1, k))
             fits == {k \in 0 .. n : Chars(part(k)) <= room}
             best == CHOOSE k \in fits : \A j \in fits : j <= k
  <1>1. blocks \in Seq(parts) /\ ToSet(blocks) = parts /\ n \in Nat
    BY InOrderIs
  <1>2. Prefix(parts, room) = part(best)
    BY DEF Prefix
  <1> HIDE DEF blocks
  <1>3. 0 \in fits
    <2>1. SubSeq(blocks, 1, 0) = <<>>
      BY <1>1
    <2>2. Chars(part(0)) = 0
      BY <2>1, NoneIsEmpty, CharsAre
    <2> QED  BY <1>1, <2>2
  <1>4. \A k \in 0 .. n : part(k) \in SUBSET parts
    BY <1>1, LeadingIs
  <1>5. \A k : k \in fits <=> k \in 0 .. n /\ Chars(part(k)) <= room
    OBVIOUS
  <1> HIDE DEF fits, n, part
  <1>6. \E k \in fits : \A j \in fits : j <= k
    <2>1. fits \in SUBSET (0 .. n) /\ fits # {}
      BY <1>3, <1>5
    <2> QED  BY <1>1, <2>1, GreatestExists
  <1>7. best \in fits
    BY <1>6
  <1> HIDE DEF best
  <1> QED  BY <1>2, <1>4, <1>5, <1>7

LEMMA SectionsAre ==
    /\ IsFiniteSet(Sections) /\ Sections \subseteq Pieces
    /\ \A item \in Sections :
         /\ item.parts \in SUBSET (Chunk \ Gone) /\ item.parts # {}
         /\ item = Whole(item.file, item.sec)
         /\ \A c \in item.parts : File[c] = item.file /\ Section[c] = item.sec
  <1> DEFINE S == Chunk \ Gone
             whole == [c \in S |-> Whole(File[c], Section[c])]
  <1>1. IsFiniteSet(S)
    BY ChunksAreFinite
  <1>2. Sections = {whole[c] : c \in S}
    BY DEF Sections
  <1>3. whole \in Surjection(S, Sections)
    BY <1>2 DEF Surjection
  <1>4. IsFiniteSet(Sections)
    <2> HIDE DEF S, whole
    <2> QED  BY <1>1, <1>3, FS_Surjection
  <1>5. ASSUME NEW item \in Sections
        PROVE  /\ item \in Pieces
               /\ item.parts \in SUBSET (Chunk \ Gone) /\ item.parts # {}
               /\ item = Whole(item.file, item.sec)
               /\ \A c \in item.parts : File[c] = item.file /\ Section[c] = item.sec
    <2>1. PICK c \in Chunk \ Gone : item = Whole(File[c], Section[c])
      BY DEF Sections
    <2>2. /\ item.file = File[c] /\ item.sec = Section[c]
          /\ item.parts = {d \in Chunk \ Gone : File[d] = File[c] /\ Section[d] = Section[c]}
      BY <2>1 DEF Whole
    <2>3. c \in item.parts
      BY <2>2
    <2>4. item = [file |-> File[c], sec |-> Section[c], parts |-> item.parts]
      BY <2>1, <2>2 DEF Whole
    <2>5. item \in Pieces
      BY <2>2, <2>4 DEF Pieces
    <2> QED  BY <2>1, <2>2, <2>3, <2>5
  <1>6. Sections \subseteq Pieces
    BY <1>5
  <1> QED  BY <1>4, <1>5, <1>6

LEMMA ByPositionIs ==
    ASSUME NEW items \in SUBSET Sections
    PROVE  /\ IsFiniteSet(items) /\ ByPosition(items) \in Seq(items) /\ ToSet(ByPosition(items)) = items
           /\ Len(ByPosition(items)) = Cardinality(items) /\ Cardinality(items) \in Nat
  <1> DEFINE head(item) == InOrder(item.parts)[1]
             key == [item \in items |-> Position[head(item)]]
             s == ByKey(items, key)
  <1>1. IsFiniteSet(items)
    BY SectionsAre, FS_Subset
  <1>2. ASSUME NEW item \in items PROVE head(item) \in item.parts /\ head(item) \in Chunk
    <2>1. item.parts \in SUBSET Chunk /\ item.parts # {}
      BY SectionsAre
    <2> DEFINE P == item.parts
    <2> HIDE DEF P
    <2>2. InOrder(P) \in Seq(P) /\ ToSet(InOrder(P)) = P
      BY <2>1, InOrderIs DEF P
    <2>3. P # {}
      BY <2>1 DEF P
    <2>4. 1 \in DOMAIN InOrder(P)
      BY <2>2, <2>3 DEF ToSet
    <2>5. InOrder(P)[1] \in P
      BY <2>2, <2>4
    <2> QED  BY <2>1, <2>5 DEF P
  <1> HIDE DEF head
  <1>3. IsKey(items, key)
    <2>1. \A item \in items : key[item] = Position[head(item)]
      OBVIOUS
    <2> HIDE DEF key
    <2>2. \A item \in items : key[item] \in Nat
      BY <1>2, <2>1, PackingAssumption
    <2>3. ASSUME NEW a \in items, NEW b \in items, key[a] = key[b] PROVE a = b
      <3>1. head(a) = head(b)
        BY <1>2, <2>1, <2>3, PackingAssumption
      <3>2. a.file = b.file /\ a.sec = b.sec
        BY <1>2, <3>1, SectionsAre
      <3> QED  BY <3>2, SectionsAre
    <2> QED  BY <2>2, <2>3 DEF IsKey
  <1>4. ByPosition(items) = s
    BY DEF ByPosition, head
  <1> HIDE DEF key
  <1>5. /\ s \in Seq(items) /\ Len(s) = Cardinality(items) /\ Cardinality(items) \in Nat
        /\ \A c \in items : \E k \in 1 .. Cardinality(items) : s[k] = c
    BY <1>1, <1>3, ByKeyIs
  <1> HIDE DEF s
  <1>6. ToSet(s) = items
    BY <1>5 DEF ToSet
  <1> QED  BY <1>1, <1>4, <1>5, <1>6

LEMMA CandidatesAre ==
    ASSUME NEW seq \in Seq(Chunk)
    PROVE  LegacyCandidates(r, seq) \in Seq(Pieces)
  <1> DEFINE roots == Roots(r)
             children == {item \in Offered(r) : \E root \in roots : Under(item, root)}
             direct == Kept(r.direct, seq)
             rest == IF roots = {} /\ direct = <<>> THEN seq ELSE direct
             F == {c \in ToSet(rest) : Visible(r, File[c]) /\ Applies(r, Passage(c))}
             fit == Kept(F, rest)
             single == [k \in DOMAIN fit |-> Passage(fit[k])]
             heads == ByPosition(roots)
             below == ByPosition(children)
  <1>1. LegacyCandidates(r, seq) = heads \o below \o single
    BY DEF LegacyCandidates
  <1>2. roots \in SUBSET Sections /\ children \in SUBSET Sections
    BY DEF Roots, Offered
  <1> HIDE DEF roots, children
  <1>3. heads \in Seq(roots) /\ below \in Seq(children)
    BY <1>2, ByPositionIs
  <1>4. heads \in Seq(Pieces) /\ below \in Seq(Pieces)
    BY <1>2, <1>3, SectionsAre
  <1>5. single \in Seq(Pieces)
    <2>1. direct \in Seq(Chunk)
      BY KeptIs
    <2>2. rest \in Seq(Chunk)
      BY <2>1
    <2> HIDE DEF rest, F
    <2>3. fit \in Seq(Chunk)
      BY <2>2, KeptIs
    <2> HIDE DEF fit
    <2>4. \A c \in Chunk : Passage(c) \in Pieces
      BY DEF Passage, Pieces
    <2>5. Len(fit) \in Nat /\ DOMAIN fit = 1 .. Len(fit) /\ \A k \in 1 .. Len(fit) : Passage(fit[k]) \in Pieces
      BY <2>3, <2>4
    <2> QED  BY <2>5
  <1> HIDE DEF heads, below, single
  <1> QED  BY <1>1, <1>4, <1>5

\* A context is kept in part: the places it comes from are each used once.
IsPart(some, items, f) ==
    /\ f \in [DOMAIN some -> DOMAIN items]
    /\ \A i, j \in DOMAIN some : f[i] = f[j] => i = j
    /\ \A i \in DOMAIN some : some[i] = items[f[i]]

LEMMA KeptIsPart ==
    ASSUME NEW T, NEW items \in Seq(T), NEW S
    PROVE  \E f : IsPart(Kept(S, items), items, f) /\ \A i \in DOMAIN Kept(S, items) : items[f[i]] \in S
  <1> DEFINE pl == Places(Where(items, S))
             some == Kept(S, items)
  <1>1. pl = Places(Where(items, S))
    OBVIOUS
  <1> HIDE DEF pl, some
  <1>2. /\ pl \in Seq(DOMAIN items) /\ ToSet(pl) = Where(items, S)
        /\ \A i, j \in 1 .. Len(pl) : i < j => pl[i] < pl[j]
        /\ some \in Seq(T) /\ Len(some) = Len(pl)
        /\ \A k \in 1 .. Len(pl) : some[k] = items[pl[k]]
    BY <1>1, KeptPlaces DEF some
  <1>3. DOMAIN some = 1 .. Len(pl) /\ DOMAIN pl = 1 .. Len(pl) /\ pl \in [1 .. Len(pl) -> DOMAIN items] /\ Len(pl) \in Nat
    BY <1>2
  <1>4. \A i \in 1 .. Len(pl) : pl[i] \in Nat
    BY <1>2
  <1>5. \A i, j \in 1 .. Len(pl) : pl[i] = pl[j] => i = j
    <2> SUFFICES ASSUME NEW i \in 1 .. Len(pl), NEW j \in 1 .. Len(pl), i # j
                 PROVE  pl[i] # pl[j]
      OBVIOUS
    <2>1. i < j \/ j < i
      BY <1>3
    <2> QED  BY <1>2, <1>4, <2>1
  <1>6. IsPart(some, items, pl)
    BY <1>2, <1>3, <1>5 DEF IsPart
  <1>7. \A i \in DOMAIN some : items[pl[i]] \in S
    <2>1. \A i \in 1 .. Len(pl) : pl[i] \in ToSet(pl)
      BY <1>2, RangeIs
    <2> QED  BY <1>2, <1>3, <2>1 DEF Where
  <1> QED  BY <1>6, <1>7 DEF some

LEMMA PartCosts ==
    ASSUME NEW some \in Seq(Pieces), NEW items \in Seq(Pieces), NEW f, IsPart(some, items, f)
    PROVE  Total(some) <= Total(items)
  BY TotalInjects DEF IsPart

LEMMA ExceptionsLastIs ==
    ASSUME NEW items \in Seq(Pieces)
    PROVE  ExceptionsLast(r, items) \in Seq(Pieces) /\ Total(ExceptionsLast(r, items)) <= Total(items)
  <1> DEFINE last == IF r.exceptions THEN {} ELSE {i \in ToSet(items) : i.sec \in Exception}
             main == ToSet(items) \ last
             a == Kept(main, items)
             b == Kept(last, items)
             all == a \o b
  <1>1. ExceptionsLast(r, items) = all /\ main \cap last = {}
    BY DEF ExceptionsLast
  <1> HIDE DEF last, main
  <1>2. a \in Seq(Pieces) /\ b \in Seq(Pieces)
    BY KeptIs
  <1>3. PICK f : IsPart(a, items, f) /\ \A i \in DOMAIN a : items[f[i]] \in main
    BY KeptIsPart
  <1>4. PICK g : IsPart(b, items, g) /\ \A i \in DOMAIN b : items[g[i]] \in last
    BY KeptIsPart
  <1> HIDE DEF a, b
  <1> DEFINE n == Len(a)
             m == Len(b)
             h == [i \in 1 .. n + m |-> IF i <= n THEN f[i] ELSE g[i - n]]
  <1>5. /\ all \in Seq(Pieces) /\ n \in Nat /\ m \in Nat /\ DOMAIN all = 1 .. n + m
        /\ DOMAIN a = 1 .. n /\ DOMAIN b = 1 .. m
        /\ \A i \in 1 .. n : all[i] = a[i]
        /\ \A i \in 1 .. m : all[n + i] = b[i]
    BY <1>2, JoinIs
  <1>6. \A i \in 1 .. n + m : i \in 1 .. n \/ (i \in n + 1 .. n + m /\ i - n \in 1 .. m)
    BY <1>5
  <1>7. \A i \in 1 .. n + m : h[i] = IF i <= n THEN f[i] ELSE g[i - n]
    OBVIOUS
  <1>8. DOMAIN h = 1 .. n + m /\ h = [i \in 1 .. n + m |-> h[i]]
    OBVIOUS
  <1> HIDE DEF all, h, n, m
  <1>9. ASSUME NEW i \in 1 .. n + m
        PROVE  /\ h[i] \in DOMAIN items /\ all[i] = items[h[i]]
               /\ i <= n => i \in 1 .. n /\ h[i] = f[i] /\ items[h[i]] \in main
               /\ ~(i <= n) => \E k \in 1 .. m : n + k = i /\ h[i] = g[k] /\ items[h[i]] \in last
    <2>1. CASE i <= n
      <3>1. i \in 1 .. n /\ h[i] = f[i] /\ all[i] = a[i]
        BY <1>5, <1>6, <1>7, <2>1
      <3>2. f[i] \in DOMAIN items /\ a[i] = items[f[i]] /\ items[f[i]] \in main
        BY <1>3, <1>5, <3>1 DEF IsPart
      <3> QED  BY <2>1, <3>1, <3>2
    <2>2. CASE ~(i <= n)
      <3> DEFINE k == i - n
      <3>1. h[i] = g[k]
        BY <1>7, <2>2
      <3>2. k \in 1 .. m /\ n + k = i
        BY <1>5, <1>6, <2>2
      <3> HIDE DEF k
      <3>3. all[i] = b[k]
        BY <1>5, <3>2
      <3>4. g[k] \in DOMAIN items /\ b[k] = items[g[k]] /\ items[g[k]] \in last
        BY <1>4, <1>5, <3>2 DEF IsPart
      <3> QED  BY <2>2, <3>1, <3>2, <3>3, <3>4
    <2> QED  BY <2>1, <2>2
  <1>10. ASSUME NEW i \in 1 .. n + m, NEW j \in 1 .. n + m, h[i] = h[j]
         PROVE  i = j
    <2>1. CASE i <= n /\ j <= n
      <3>1. f[i] = f[j] /\ i \in DOMAIN a /\ j \in DOMAIN a
        BY <1>5, <1>9, <1>10, <2>1
      <3> QED  BY <1>3, <3>1 DEF IsPart
    <2>2. CASE ~(i <= n) /\ ~(j <= n)
      <3>1. PICK k \in 1 .. m : n + k = i /\ h[i] = g[k]
        BY <1>9, <2>2
      <3>2. PICK l \in 1 .. m : n + l = j /\ h[j] = g[l]
        BY <1>9, <2>2
      <3>3. k = l
        BY <1>4, <1>5, <1>10, <3>1, <3>2 DEF IsPart
      <3> QED  BY <3>1, <3>2, <3>3
    <2>3. CASE (i <= n /\ ~(j <= n)) \/ (~(i <= n) /\ j <= n)
      <3>1. (items[h[i]] \in main /\ items[h[j]] \in last) \/ (items[h[i]] \in last /\ items[h[j]] \in main)
        BY <1>9, <2>3
      <3>2. items[h[i]] = items[h[j]]
        BY <1>10
      <3> QED  BY <1>1, <3>1, <3>2
    <2> QED  BY <2>1, <2>2, <2>3
  <1>11. IsPart(all, items, h)
    BY <1>5, <1>8, <1>9, <1>10 DEF IsPart
  <1> QED  BY <1>1, <1>5, <1>11, PartCosts

-----------------------------------------------------------------------------
(* The two packers keep within the room they are given.                    *)

LEMMA Budgets ==
    MaxChars \in Nat /\ MinRemaining \in Nat /\ FamilyChars \in Nat /\ FamilyMax \in Nat /\ MaxSlots \in Nat
  BY PackingAssumption

Accounts == {acc \in [out : Seq(Pieces), used : Nat, seen : SUBSET Pieces, stop : BOOLEAN] :
               acc.used = Total(acc.out) /\ acc.used <= MaxChars}

LEMMA TakeIs ==
    ASSUME NEW acc \in Accounts, NEW item \in Pieces
    PROVE  Take(r, acc, item) \in Accounts
  <1> DEFINE room == MaxChars - acc.used
             part == Prefix(item.parts, room)
             cut == [item EXCEPT !.parts = part]
             full == Len(acc.out) + 1 >= LegacyLimit(r)
             new == [out |-> Append(acc.out, cut), used |-> acc.used + Cost(cut),
                     seen |-> acc.seen \cup {item}, stop |-> full]
  <1>1. /\ acc.out \in Seq(Pieces) /\ acc.used \in Nat /\ acc.seen \in SUBSET Pieces
        /\ acc.used = Total(acc.out) /\ acc.used <= MaxChars
    BY DEF Accounts
  <1>2. room \in Nat
    BY <1>1, Budgets
  <1>3. \/ Take(r, acc, item) = acc
        \/ Take(r, acc, item) = [acc EXCEPT !.stop = TRUE]
        \/ Take(r, acc, item) = new
    BY DEF Take
  <1>4. [acc EXCEPT !.stop = TRUE] \in Accounts
    BY DEF Accounts
  <1>5. new \in Accounts
    <2> HIDE DEF full, part, room
    <2>1. item.parts \in SUBSET Chunk
      BY DEF Pieces
    <2>2. part \in SUBSET item.parts /\ Chars(part) <= room
      BY <1>2, <2>1, PrefixIs DEF part
    <2>3. cut \in Pieces /\ cut.parts = part
      BY <2>1, <2>2 DEF Pieces
    <2> HIDE DEF cut
    <2>4. Cost(cut) \in Nat /\ Cost(cut) <= room
      BY <2>2, <2>3, CostIs DEF Cost
    <2>5. Append(acc.out, cut) \in Seq(Pieces) /\ Total(Append(acc.out, cut)) = Total(acc.out) + Cost(cut)
      BY <1>1, <2>3, TotalAdds
    <2>6. acc.used + Cost(cut) \in Nat /\ acc.used + Cost(cut) <= MaxChars
      BY <1>1, <2>4, Budgets DEF room
    <2>7. acc.seen \cup {item} \in SUBSET Pieces
      BY <1>1
    <2>8. full \in BOOLEAN
      BY DEF full
    <2> QED  BY <1>1, <2>5, <2>6, <2>7, <2>8 DEF Accounts
  <1> QED  BY <1>3, <1>4, <1>5

LEMMA TakenIs ==
    ASSUME NEW items \in Seq(Pieces)
    PROVE  Taken(r, items) \in Seq(Pieces) /\ Total(Taken(r, items)) <= MaxChars
  <1> DEFINE L == Len(items)
             start == [out |-> <<>>, used |-> 0, seen |-> {}, stop |-> FALSE]
             step == [x \in (1 .. L) \X Accounts |-> Take(r, x[2], items[x[1]])]
             Step(f, n) == IF n = 0 THEN start ELSE Take(r, f[n - 1], items[n])
             Is(f) == f = [n \in 0 .. L |-> Step(f, n)]
             all == CHOOSE f : Is(f)
  <1>1. L \in Nat /\ \A n \in 1 .. L : items[n] \in Pieces
    OBVIOUS
  <1>2. Taken(r, items) = all[L].out
    BY DEF Taken
  <1>3. start \in Accounts
    BY TotalOfNone, Budgets DEF Accounts
  <1>4. step \in [(1 .. L) \X Accounts -> Accounts]
    <2> HIDE DEF L
    <2>1. ASSUME NEW x \in (1 .. L) \X Accounts
          PROVE  Take(r, x[2], items[x[1]]) \in Accounts
      BY <1>1, TakeIs
    <2> QED  BY <2>1
  <1> HIDE DEF start
  <1>5. PICK f : IsLoop(f, Accounts, start, L, step)
    <2> HIDE DEF step, L
    <2> QED  BY <1>1, <1>3, <1>4, Recursion
  <1>6. Is(f)
    <2>2. f = [n \in 0 .. L |-> f[n]] /\ f[0] = start
      BY <1>5 DEF IsLoop
    <2>3. \A n \in 1 .. L : f[n] = Step(f, n)
      <3> SUFFICES ASSUME NEW n \in 1 .. L
                   PROVE  f[n] = Step(f, n)
        OBVIOUS
      <3>1. n - 1 \in 0 .. L /\ n # 0
        BY <1>1
      <3>2. f[n - 1] \in Accounts /\ f[n] = step[<<n, f[n - 1]>>]
        BY <1>5, <3>1 DEF IsLoop
      <3>3. step[<<n, f[n - 1]>>] = Take(r, f[n - 1], items[n])
        BY <3>2
      <3> QED  BY <3>1, <3>2, <3>3
    <2>4. f[0] = Step(f, 0)
      BY <2>2
    <2>5. \A n \in 0 .. L : n = 0 \/ n \in 1 .. L
      BY <1>1
    <2> HIDE DEF Step
    <2>6. \A n \in 0 .. L : f[n] = Step(f, n)
      BY <2>3, <2>4, <2>5
    <2> QED  BY <2>2, <2>6
  <1>7. Is(all)
    <2> HIDE DEF Is
    <2> QED  BY <1>6
  <1> HIDE DEF all
  <1>8. all[0] = start /\ \A n \in 1 .. L : all[n] = Take(r, all[n - 1], items[n])
    <2>1. \A n \in 0 .. L : all[n] = Step(all, n)
      <3> HIDE DEF Step
      <3> QED  BY <1>7
    <2>2. 0 \in 0 .. L /\ \A n \in 1 .. L : n \in 0 .. L /\ n # 0
      BY <1>1
    <2> HIDE DEF L
    <2> QED  BY <2>1, <2>2
  <1> HIDE DEF L, Is, step
  <1>9. ASSUME NEW n \in 0 .. L PROVE all[n] \in Accounts
    <2> DEFINE S == {k \in Nat : k <= L => all[k] \in Accounts}
    <2>1. 0 \in S
      BY <1>3, <1>8
    <2>2. ASSUME NEW k \in S PROVE k + 1 \in S
      <3> SUFFICES ASSUME k + 1 <= L
                   PROVE  all[k + 1] \in Accounts
        OBVIOUS
      <3>1. k \in Nat /\ k + 1 \in 1 .. L /\ all[k] \in Accounts
        BY <1>1
      <3>2. all[k + 1] = Take(r, all[k], items[k + 1])
        <4>1. (k + 1) - 1 = k
          BY <3>1
        <4> QED  BY <1>8, <3>1, <4>1
      <3>3. items[k + 1] \in Pieces
        BY <1>1, <3>1
      <3> QED  BY <3>1, <3>2, <3>3, TakeIs
    <2>3. S \in SUBSET Nat
      OBVIOUS
    <2> HIDE DEF S
    <2>4. S = Nat
      BY <2>1, <2>2, <2>3, Induction
    <2>5. n \in S /\ n <= L
      BY <1>1, <2>4
    <2> QED  BY <2>5 DEF S
  <1>10. all[L] \in Accounts
    BY <1>1, <1>9
  <1> QED  BY <1>2, <1>10 DEF Accounts

LEMMA LegacyPackedIs ==
    ASSUME NEW seq \in Seq(Chunk)
    PROVE  LegacyPacked(r, seq) \in Seq(Pieces) /\ Total(LegacyPacked(r, seq)) <= MaxChars
  <1> DEFINE items == LegacyCandidates(r, seq)
             taken == Taken(r, items)
             last == ExceptionsLast(r, taken)
  <1>1. LegacyPacked(r, seq) = last
    BY DEF LegacyPacked
  <1>2. items \in Seq(Pieces)
    BY CandidatesAre
  <1> HIDE DEF items
  <1>3. taken \in Seq(Pieces) /\ Total(taken) <= MaxChars
    BY <1>2, TakenIs
  <1> HIDE DEF taken
  <1>4. last \in Seq(Pieces) /\ Total(last) <= Total(taken)
    BY <1>3, ExceptionsLastIs
  <1> HIDE DEF last
  <1>5. Total(last) \in Nat /\ Total(taken) \in Nat
    BY <1>3, <1>4, TotalIs
  <1> QED  BY <1>1, <1>3, <1>4, <1>5, Budgets

\* What an excerpt may hold: within the room, every condition with its equation.
Excerpts(parts, room) ==
    {S \in SUBSET parts : Chars(S) <= room /\ \A c \in S : Guards[c] \cap parts \subseteq S}

LEMMA ReserveIs ==
    ASSUME NEW parts \in SUBSET Chunk, NEW room, NEW S \in Excerpts(parts, room), NEW c \in Chunk
    PROVE  Reserve(parts, room, S, c) \in Excerpts(parts, room)
  <1> DEFINE next == S \cup (({c} \cup Guards[c]) \cap parts)
  <1>1. Reserve(parts, room, S, c) = IF Chars(next) <= room THEN next ELSE S
    BY DEF Reserve
  <1>2. S \in SUBSET parts /\ \A d \in S : Guards[d] \cap parts \subseteq S
    BY DEF Excerpts
  <1>3. next \in SUBSET parts
    BY <1>2
  <1>4. \A d \in next : Guards[d] \cap parts \subseteq next
    <2> SUFFICES ASSUME NEW d \in next PROVE Guards[d] \cap parts \subseteq next
      OBVIOUS
    <2>1. CASE d \in S
      BY <1>2, <2>1
    <2>2. CASE d = c
      BY <2>2
    <2>3. CASE d \in Guards[c]
      <3>1. Guards[d] = {}
        BY <2>3, PackingAssumption
      <3> QED  BY <3>1
    <2> QED  BY <2>1, <2>2, <2>3
  <1> HIDE DEF next
  <1> QED  BY <1>1, <1>3, <1>4 DEF Excerpts

LEMMA FillIs ==
    ASSUME NEW parts \in SUBSET Chunk, NEW room, NEW S \in Excerpts(parts, room), NEW wants \in Seq(Chunk)
    PROVE  Fill(parts, room, S, wants) \in Excerpts(parts, room)
  <1> DEFINE L == Len(wants)
             V == Excerpts(parts, room)
             step == [x \in (1 .. L) \X V |-> Reserve(parts, room, x[2], wants[x[1]])]
             Step(f, n) == IF n = 0 THEN S ELSE Reserve(parts, room, f[n - 1], wants[n])
             Is(f) == f = [n \in 0 .. L |-> Step(f, n)]
             all == CHOOSE f : Is(f)
  <1>1. L \in Nat /\ \A n \in 1 .. L : wants[n] \in Chunk
    OBVIOUS
  <1>2. Fill(parts, room, S, wants) = all[L]
    BY DEF Fill
  <1>3. S \in V
    OBVIOUS
  <1>4. step \in [(1 .. L) \X V -> V]
    <2> HIDE DEF L
    <2>1. ASSUME NEW x \in (1 .. L) \X V
          PROVE  Reserve(parts, room, x[2], wants[x[1]]) \in V
      BY <1>1, ReserveIs
    <2> HIDE DEF V
    <2> QED  BY <2>1
  <1>5. \A T \in V, c \in Chunk : Reserve(parts, room, T, c) \in V
    BY ReserveIs
  <1> HIDE DEF V
  <1>6. PICK f : IsLoop(f, V, S, L, step)
    <2> HIDE DEF step, L
    <2> QED  BY <1>1, <1>3, <1>4, Recursion
  <1>7. Is(f)
    <2>2. f = [n \in 0 .. L |-> f[n]] /\ f[0] = S
      BY <1>6 DEF IsLoop
    <2>3. \A n \in 1 .. L : f[n] = Step(f, n)
      <3> SUFFICES ASSUME NEW n \in 1 .. L
                   PROVE  f[n] = Step(f, n)
        OBVIOUS
      <3>1. n - 1 \in 0 .. L /\ n # 0
        BY <1>1
      <3>2. f[n - 1] \in V /\ f[n] = step[<<n, f[n - 1]>>]
        BY <1>6, <3>1 DEF IsLoop
      <3>3. step[<<n, f[n - 1]>>] = Reserve(parts, room, f[n - 1], wants[n])
        BY <3>2
      <3> QED  BY <3>1, <3>2, <3>3
    <2>4. f[0] = Step(f, 0)
      BY <2>2
    <2>5. \A n \in 0 .. L : n = 0 \/ n \in 1 .. L
      BY <1>1
    <2> HIDE DEF Step
    <2>6. \A n \in 0 .. L : f[n] = Step(f, n)
      BY <2>3, <2>4, <2>5
    <2> QED  BY <2>2, <2>6
  <1>8. Is(all)
    <2> HIDE DEF Is
    <2> QED  BY <1>7
  <1> HIDE DEF all
  <1>9. all[0] = S /\ \A n \in 1 .. L : all[n] = Reserve(parts, room, all[n - 1], wants[n])
    <2>1. \A n \in 0 .. L : all[n] = Step(all, n)
      <3> HIDE DEF Step
      <3> QED  BY <1>8
    <2>2. 0 \in 0 .. L /\ \A n \in 1 .. L : n \in 0 .. L /\ n # 0
      BY <1>1
    <2> HIDE DEF L
    <2> QED  BY <2>1, <2>2
  <1> HIDE DEF L, Is, step
  <1> DEFINE N == {k \in Nat : k <= L => all[k] \in V}
  <1>10. 0 \in N
    BY <1>3, <1>9
  <1>11. ASSUME NEW k \in N PROVE k + 1 \in N
    <2> SUFFICES ASSUME k + 1 <= L
                 PROVE  all[k + 1] \in V
      OBVIOUS
    <2>1. k \in Nat /\ k + 1 \in 1 .. L /\ all[k] \in V
      BY <1>1
    <2>2. all[k + 1] = Reserve(parts, room, all[k], wants[k + 1])
      <3>1. (k + 1) - 1 = k
        BY <2>1
      <3> QED  BY <1>9, <2>1, <3>1
    <2>3. wants[k + 1] \in Chunk
      BY <1>1, <2>1
    <2> QED  BY <1>5, <2>1, <2>2, <2>3
  <1>12. N \in SUBSET Nat /\ \A n : n \in N => (n <= L => all[n] \in V)
    OBVIOUS
  <1> HIDE DEF N
  <1>13. N = Nat
    BY <1>10, <1>11, <1>12, Induction
  <1> QED  BY <1>1, <1>2, <1>12, <1>13 DEF V

LEMMA PackagesAre ==
    ASSUME NEW parts \in SUBSET Chunk
    PROVE  Packages(parts) \in Seq(parts)
  <1> DEFINE equations == {c \in parts : Uses[c] # {} \/ Legend[c] # {} \/ Guards[c] # {}}
             first == InOrder(equations)
             roots == SubSeq(first, 1, Least(3, Cardinality(equations)))
             others == ((UNION {Uses[c] : c \in ToSet(roots)}) \cap parts) \ ToSet(roots)
             hops == InOrder(others)
  <1>1. equations \in SUBSET parts /\ equations \in SUBSET Chunk
    OBVIOUS
  <1> HIDE DEF equations
  <1>2. first \in Seq(equations) /\ Len(first) = Cardinality(equations) /\ Cardinality(equations) \in Nat
    BY <1>1, InOrderIs
  <1> HIDE DEF first
  <1>3. roots \in Seq(parts)
    <2> DEFINE m == Least(3, Cardinality(equations))
    <2>1. m \in Nat /\ m <= Len(first)
      BY <1>2 DEF Least
    <2>2. first \in Seq(parts)
      BY <1>1, <1>2
    <2> HIDE DEF m
    <2>3. SubSeq(first, 1, m) \in Seq(parts)
      BY <2>1, <2>2, LeadingIs
    <2> QED  BY <2>3 DEF m
  <1> HIDE DEF roots
  <1>4. others \in SUBSET parts /\ others \in SUBSET Chunk
    <2> SUFFICES ASSUME NEW c \in others PROVE c \in parts
      OBVIOUS
    <2> QED  OBVIOUS
  <1> HIDE DEF others
  <1>5. hops \in Seq(others) /\ Len(hops) \in Nat
    BY <1>4, InOrderIs
  <1> HIDE DEF hops
  <1>6. SubSeq(hops, 1, Least(3, Len(hops))) \in Seq(parts)
    <2> DEFINE m == Least(3, Len(hops))
    <2>1. m \in Nat /\ m <= Len(hops)
      BY <1>5 DEF Least
    <2>2. hops \in Seq(parts)
      BY <1>4, <1>5
    <2> HIDE DEF m
    <2>3. SubSeq(hops, 1, m) \in Seq(parts)
      BY <2>1, <2>2, LeadingIs
    <2> QED  BY <2>3 DEF m
  <1>7. Packages(parts) = roots \o SubSeq(hops, 1, Least(3, Len(hops)))
    BY DEF Packages, roots, hops, others, first, equations
  <1> QED  BY <1>3, <1>6, <1>7

LEMMA ExcerptIs ==
    ASSUME NEW parts \in SUBSET Chunk, NEW room \in Nat, NEW quoted, NEW order \in Seq(Chunk)
    PROVE  Excerpt(parts, room, quoted, order) \in Excerpts(parts, room)
  <1> DEFINE V == Excerpts(parts, room)
             packages == Packages(parts)
             wanted == InOrder(quoted \cap parts)
             quotes == Fill(parts, room, {}, wanted)
             formulas == Fill(parts, room, quotes, packages)
             L == (UNION {Legend[c] : c \in ToSet(packages) \cap formulas}) \cap parts
             legends == InOrder(L)
             rows == Fill(parts, room, formulas, legends)
             blocks == Kept(parts, order)
  <1>1. Excerpt(parts, room, quoted, order) = Fill(parts, room, rows, blocks)
    BY DEF Excerpt
  <1>2. {} \in V
    <2>1. Chars({}) = 0
      BY CharsAre
    <2> QED  BY <2>1 DEF Excerpts
  <1>3. \A S \in V, wants \in Seq(Chunk) : Fill(parts, room, S, wants) \in V
    BY FillIs
  <1> HIDE DEF V
  <1>4. \A S \in SUBSET parts : InOrder(S) \in Seq(Chunk)
    <2> SUFFICES ASSUME NEW S \in SUBSET parts PROVE InOrder(S) \in Seq(Chunk)
      OBVIOUS
    <2>1. InOrder(S) \in Seq(S) /\ S \subseteq Chunk
      BY InOrderIs
    <2> QED  BY <2>1
  <1>5. wanted \in Seq(Chunk)
    BY <1>4
  <1> HIDE DEF wanted
  <1>6. packages \in Seq(Chunk)
    <2>1. packages \in Seq(parts)
      BY PackagesAre
    <2> QED  BY <2>1
  <1> HIDE DEF packages
  <1>7. quotes \in V
    BY <1>2, <1>3, <1>5
  <1> HIDE DEF quotes
  <1>8. formulas \in V
    BY <1>3, <1>6, <1>7
  <1> HIDE DEF formulas
  <1>9. legends \in Seq(Chunk)
    <2>1. L \in SUBSET parts
      <3> SUFFICES ASSUME NEW c \in L PROVE c \in parts
        OBVIOUS
      <3> QED  OBVIOUS
    <2> HIDE DEF L
    <2> QED  BY <1>4, <2>1
  <1> HIDE DEF legends
  <1>10. rows \in V
    BY <1>3, <1>8, <1>9
  <1> HIDE DEF rows
  <1>11. blocks \in Seq(Chunk)
    BY KeptIs
  <1> HIDE DEF blocks
  <1> QED  BY <1>1, <1>3, <1>10, <1>11 DEF V

LEMMA LimitIs == ASSUME r \in Requests PROVE CoverageLimit(r) \in Nat
  <1>1. Roots(r) \in SUBSET Sections
    BY DEF Roots, Offered
  <1>2. IsFiniteSet(Roots(r))
    BY <1>1, SectionsAre, FS_Subset
  <1>3. Cardinality(Roots(r)) \in Nat /\ Cardinality(r.subjects) \in Nat /\ r.topk \in Nat
    BY <1>2, RequestIs, FS_CardinalityType
  <1> QED  BY <1>3, Budgets DEF CoverageLimit, Most, Least

LEMMA FamilyIs == Family(r) \in Seq(Sections)
  <1> DEFINE children(root) == {item \in Offered(r) : Below(item, root) /\ item.sec \notin Exception}
             parents == {root \in Roots(r) : Cardinality(children(root)) >= 2}
             C == children(ByPosition(parents)[1])
  <1>1. Family(r) = <<>> \/ Family(r) = ByPosition(C)
    BY DEF Family
  <1>2. C \in SUBSET Sections
    BY DEF Offered
  <1> HIDE DEF C
  <1>3. ByPosition(C) \in Seq(C)
    BY <1>2, ByPositionIs
  <1>4. ByPosition(C) \in Seq(Sections)
    BY <1>2, <1>3
  <1>5. <<>> \in Seq(Sections)
    BY NoneIsEmpty
  <1> QED  BY <1>1, <1>4, <1>5, Zenon

LEMMA PoolIs ==
    ASSUME r \in Requests, NEW seq \in Seq(Chunk)
    PROVE  CoveragePool(r, seq) \in SUBSET Sections
  <1> DEFINE fam == Family(r)
             m == Least(FamilyMax, Len(fam))
             S == ToSet(seq) \cup r.direct
             core == Offer(r, S) \cup Roots(r) \cup ToSet(SubSeq(fam, 1, m))
             T == {item \in Sections :
                      /\ Visible(r, item.file)
                      /\ \E from \in core : from.file = item.file /\ <<from.sec, item.sec>> \in r.refs}
             near == ByPosition(T)
             n == Least(3, Cardinality(T))
  <1>1. CoveragePool(r, seq) = core \cup ToSet(SubSeq(near, 1, n))
    BY DEF CoveragePool, Referenced
  <1>2. S \in SUBSET Chunk
    BY RequestIs, RangeIs
  <1>3. Offer(r, S) \subseteq Sections
    <2> HIDE DEF S
    <2> SUFFICES ASSUME NEW item \in Offer(r, S) PROVE item \in Sections
      OBVIOUS
    <2>1. PICK c \in S \ Gone : item = Whole(File[c], Section[c])
      BY DEF Offer
    <2>2. c \in Chunk \ Gone
      BY <1>2
    <2> QED  BY <2>1, <2>2 DEF Sections
  <1>4. Roots(r) \subseteq Sections
    BY DEF Roots, Offered
  <1>5. ToSet(SubSeq(fam, 1, m)) \subseteq Sections
    <2>1. fam \in Seq(Sections)
      BY FamilyIs
    <2> HIDE DEF fam
    <2>2. m \in Nat /\ m <= Len(fam)
      BY <2>1, Budgets DEF Least
    <2> HIDE DEF m
    <2>3. ToSet(SubSeq(fam, 1, m)) \subseteq ToSet(fam)
      BY <2>1, <2>2, LeadingIs
    <2>4. ToSet(fam) \subseteq Sections
      BY <2>1, RangeIs
    <2> QED  BY <2>3, <2>4
  <1>6. T \in SUBSET Sections
    OBVIOUS
  <1>7. core \subseteq Sections
    BY <1>3, <1>4, <1>5
  <1> HIDE DEF core, T
  <1>8. near \in Seq(T) /\ ToSet(near) = T /\ Len(near) = Cardinality(T) /\ Cardinality(T) \in Nat
    BY <1>6, ByPositionIs
  <1> HIDE DEF near
  <1>9. n \in Nat /\ n <= Len(near)
    BY <1>8 DEF Least
  <1> HIDE DEF n
  <1>10. ToSet(SubSeq(near, 1, n)) \subseteq ToSet(near)
    BY <1>8, <1>9, LeadingIs
  <1> QED  BY <1>1, <1>6, <1>7, <1>8, <1>10

\* the holders of a subject that compete with an item, and their cheapest
Rivals(P, item, s) == {other \in P \ {item} : s \in SubjectsOf(other)}
CheapestOf(P, item, s) ==
    Cost(CHOOSE o \in Rivals(P, item, s) : \A p \in Rivals(P, item, s) : Cost(o) <= Cost(p))

LEMMA CheapestIs ==
    ASSUME NEW P \in SUBSET Sections, NEW item, NEW s, Rivals(P, item, s) # {}
    PROVE  /\ CheapestOf(P, item, s) \in Nat
           /\ \A o \in Rivals(P, item, s) : CheapestOf(P, item, s) <= Cost(o)
  <1> DEFINE R == Rivals(P, item, s)
             costs == {Cost(o) : o \in R}
             o1 == CHOOSE o \in R : \A p \in R : Cost(o) <= Cost(p)
  <1>1. \A o \in R : Cost(o) \in Nat
    <2>1. R \subseteq Pieces
      BY SectionsAre DEF Rivals
    <2> QED  BY <2>1, CostIs
  <1>2. CheapestOf(P, item, s) = Cost(o1)
    BY DEF CheapestOf
  <1> HIDE DEF R
  <1>3. costs \in SUBSET Nat /\ costs # {}
    <2>1. R # {}
      BY DEF R
    <2> QED  BY <1>1, <2>1
  <1>4. Min(costs) \in costs /\ \A x \in costs : Min(costs) <= x
    <2> HIDE DEF costs
    <2> QED  BY <1>3, LeastExists
  <1>5. \E o \in R : \A p \in R : Cost(o) <= Cost(p)
    BY <1>4
  <1>6. o1 \in R /\ \A p \in R : Cost(o1) <= Cost(p)
    BY <1>5
  <1> HIDE DEF o1
  <1> QED  BY <1>1, <1>2, <1>6 DEF R

\* the subjects still to be provided for when an item is considered
Wanted(open, P, item) == {s \in open \ SubjectsOf(item) : Rivals(P, item, s) # {}}

Due(open, P, item) == [s \in Wanted(open, P, item) |-> CheapestOf(P, item, s)]

LEMMA OwedIs ==
    ASSUME r \in Requests, NEW cov, NEW P \in SUBSET Sections, NEW item
    PROVE  /\ Owed(r, cov, P, item) \in Nat
           /\ \/ Owed(r, cov, P, item) = 0
              \/ /\ Owed(r, cov, P, item)
                      = SumOf(Wanted(r.subjects \ cov, P, item), Due(r.subjects \ cov, P, item))
                 /\ Sizes(Wanted(r.subjects \ cov, P, item), Due(r.subjects \ cov, P, item))
  <1> DEFINE open == r.subjects \ cov
             W == Wanted(open, P, item)
             cheap == Due(open, P, item)
  <1>1. Owed(r, cov, P, item) = IF SubjectsOf(item) \cap open = {} THEN 0 ELSE SumOf(W, cheap)
    BY Zenon DEF Owed, Wanted, Due, Rivals, CheapestOf
  <1>2. Sizes(W, cheap)
    <2>1. W \in SUBSET r.subjects /\ \A s \in W : Rivals(P, item, s) # {}
      BY DEF Wanted
    <2>2. IsFiniteSet(W)
      BY <2>1, RequestIs, FS_Subset
    <2>3. \A s \in W : cheap[s] \in Nat
      <3>1. \A s \in W : cheap[s] = CheapestOf(P, item, s)
        BY DEF Due
      <3> HIDE DEF W, cheap
      <3> QED  BY <2>1, <3>1, CheapestIs
    <2> HIDE DEF W, cheap
    <2> QED  BY <2>2, <2>3 DEF Sizes
  <1>3. SumOf(W, cheap) \in Nat
    <2> HIDE DEF W, cheap
    <2> QED  BY <1>2, SumIsNatural
  <1> QED  BY <1>1, <1>2, <1>3

\* A fair share never exceeds what is left of the budget.
LEMMA FairRoomIs ==
    ASSUME r \in Requests, NEW cov, NEW P \in SUBSET Sections, NEW pk \in Seq(Pieces), NEW left \in Nat,
           NEW item \in Pieces
    PROVE  /\ FairRoom(r, cov, P, pk, left, item) \in 0 .. left
           /\ SubjectsOf(item) \cap (r.subjects \ cov) # {} /\ Cost(item) + Owed(r, cov, P, item) <= left
                => Cost(item) <= FairRoom(r, cov, P, pk, left, item)
  <1> DEFINE owed == Owed(r, cov, P, item)
             grow(b, n) == IF n <= left - owed THEN Most(b, n) ELSE b
             pending == IF SubjectsOf(item) \cap (r.subjects \ cov) # {} THEN Cost(item) ELSE 0
             slots == Least(CoverageLimit(r) - Len(pk), Cardinality(P))
             even == left \div Most(1, slots)
             extra == Chars(Indivisible(item))
  <1>1. FairRoom(r, cov, P, pk, left, item) = grow(grow(even, pending), extra)
    BY DEF FairRoom
  <1>2. owed \in Nat
    BY OwedIs
  <1>3. pending \in Nat
    BY CostIs
  <1>4. extra \in Nat
    <2>1. Indivisible(item) \subseteq item.parts
      <3> SUFFICES ASSUME NEW d \in Indivisible(item) PROVE d \in item.parts
        OBVIOUS
      <3> QED  BY DEF Indivisible
    <2>2. Indivisible(item) \in SUBSET Chunk
      BY <2>1 DEF Pieces
    <2> QED  BY <2>2, CharsAre
  <1>5. even \in 0 .. left
    <2>1. slots \in Int
      <3>1. IsFiniteSet(P)
        BY SectionsAre, FS_Subset
      <3>2. Cardinality(P) \in Nat /\ CoverageLimit(r) \in Nat /\ Len(pk) \in Nat
        BY <3>1, FS_CardinalityType, LimitIs
      <3> QED  BY <3>2 DEF Least
    <2> DEFINE d == Most(1, slots)
    <2>2. d \in Nat /\ d >= 1
      BY <2>1 DEF Most
    <2> HIDE DEF d, slots
    <2>3. left \div d \in 0 .. left
      BY <2>2, SMTT(30)
    <2> QED  BY <2>3 DEF d
  <1>6. pending = IF SubjectsOf(item) \cap (r.subjects \ cov) # {} THEN Cost(item) ELSE 0
    OBVIOUS
  <1> HIDE DEF owed, pending, even, extra
  <1>7. grow(even, pending) \in 0 .. left /\ (pending + owed <= left => pending <= grow(even, pending))
    BY <1>2, <1>3, <1>5 DEF Most
  <1> DEFINE once == grow(even, pending)
  <1> HIDE DEF once
  <1>8. once \in 0 .. left /\ (pending + owed <= left => pending <= once)
    BY <1>7 DEF once
  <1>9. grow(once, extra) \in 0 .. left /\ once <= grow(once, extra)
    BY <1>2, <1>4, <1>8 DEF Most
  <1> DEFINE twice == grow(once, extra)
  <1>10. FairRoom(r, cov, P, pk, left, item) = twice
    BY <1>1 DEF once
  <1> HIDE DEF twice
  <1>11. twice \in 0 .. left /\ once <= twice
    BY <1>9 DEF twice
  <1>12. pending + owed <= left => pending <= twice
    BY <1>3, <1>8, <1>11
  <1> QED  BY <1>6, <1>10, <1>11, <1>12 DEF owed

LEMMA ShareIs ==
    ASSUME r \in Requests, NEW cov, NEW P \in SUBSET Sections, NEW pk \in Seq(Pieces), NEW used \in Nat,
           used <= MaxChars, NEW item \in Pieces
    PROVE  Share(r, cov, P, pk, used, item) \in 0 .. MaxChars - used
  <1> DEFINE left == MaxChars - used
             fair == FairRoom(r, cov, P, pk, left, item)
             fam == ToSet(Family(r))
             mine == {q \in ToSet(pk) : \E f \in fam : f.sec = q.sec /\ f.file = q.file}
             B == UNION {p.parts : p \in mine}
             spent == Chars(B)
             whole == /\ Cardinality(fam) \in 1 .. Least(FamilyMax, CoverageLimit(r))
                      /\ Chars(UNION {f.parts : f \in fam}) <= Least(FamilyChars, MaxChars)
                      /\ r.subjects \ (cov \cup SubjectsOf(item)) = {}
             best == IF whole THEN Least(left, Cost(item)) ELSE fair
             own == Most(FamilyChars, spent) - spent
  <1>1. Share(r, cov, P, pk, used, item) = IF item \in fam THEN Least(best, own) ELSE fair
    BY DEF Share, FamilyRoom
  <1>2. left \in Nat
    BY Budgets
  <1>3. fair \in 0 .. left
    <2> HIDE DEF left
    <2> QED  BY <1>2, FairRoomIs
  <1>4. own \in Nat
    <2>1. B \in SUBSET Chunk
      <3>1. \A p \in ToSet(pk) : p \in Pieces
        BY RangeIs
      <3>2. \A p \in mine : p.parts \subseteq Chunk
        BY <3>1 DEF Pieces
      <3> HIDE DEF mine
      <3> SUFFICES ASSUME NEW c \in B PROVE c \in Chunk
        OBVIOUS
      <3> QED  BY <3>2
    <2> HIDE DEF B
    <2>2. spent \in Nat
      BY <2>1, CharsAre
    <2> HIDE DEF spent
    <2> QED  BY <2>2, Budgets DEF Most
  <1>5. Cost(item) \in Nat
    BY CostIs
  <1> HIDE DEF fair, own, whole, fam, left
  <1>6. best \in 0 .. left
    BY <1>2, <1>3, <1>5 DEF Least
  <1> HIDE DEF best
  <1>7. Least(best, own) \in 0 .. left
    BY <1>2, <1>4, <1>6 DEF Least
  <1> QED  BY <1>1, <1>3, <1>7 DEF left

-----------------------------------------------------------------------------
(***************************************************************************)
(* Types and stages.                                                       *)
(***************************************************************************)
Merging == ToSet(Channels) \cup {"search", "siblings", "scope"}
Stages == Merging \cup {"documents", "expand", "rerank", "route", "candidates", "arrange",
                        "pack", "final", "done"}

Typed ==
    /\ r \in Requests /\ pc \in Stages
    /\ DOMAIN merged \in SUBSET Chunk
    /\ ranked \in Seq(Chunk) /\ packed \in Seq(Pieces)
    /\ pool \in SUBSET Sections /\ covered \in SUBSET r.subjects

LEMMA ChannelsAre ==
    /\ ToSet(Channels) = {"body", "probe", "procedural", "exact", "lexical", "section", "entity",
                          "clause", "concept", "occurrence", "category", "scoped", "domain"}
    /\ DOMAIN Channels = 1 .. 13 /\ Channels[13] = "domain"
  <1>1. DOMAIN Channels = 1 .. 13
    BY DEF Channels
  <1>2. 1 .. 13 = {1, 2, 3, 4, 5, 6, 7, 8, 9, 10, 11, 12, 13}
    OBVIOUS
  <1>3. ToSet(Channels) = {Channels[1], Channels[2], Channels[3], Channels[4], Channels[5], Channels[6],
            Channels[7], Channels[8], Channels[9], Channels[10], Channels[11], Channels[12], Channels[13]}
    BY <1>1, <1>2 DEF ToSet
  <1> QED  BY <1>1, <1>3 DEF Channels

LEMMA FollowingIs == ASSUME NEW ch \in ToSet(Channels) PROVE Following(ch) \in Merging
  <1> DEFINE k == CHOOSE k \in DOMAIN Channels : Channels[k] = ch
  <1>1. CASE ch = "domain"
    BY <1>1 DEF Following, Merging
  <1>2. CASE ch # "domain"
    <2>1. \E j \in DOMAIN Channels : Channels[j] = ch
      BY DEF ToSet
    <2>2. k \in DOMAIN Channels /\ Channels[k] = ch
      BY <2>1
    <2>3. Following(ch) = Channels[1 + k]
      BY <1>2 DEF Following
    <2> HIDE DEF k
    <2>4. k \in 1 .. 13 /\ k # 13
      BY <1>2, <2>2, ChannelsAre
    <2>5. 1 + k \in DOMAIN Channels
      BY <2>4, ChannelsAre
    <2>6. Channels[1 + k] \in ToSet(Channels)
      BY <2>5 DEF ToSet
    <2> QED  BY <2>3, <2>6 DEF Merging
  <1> QED  BY <1>1, <1>2

LEMMA ProposalsAre ==
    ASSUME r \in Requests, NEW ch \in ToSet(Channels)
    PROVE  /\ Proposals(ch) \subseteq Chunk
           /\ ch \in {"exact", "concept"} => Proposals(ch) \subseteq r.hits[ch]
  <1>1. \A c \in ToSet(Channels) : r.hits[c] \subseteq Chunk
    <2>1. r.hits \in [ToSet(Channels) -> SUBSET Chunk]
      BY RequestIs
    <2> HIDE DEF Channels
    <2> QED  BY <2>1
  <1>2. r.entity \subseteq Chunk
    BY RequestIs
  <1>3. CASE ch = "body"
    <2>1. Proposals(ch) = BodySeeds("body")
      BY <1>3, Zenon DEF Proposals
    <2> QED  BY <1>1, <1>3, <2>1 DEF BodySeeds
  <1>4. CASE ch = "probe"
    <2>1. Proposals(ch) = ProbeSeeds
      BY <1>4, Zenon DEF Proposals
    <2> QED  BY <1>1, <1>4, <2>1 DEF ProbeSeeds, BodySeeds
  <1>5. CASE ch = "procedural"
    <2>1. Proposals(ch) = ProceduralSeeds
      BY <1>5, Zenon DEF Proposals
    <2> QED  BY <1>1, <1>5, <2>1 DEF ProceduralSeeds
  <1>6. CASE ch = "exact"
    <2>1. Proposals(ch) = ExactSeeds
      BY <1>6, Zenon DEF Proposals
    <2> QED  BY <1>1, <1>6, <2>1 DEF ExactSeeds
  <1>7. CASE ch = "lexical"
    <2>1. Proposals(ch) = LexicalSeeds
      BY <1>7, Zenon DEF Proposals
    <2> QED  BY <1>1, <1>7, <2>1 DEF LexicalSeeds
  <1>8. CASE ch = "section"
    <2>1. Proposals(ch) = SectionSeeds
      BY <1>8, Zenon DEF Proposals
    <2> QED  BY <1>1, <1>8, <2>1 DEF SectionSeeds
  <1>9. CASE ch = "entity"
    <2>1. Proposals(ch) = EntitySeeds
      BY <1>9, Zenon DEF Proposals
    <2> QED  BY <1>1, <1>9, <2>1 DEF EntitySeeds
  <1>10. CASE ch = "clause"
    <2>1. Proposals(ch) = ClauseSeeds
      BY <1>10, Zenon DEF Proposals
    <2> QED  BY <1>1, <1>10, <2>1 DEF ClauseSeeds
  <1>11. CASE ch = "concept"
    <2>1. Proposals(ch) = ConceptSeeds
      BY <1>11, Zenon DEF Proposals
    <2> QED  BY <1>1, <1>11, <2>1 DEF ConceptSeeds
  <1>12. CASE ch = "occurrence"
    <2>1. Proposals(ch) = OccurrenceSeeds
      BY <1>12, Zenon DEF Proposals
    <2> QED  BY <1>2, <1>12, <2>1 DEF OccurrenceSeeds
  <1>13. CASE ch = "category"
    <2>1. Proposals(ch) = CategorySeeds
      BY <1>13, Zenon DEF Proposals
    <2> QED  BY <1>1, <1>13, <2>1 DEF CategorySeeds
  <1>14. CASE ch = "scoped"
    <2>1. Proposals(ch) = ScopedSeeds
      BY <1>14, Zenon DEF Proposals
    <2> QED  BY <1>1, <1>14, <2>1 DEF ScopedSeeds
  <1>15. CASE ch = "domain"
    <2>1. Proposals(ch) = DomainSeeds
      BY <1>15, Zenon DEF Proposals
    <2> QED  BY <1>1, <1>15, <2>1 DEF DomainSeeds
  <1> QED  BY <1>3, <1>4, <1>5, <1>6, <1>7, <1>8, <1>9, <1>10, <1>11, <1>12, <1>13, <1>14, <1>15, ChannelsAre

\* Where merged may grow, and by which tag.
TagInv == \A c \in DOMAIN merged : \A tag \in {"exact", "concept"} : tag \in merged[c] => r.hits[tag] # {}

LEMMA SeedIs ==
    ASSUME Typed, TagInv, Seed
    PROVE  DOMAIN merged' \in SUBSET Chunk /\ TagInv' /\ pc' \in Merging
  <1>1. pc \in ToSet(Channels) /\ pc' \in Merging /\ r' = r
    BY FollowingIs DEF Seed
  <1>2. PICK S \in Picks(pc) : merged' = IF pc = "domain" THEN Extend(merged, S, pc) ELSE Overlay(merged, S, pc)
    BY DEF Seed
  <1>3. S \subseteq Proposals(pc)
    BY DEF Picks
  <1>4. S \subseteq Chunk /\ (pc \in {"exact", "concept"} => S \subseteq r.hits[pc])
    BY <1>1, <1>3, ProposalsAre DEF Typed
  <1>5. /\ DOMAIN merged' = DOMAIN merged \cup S
        /\ \A c \in DOMAIN merged' : \A tag \in merged'[c] :
             (c \in DOMAIN merged /\ tag \in merged[c]) \/ (c \in S /\ tag = pc)
    BY <1>2 DEF Extend, Overlay
  <1>6. TagInv'
    <2> SUFFICES ASSUME NEW c \in DOMAIN merged', NEW tag \in {"exact", "concept"}, tag \in merged'[c]
                 PROVE  r.hits[tag] # {}
      BY <1>1 DEF TagInv
    <2>1. CASE c \in DOMAIN merged /\ tag \in merged[c]
      BY <2>1 DEF TagInv
    <2>2. CASE c \in S /\ tag = pc
      BY <1>4, <2>2
    <2> QED  BY <1>5, <2>1, <2>2
  <1> QED  BY <1>1, <1>4, <1>5, <1>6 DEF Typed

LEMMA ExtendIs ==
    ASSUME Typed, TagInv, r' = r, NEW S \in SUBSET Chunk, NEW tag, tag \notin {"exact", "concept"},
           merged' = Extend(merged, S, tag)
    PROVE  DOMAIN merged' \in SUBSET Chunk /\ TagInv'
  <1>1. /\ DOMAIN merged' = DOMAIN merged \cup S
        /\ \A c \in DOMAIN merged' : \A t \in merged'[c] :
             (c \in DOMAIN merged /\ t \in merged[c]) \/ (c \in S /\ t = tag)
    BY DEF Extend
  <1> QED  BY <1>1 DEF Typed, TagInv

LEMMA SiblingsIs ==
    ASSUME Typed, TagInv, Siblings
    PROVE  DOMAIN merged' \in SUBSET Chunk /\ TagInv'
  <1> DEFINE equations(D) == {c \in Equation \ Gone : Document[File[c]] \in D}
             found(D) == SubSeq(InOrder(equations(D)), 1, Least(6, Cardinality(equations(D))))
             all(D) == IF r.formula THEN Extend(merged, ToSet(found(D)), "sibling") ELSE merged
  <1>1. PICK D : merged' = [c \in DOMAIN all(D) |-> IF c \in probes THEN all(D)[c] \cup {"body"} ELSE all(D)[c]]
    BY DEF Siblings
  <1>2. r' = r
    BY DEF Siblings
  <1>3. ToSet(found(D)) \subseteq Chunk
    <2> DEFINE E == equations(D)
               m == Least(6, Cardinality(E))
    <2>1. E \in SUBSET Chunk
      BY RetrievalAssumption
    <2> HIDE DEF E
    <2>2. InOrder(E) \in Seq(E) /\ ToSet(InOrder(E)) = E /\ Len(InOrder(E)) = Cardinality(E) /\ Cardinality(E) \in Nat
      BY <2>1, InOrderIs
    <2>3. m \in Nat /\ m <= Len(InOrder(E))
      BY <2>2 DEF Least
    <2> HIDE DEF m
    <2>4. ToSet(SubSeq(InOrder(E), 1, m)) \subseteq ToSet(InOrder(E))
      BY <2>2, <2>3, LeadingIs
    <2>5. ToSet(SubSeq(InOrder(E), 1, m)) \subseteq Chunk
      BY <2>1, <2>2, <2>4
    <2> QED  BY <2>5 DEF m, E
  <1> HIDE DEF found
  <1> DEFINE S == ToSet(found(D))
  <1> HIDE DEF S
  <1>4. /\ DOMAIN all(D) \subseteq DOMAIN merged \cup S
        /\ \A c \in DOMAIN all(D) : \A t \in all(D)[c] : (c \in DOMAIN merged /\ t \in merged[c]) \/ t = "sibling"
    <2>1. all(D) = IF r.formula THEN Extend(merged, S, "sibling") ELSE merged
      BY DEF S
    <2> HIDE DEF all
    <2> QED  BY <2>1 DEF Extend
  <1>5. S \subseteq Chunk
    BY <1>3 DEF S
  <1> HIDE DEF all
  <1>6. /\ DOMAIN merged' \subseteq DOMAIN merged \cup S
        /\ \A c \in DOMAIN merged' : \A t \in merged'[c] :
             (c \in DOMAIN merged /\ t \in merged[c]) \/ t \in {"sibling", "body"}
    BY <1>1, <1>4
  <1> QED  BY <1>2, <1>5, <1>6 DEF Typed, TagInv

-----------------------------------------------------------------------------
(***************************************************************************)
(* What leaves the pipeline, what the routing keeps, what comes first.     *)
(***************************************************************************)
ScopeInv ==
    /\ pc \in {"documents", "expand"} => ToSet(ranked) = Allowed(DOMAIN merged)
    /\ pc \in {"rerank", "route", "candidates", "arrange"} => ToSet(ranked) \subseteq InScope(Chunk)
    /\ pc \in {"rerank", "route"} => InScope(DOMAIN merged) \subseteq ToSet(ranked)

Sound == /\ Typed /\ TagInv /\ ScopeInv
         /\ NothingForeignIsShown /\ DomainsAreHeard /\ PrivateIsHeard

\* Passages in scope may be shown.
LEMMA InScopeMayBeShown ==
    ASSUME NEW S, S \subseteq InScope(Chunk)
    PROVE  \A c \in S : Visible(r, File[c]) /\ c \notin Gone /\ c \notin Hostile
  BY DEF InScope

LEMMA SoundInit == ASSUME Init PROVE Sound
  <1>1. DOMAIN merged = {}
    BY DEF Init
  <1>2. Typed
    <2>1. "body" \in ToSet(Channels)
      BY ChannelsAre
    <2>2. <<>> \in Seq(Chunk) /\ <<>> \in Seq(Pieces)
      BY NoneIsEmpty
    <2> QED  BY <1>1, <2>1, <2>2 DEF Init, Typed, Stages, Merging
  <1>3. TagInv
    BY <1>1 DEF TagInv
  <1> QED  BY <1>2, <1>3 DEF Sound, ScopeInv, Init, NothingForeignIsShown, DomainsAreHeard, PrivateIsHeard

LEMMA SoundMerging ==
    ASSUME Sound, Seed \/ Search \/ Siblings
    PROVE  Sound'
  <1>1. /\ r' = r /\ ranked' = ranked /\ packed' = packed /\ pool' = pool /\ covered' = covered /\ shown' = shown
    BY DEF Seed, Search, Siblings
  <1>2. Typed /\ TagInv /\ NothingForeignIsShown
    BY DEF Sound
  <1>3. DOMAIN merged' \in SUBSET Chunk /\ TagInv' /\ pc' \in Merging
    <2>1. CASE Seed
      BY <1>2, <2>1, SeedIs
    <2>2. CASE Search
      <3>1. PICK S \in VectorHits : merged' = Extend(merged, S, "vector")
        BY <2>2 DEF Search
      <3>2. S \in SUBSET Chunk
        BY <3>1, RetrievalAssumption
      <3>3. DOMAIN merged' \in SUBSET Chunk /\ TagInv'
        BY <1>1, <1>2, <3>1, <3>2, ExtendIs
      <3> QED  BY <2>2, <3>3 DEF Search, Merging
    <2>3. CASE Siblings
      <3>1. DOMAIN merged' \in SUBSET Chunk /\ TagInv'
        BY <1>2, <2>3, SiblingsIs
      <3> QED  BY <2>3, <3>1 DEF Siblings, Merging
    <2> QED  BY <2>1, <2>2, <2>3
  <1>4. Typed'
    BY <1>1, <1>2, <1>3 DEF Typed, Stages
  <1>5. pc' \notin {"documents", "expand", "rerank", "route", "candidates", "arrange", "pack", "final", "done"}
    BY <1>3, ChannelsAre DEF Merging
  <1>6. ScopeInv' /\ DomainsAreHeard' /\ PrivateIsHeard'
    BY <1>5 DEF ScopeInv, DomainsAreHeard, PrivateIsHeard
  <1>7. NothingForeignIsShown'
    BY <1>1, <1>2 DEF NothingForeignIsShown, Visible
  <1> QED  BY <1>3, <1>4, <1>6, <1>7 DEF Sound

LEMMA SoundScope == ASSUME Sound, Scope PROVE Sound'
  <1>1. /\ Typed /\ TagInv /\ NothingForeignIsShown
        /\ r' = r /\ merged' = merged /\ packed' = packed /\ pool' = pool /\ covered' = covered /\ shown' = shown
        /\ pc' \in {"documents", "expand"}
    BY DEF Sound, Scope
  <1>2. ranked' \in Ranked(Allowed(DOMAIN merged))
    BY DEF Scope
  <1>3. ranked' \in Seq(Chunk) /\ ToSet(ranked') = Allowed(DOMAIN merged)
    <2> DEFINE A == Allowed(DOMAIN merged)
    <2>1. A \in SUBSET Chunk
      BY <1>1 DEF Typed, Allowed
    <2> HIDE DEF A
    <2>2. IsFiniteSet(A)
      BY <2>1, ChunksAreFinite
    <2>3. ranked' \in Seq(A) /\ ToSet(ranked') = A
      BY <1>2, <2>2, RankedIs DEF A
    <2>4. ranked' \in Seq(Chunk)
      BY <2>1, <2>3
    <2> QED  BY <2>3, <2>4 DEF A
  <1>4. Typed'
    BY <1>1, <1>3 DEF Typed, Stages
  <1>5. ScopeInv'
    <2>1. Allowed(DOMAIN merged)' = Allowed(DOMAIN merged)
      BY <1>1 DEF Allowed, Visible
    <2> QED  BY <1>1, <1>3, <2>1 DEF ScopeInv
  <1>6. TagInv' /\ NothingForeignIsShown' /\ DomainsAreHeard' /\ PrivateIsHeard'
    BY <1>1 DEF TagInv, NothingForeignIsShown, Visible, DomainsAreHeard, PrivateIsHeard
  <1> QED  BY <1>4, <1>5, <1>6 DEF Sound

LEMMA SoundDocuments == ASSUME Sound, Documents PROVE Sound'
  <1>1. /\ Typed /\ TagInv /\ ScopeInv
        /\ r' = r /\ merged' = merged /\ packed' = packed /\ pool' = pool /\ covered' = covered
        /\ pc = "documents" /\ pc' = "done" /\ shown' = ToSet(ranked')
    BY DEF Sound, Documents
  <1> DEFINE places(seq) == FirstPerDocument(seq, {i \in DOMAIN seq : seq[i] \in r.entity}, r.topk)
  <1>2. PICK seq \in Ranked(ToSet(ranked)) : ranked' = Kept(Chunk \ Gone, At(seq, places(seq)))
    BY DEF Documents
  <1>3. seq \in Seq(ToSet(ranked)) /\ ToSet(ranked) \subseteq Chunk
    <2>1. ToSet(ranked) \in SUBSET Chunk
      BY <1>1, RangeIs DEF Typed
    <2>2. IsFiniteSet(ToSet(ranked))
      BY <2>1, ChunksAreFinite
    <2> QED  BY <1>2, <2>1, <2>2, RankedIs
  <1>4. places(seq) \in Seq(DOMAIN seq)
    <2> DEFINE P == {i \in DOMAIN seq : seq[i] \in r.entity}
    <2>1. P \in SUBSET DOMAIN seq /\ r.topk \in Nat
      BY <1>1, RequestIs DEF Typed
    <2> HIDE DEF P
    <2>2. FirstPerDocument(seq, P, r.topk) \in Seq(DOMAIN seq)
      BY <1>3, <2>1, FirstPerDocumentIs
    <2> QED  BY <2>2 DEF P
  <1> HIDE DEF places
  <1>5. At(seq, places(seq)) \in Seq(ToSet(ranked))
    BY <1>3, <1>4, AtIs
  <1> DEFINE G == Chunk \ Gone
  <1> HIDE DEF G
  <1>6. Kept(G, At(seq, places(seq))) \in Seq(ToSet(ranked) \cap G)
    BY <1>5, KeptIs
  <1>7. ToSet(ranked') \subseteq ToSet(ranked) \cap G /\ ranked' \in Seq(ToSet(ranked) \cap G)
    <2>1. ranked' \in Seq(ToSet(ranked) \cap G)
      BY <1>2, <1>6 DEF G
    <2> QED  BY <2>1, RangeIs
  <1>8. ranked' \in Seq(Chunk)
    BY <1>3, <1>7
  <1>9. Typed'
    BY <1>1, <1>8 DEF Typed, Stages
  <1>10. ToSet(ranked') \subseteq InScope(Chunk)
    BY <1>1, <1>7 DEF ScopeInv, Allowed, InScope, G, Typed
  <1>11. NothingForeignIsShown'
    <2>1. \A c \in shown' : Visible(r, File[c]) /\ c \notin Gone /\ c \notin Hostile
      BY <1>1, <1>10, InScopeMayBeShown
    <2> QED  BY <1>1, <2>1 DEF NothingForeignIsShown, Visible
  <1> QED  BY <1>1, <1>9, <1>11 DEF Sound, TagInv, ScopeInv, DomainsAreHeard, PrivateIsHeard

LEMMA SoundExpand == ASSUME Sound, Expand PROVE Sound'
  <1>1. /\ Typed /\ TagInv /\ ScopeInv /\ NothingForeignIsShown
        /\ r' = r /\ merged' = merged /\ packed' = packed /\ pool' = pool /\ covered' = covered /\ shown' = shown
        /\ pc = "expand" /\ pc' = "rerank"
    BY DEF Sound, Expand
  <1> DEFINE seeds == ToSet(SubSeq(ranked, 1, Least(SeedTop, Len(ranked))))
             near(c) == Related[c] \ (Gone \cup Hostile \cup ToSet(ranked))
  <1>2. PICK S \in SUBSET UNION {near(c) : c \in seeds} : ranked' = InOrder(InScope(ToSet(ranked) \cup S))
    BY DEF Expand
  <1>3. seeds \subseteq Chunk /\ ToSet(ranked) \subseteq Chunk
    <2> DEFINE m == Least(SeedTop, Len(ranked))
    <2>1. ranked \in Seq(Chunk)
      BY <1>1 DEF Typed
    <2>2. m \in Nat /\ m <= Len(ranked)
      BY <2>1, RetrievalAssumption DEF Least
    <2> HIDE DEF m
    <2>3. ToSet(SubSeq(ranked, 1, m)) \subseteq ToSet(ranked)
      BY <2>1, <2>2, LeadingIs
    <2>4. ToSet(ranked) \subseteq Chunk
      BY <2>1, RangeIs
    <2> QED  BY <2>3, <2>4 DEF m
  <1> HIDE DEF seeds
  <1>4. S \subseteq Chunk
    <2> SUFFICES ASSUME NEW c \in S PROVE c \in Chunk
      OBVIOUS
    <2>1. PICK d \in seeds : c \in near(d)
      BY <1>2
    <2> QED  BY <1>3, <2>1, RetrievalAssumption
  <1> DEFINE A == InScope(ToSet(ranked) \cup S)
  <1>5. A \in SUBSET Chunk /\ A \subseteq InScope(Chunk) /\ InScope(ToSet(ranked)) \subseteq A
    BY <1>3, <1>4 DEF InScope
  <1>6. InScope(DOMAIN merged) \subseteq InScope(ToSet(ranked))
    BY <1>1 DEF ScopeInv, Allowed, InScope
  <1>7. ranked' = InOrder(A)
    BY <1>2
  <1> HIDE DEF A
  <1>8. InOrder(A) \in Seq(A) /\ ToSet(InOrder(A)) = A
    BY <1>5, InOrderIs
  <1>9. ranked' \in Seq(Chunk) /\ ToSet(ranked') = A
    BY <1>5, <1>7, <1>8
  <1>10. Typed'
    BY <1>1, <1>9 DEF Typed, Stages
  <1>11. \A T : InScope(T)' = InScope(T)
    BY <1>1 DEF InScope, Visible
  <1>12. ScopeInv'
    <2>1. InScope(Chunk)' = InScope(Chunk) /\ InScope(DOMAIN merged)' = InScope(DOMAIN merged)
      BY <1>1 DEF InScope, Visible
    <2> QED  BY <1>1, <1>5, <1>6, <1>9, <2>1 DEF ScopeInv
  <1> QED  BY <1>1, <1>10, <1>12 DEF Sound, TagInv, NothingForeignIsShown, Visible, DomainsAreHeard, PrivateIsHeard

LEMMA SoundRerank == ASSUME Sound, Rerank PROVE Sound'
  <1>1. /\ Typed /\ TagInv /\ ScopeInv
        /\ r' = r /\ merged' = merged /\ ranked' = ranked /\ packed' = packed /\ pool' = pool /\ covered' = covered
        /\ pc = "rerank" /\ pc' = "route" /\ shown' = ToSet(ranked)
    BY DEF Sound, Rerank
  <1>2. Typed'
    BY <1>1 DEF Typed, Stages
  <1>3. ScopeInv'
    <2>1. InScope(Chunk)' = InScope(Chunk) /\ InScope(DOMAIN merged)' = InScope(DOMAIN merged)
      BY <1>1 DEF InScope, Visible
    <2> QED  BY <1>1, <2>1 DEF ScopeInv
  <1>4. NothingForeignIsShown'
    <2>1. \A c \in shown' : Visible(r, File[c]) /\ c \notin Gone /\ c \notin Hostile
      BY <1>1, InScopeMayBeShown DEF ScopeInv
    <2> QED  BY <1>1, <2>1 DEF NothingForeignIsShown, Visible
  <1> QED  BY <1>1, <1>2, <1>3, <1>4 DEF Sound, TagInv, DomainsAreHeard, PrivateIsHeard

LEMMA SoundRoute == ASSUME Sound, Route PROVE Sound'
  <1>1. /\ Typed /\ TagInv /\ ScopeInv
        /\ r' = r /\ merged' = merged /\ packed' = packed /\ pool' = pool /\ covered' = covered
        /\ pc = "route" /\ pc' \in {"candidates", "arrange"} /\ shown' = {}
    BY DEF Sound, Route
  <1>2. PICK seq \in Ranked(ToSet(ranked)) : ranked' = Sorted(Routed(seq))
    BY DEF Route
  <1>3. seq \in Seq(ToSet(ranked)) /\ ToSet(seq) = ToSet(ranked) /\ ToSet(ranked) \in SUBSET Chunk
    <2>1. ToSet(ranked) \in SUBSET Chunk
      BY <1>1, RangeIs DEF Typed
    <2>2. IsFiniteSet(ToSet(ranked))
      BY <2>1, ChunksAreFinite
    <2> QED  BY <1>2, <2>1, <2>2, RankedIs
  <1> DEFINE routed == Routed(seq)
  <1>4. /\ routed \in Seq(ToSet(ranked)) /\ ToSet(routed) \subseteq ToSet(seq)
        /\ \A d \in ToSet(r.domains) : Of(seq, d) # {} => \E c \in ToSet(routed) : d \in Domains[File[c]]
    BY <1>1, <1>3, RoutedIs DEF Typed
  <1>5. routed \in Seq(Chunk)
    BY <1>3, <1>4
  <1> HIDE DEF routed
  <1>6. ranked' \in Seq(Chunk) /\ ToSet(ranked') = ToSet(routed)
    <2>1. Sorted(routed) \in Seq(Chunk) /\ ToSet(Sorted(routed)) = ToSet(routed)
      BY <1>5, SortedIs
    <2> QED  BY <1>2, <2>1 DEF routed
  <1>7. Typed'
    BY <1>1, <1>6 DEF Typed, Stages
  <1>8. InScope(Chunk)' = InScope(Chunk) /\ InScope(DOMAIN merged)' = InScope(DOMAIN merged)
    BY <1>1 DEF InScope, Visible
  <1>9. ScopeInv'
    BY <1>1, <1>3, <1>4, <1>6, <1>8 DEF ScopeInv
  <1>10. DomainsAreHeard'
    <2> SUFFICES ASSUME NEW d \in ToSet(r.domains), NEW c \in InScope(DOMAIN merged), d \in Domains[File[c]]
                 PROVE  \E e \in ToSet(ranked') : d \in Domains[File[e]]
      BY <1>1, <1>8 DEF DomainsAreHeard
    <2>1. c \in ToSet(seq)
      BY <1>1, <1>3 DEF ScopeInv
    <2>2. PICK i \in DOMAIN seq : seq[i] = c
      BY <2>1 DEF ToSet
    <2>3. i \in Of(seq, d)
      BY <2>2 DEF Of
    <2> QED  BY <1>4, <1>6, <2>3
  <1> QED  BY <1>1, <1>7, <1>9, <1>10 DEF Sound, TagInv, NothingForeignIsShown, PrivateIsHeard

LEMMA SoundCandidates == ASSUME Sound, Candidates PROVE Sound'
  <1>1. /\ Typed /\ TagInv /\ ScopeInv
        /\ r' = r /\ merged' = merged /\ packed' = packed /\ pool' = pool /\ covered' = covered
        /\ pc = "candidates" /\ pc' = "done" /\ shown' = ToSet(ranked')
    BY DEF Sound, Candidates
  <1> DEFINE E == Eligible(ToSet(ranked))
  <1>2. ranked' = Kept(E, ranked)
    BY DEF Candidates
  <1> HIDE DEF E
  <1>3. Kept(E, ranked) \in Seq(Chunk) /\ ToSet(Kept(E, ranked)) = ToSet(ranked) \cap E
    <2>1. ranked \in Seq(Chunk)
      BY <1>1 DEF Typed
    <2> QED  BY <2>1, KeptIs
  <1>4. Typed'
    BY <1>1, <1>2, <1>3 DEF Typed, Stages
  <1>5. shown' \subseteq InScope(Chunk)
    BY <1>1, <1>2, <1>3 DEF ScopeInv
  <1>6. NothingForeignIsShown'
    <2>1. \A c \in shown' : Visible(r, File[c]) /\ c \notin Gone /\ c \notin Hostile
      BY <1>5, InScopeMayBeShown
    <2> QED  BY <1>1, <2>1 DEF NothingForeignIsShown, Visible
  <1> QED  BY <1>1, <1>4, <1>6 DEF Sound, TagInv, ScopeInv, DomainsAreHeard, PrivateIsHeard

LEMMA SoundArrange == ASSUME Sound, Arrange PROVE Sound'
  <1>1. /\ Typed /\ TagInv /\ ScopeInv
        /\ r' = r /\ merged' = merged /\ packed' = packed /\ covered' = covered
        /\ pc = "arrange" /\ pc' = "pack"
    BY DEF Sound, Arrange
  <1> DEFINE Fit == {c \in Chunk : Section[c] \notin r.unfit}
  <1>2. PICK places \in Ranked(DOMAIN ranked) : ranked' = Evidence(Kept(Fit, At(ranked, places)))
    BY DEF Arrange
  <1> HIDE DEF Fit
  <1>3. r \in Requests /\ ranked \in Seq(Chunk) /\ ranked \in Seq(Chunk \ Gone) /\ ToSet(ranked) \subseteq InScope(Chunk)
    <2>1. r \in Requests /\ ranked \in Seq(Chunk) /\ ToSet(ranked) \subseteq InScope(Chunk)
      BY <1>1 DEF Typed, ScopeInv
    <2>2. ranked \in Seq(ToSet(ranked)) \/ ranked = <<>>
      BY <2>1, RangeIs
    <2>3. InScope(Chunk) \subseteq Chunk \ Gone
      BY DEF InScope
    <2>4. ranked \in Seq(Chunk \ Gone)
      BY <2>1, <2>2, <2>3
    <2> QED  BY <2>1, <2>4
  <1>4. places \in Seq(DOMAIN ranked)
    <2>1. IsFiniteSet(DOMAIN ranked)
      BY <1>3, InDomain
    <2> QED  BY <1>2, <2>1, RankedIs
  <1> DEFINE seq == Kept(Fit, At(ranked, places))
  <1>5. seq \in Seq(Chunk \ Gone)
    <2>1. At(ranked, places) \in Seq(Chunk \ Gone)
      BY <1>3, <1>4, AtIs
    <2> QED  BY <2>1, KeptIs
  <1>6. seq \in Seq(Chunk)
    BY <1>5
  <1>7. ranked' = Evidence(seq)
    BY <1>2
  <1> HIDE DEF seq
  <1>8. ranked' \in Seq(Chunk)
    BY <1>3, <1>6, <1>7, EvidenceIs
  <1>9. pool' \in SUBSET Sections
    <2>1. CoveragePool(r, ranked') \in SUBSET Sections
      BY <1>3, <1>8, PoolIs
    <2>2. pool' = IF r.coverage THEN CoveragePool(r, ranked') ELSE {}
      BY DEF Arrange
    <2> QED  BY <2>1, <2>2
  <1>10. Typed'
    BY <1>1, <1>8, <1>9 DEF Typed, Stages
  <1>11. NothingForeignIsShown'
    <2>1. shown' \subseteq InScope(Chunk)
      <3>1. shown' = IF r.reader /\ r.coverage THEN Eligible(ToSet(ranked)) ELSE {}
        BY DEF Arrange
      <3>2. Eligible(ToSet(ranked)) \subseteq ToSet(ranked)
        BY DEF Eligible, InTarget, InScope
      <3> QED  BY <1>3, <3>1, <3>2
    <2>2. \A c \in shown' : Visible(r, File[c]) /\ c \notin Gone /\ c \notin Hostile
      BY <2>1, InScopeMayBeShown
    <2> QED  BY <1>1, <2>2 DEF NothingForeignIsShown, Visible
  <1>12. PrivateIsHeard'
    <2>1. \A c : Tags(c)' = Tags(c)
      BY <1>1 DEF Tags
    <2> SUFFICES ASSUME r.private # {}, r.named = {}, ~r.frontiers, r.coverage \/ NothingByName',
                        NEW c \in ToSet(ranked'), "scoped" \in Tags(c)
                 PROVE  \E k \in 1 .. Least(r.topk, Len(ranked')) : "scoped" \in Tags(ranked'[k])
      <3>1. r'.topk = r.topk
        BY <1>1
      <3> QED  BY <1>1, <2>1, <3>1 DEF PrivateIsHeard
    <2>2. r.coverage \/ (NothingByName /\ \A d : "concept" \notin Tags(d) /\ "exact" \notin Tags(d))
      <3> SUFFICES ASSUME NothingByName, NEW d, NEW tag \in {"exact", "concept"} PROVE tag \notin Tags(d)
        BY <1>1 DEF NothingByName
      <3>1. r.hits[tag] = {}
        BY DEF NothingByName
      <3> QED  BY <1>1, <3>1 DEF TagInv, Tags
    <2>3. PICK d : StartsWith(ranked', d) /\ "scoped" \in Tags(d)
      BY <1>3, <1>5, <1>7, <2>2, OwnIsFirst
    <2>4. 1 \in 1 .. Least(r.topk, Len(ranked'))
      BY <1>3, <1>8, <2>3, RequestIs DEF StartsWith, Least
    <2> QED  BY <2>3, <2>4 DEF StartsWith
  <1> QED  BY <1>1, <1>10, <1>11, <1>12 DEF Sound, TagInv, ScopeInv, DomainsAreHeard

\* A packed passage keeps a part of its candidate.
LEMMA CutIsPiece ==
    ASSUME NEW item \in Pieces, NEW kept \in SUBSET item.parts
    PROVE  /\ [item EXCEPT !.parts = kept] \in Pieces
           /\ [item EXCEPT !.parts = kept].parts = kept
           /\ [item EXCEPT !.parts = kept].file = item.file /\ [item EXCEPT !.parts = kept].sec = item.sec
  BY DEF Pieces

LEMMA SoundPack == ASSUME Sound, PackLegacy \/ Packed PROVE Sound'
  <1>1. /\ Typed /\ TagInv /\ ScopeInv
        /\ r' = r /\ merged' = merged /\ ranked' = ranked /\ pool' = pool /\ covered' = covered
        /\ pc = "pack" /\ pc' = "final" /\ shown' = {}
    BY DEF Sound, PackLegacy, Packed
  <1>2. packed' \in Seq(Pieces)
    <2>1. ranked \in Seq(Chunk) /\ packed \in Seq(Pieces)
      BY <1>1 DEF Typed
    <2> QED  BY <2>1, LegacyPackedIs DEF PackLegacy, Packed
  <1>3. Typed'
    BY <1>1, <1>2 DEF Typed, Stages
  <1> QED  BY <1>1, <1>3 DEF Sound, TagInv, ScopeInv, DomainsAreHeard, PrivateIsHeard, NothingForeignIsShown

-----------------------------------------------------------------------------
(***************************************************************************)
(* The context: within its budget, no section twice, conditions kept.      *)
(***************************************************************************)
Apart(items) ==
    \A i, j \in DOMAIN items : items[i].file = items[j].file /\ items[i].sec = items[j].sec => i = j
Closed(items) ==
    \A i \in DOMAIN items : \A c \in items[i].parts :
       Guards[c] \cap Whole(items[i].file, items[i].sec).parts \subseteq items[i].parts

\* nothing is packed early, and no candidate left is of a packed section
PackInv ==
    /\ pc \notin {"pack", "final", "done"} => packed = <<>> /\ covered = {} /\ pool = {}
    /\ ~r.coverage => pool = {}
    /\ Total(packed) <= MaxChars
    /\ r.coverage => Apart(packed) /\ Closed(packed)
    /\ \A i \in DOMAIN packed : \A item \in pool : packed[i].file # item.file \/ packed[i].sec # item.sec

UsedIsTotal == Used = Total(packed)

LEMMA UsedIs == UsedIsTotal
  BY DEF UsedIsTotal, Used, Total, CostsOf

\* What one step of the coverage packer does with its candidate.
Packs(item, room, kept) ==
    /\ item \in Best(r, covered, pool) /\ room = Share(r, covered, pool, packed, Total(packed), item)
    /\ Cost(item) <= room => kept = item.parts
    /\ pool' = pool \ {item}
    /\ IF kept = {} THEN packed' = packed /\ covered' = covered
       ELSE /\ packed' = Append(packed, [item EXCEPT !.parts = kept])
            /\ covered' = covered \cup (r.subjects \cap SubjectsOf([item EXCEPT !.parts = kept]))

LEMMA PackNextIs ==
    ASSUME Typed, Total(packed) <= MaxChars, PackNext
    PROVE  \E item \in pool : \E room \in 0 .. MaxChars - Total(packed) :
             \E kept \in Excerpts(item.parts, room) : Packs(item, room, kept)
  <1>1. /\ r \in Requests /\ packed \in Seq(Pieces) /\ pool \in SUBSET Sections /\ Total(packed) \in Nat
        /\ Used = Total(packed)
    BY TotalIs, UsedIs DEF Typed, UsedIsTotal
  <1> DEFINE Room(item) == Share(r, covered, pool, packed, Used, item)
             Cuts(item) == IF Cost(item) <= Room(item) THEN {item.parts}
                           ELSE {Excerpt(item.parts, Room(item), IF r.reader THEN r.direct ELSE {}, order) :
                                   order \in Ranked(item.parts)}
  <1>2. PICK item \in Best(r, covered, pool) :
          /\ pool' = pool \ {item}
          /\ \E kept \in Cuts(item) :
               IF kept = {} THEN UNCHANGED <<packed, covered>>
               ELSE /\ packed' = Append(packed, [item EXCEPT !.parts = kept])
                    /\ covered' = covered \cup (r.subjects \cap SubjectsOf([item EXCEPT !.parts = kept]))
    BY DEF PackNext
  <1>3. PICK kept \in Cuts(item) :
          IF kept = {} THEN UNCHANGED <<packed, covered>>
          ELSE /\ packed' = Append(packed, [item EXCEPT !.parts = kept])
               /\ covered' = covered \cup (r.subjects \cap SubjectsOf([item EXCEPT !.parts = kept]))
    BY <1>2
  <1>4. item \in pool /\ item \in Sections /\ item \in Pieces /\ item.parts \in SUBSET Chunk
    <2>1. item \in pool
      BY DEF Best
    <2> QED  BY <1>1, <2>1, SectionsAre DEF Pieces
  <1> DEFINE room == Room(item)
  <1>5. room \in 0 .. MaxChars - Total(packed) /\ room \in Nat
    <2>1. Share(r, covered, pool, packed, Total(packed), item) \in 0 .. MaxChars - Total(packed)
      BY <1>1, <1>4, ShareIs
    <2> QED  BY <1>1, <2>1
  <1>6. room = Share(r, covered, pool, packed, Total(packed), item)
    BY <1>1
  <1>7. kept \in IF Cost(item) <= room THEN {item.parts}
                 ELSE {Excerpt(item.parts, room, IF r.reader THEN r.direct ELSE {}, order) :
                         order \in Ranked(item.parts)}
    BY <1>3
  <1> HIDE DEF room, Cuts, Room
  <1>8. kept \in Excerpts(item.parts, room) /\ (Cost(item) <= room => kept = item.parts)
    <2>1. CASE Cost(item) <= room
      <3>1. kept = item.parts
        BY <1>7, <2>1
      <3>2. item.parts \in Excerpts(item.parts, room)
        BY <2>1 DEF Excerpts, Cost
      <3> QED  BY <3>1, <3>2
    <2>2. CASE ~(Cost(item) <= room)
      <3> DEFINE quoted == IF r.reader THEN r.direct ELSE {}
      <3>1. PICK order \in Ranked(item.parts) : kept = Excerpt(item.parts, room, quoted, order)
        BY <1>7, <2>2
      <3> HIDE DEF quoted
      <3>2. order \in Seq(Chunk)
        <4>1. IsFiniteSet(item.parts)
          BY <1>4, ChunksAreFinite
        <4>2. order \in Seq(item.parts)
          BY <3>1, <4>1, RankedIs
        <4> QED  BY <1>4, <4>2
      <3>3. Excerpt(item.parts, room, quoted, order) \in Excerpts(item.parts, room)
        BY <1>4, <1>5, <3>2, ExcerptIs
      <3> QED  BY <2>2, <3>1, <3>3
    <2> QED  BY <2>1, <2>2
  <1>9. Packs(item, room, kept)
    BY <1>2, <1>3, <1>6, <1>8 DEF Packs
  <1> QED  BY <1>4, <1>5, <1>8, <1>9

LEMMA SoundPackNext == ASSUME Sound, PackInv, PackNext PROVE Sound'
  <1>1. /\ Typed /\ TagInv /\ Total(packed) <= MaxChars
        /\ r' = r /\ merged' = merged /\ ranked' = ranked
        /\ pc = "pack" /\ pc' = "pack" /\ shown' = {} /\ PrivateIsHeard
    BY DEF Sound, PackNext, PackInv
  <1>a. PICK item \in pool, room \in 0 .. MaxChars - Total(packed) :
          \E kept \in Excerpts(item.parts, room) : Packs(item, room, kept)
    BY <1>1, PackNextIs
  <1>2. PICK kept \in Excerpts(item.parts, room) : Packs(item, room, kept)
    BY <1>a
  <1>3. /\ item \in Pieces /\ kept \in SUBSET item.parts /\ packed \in Seq(Pieces)
        /\ pool \in SUBSET Sections /\ covered \in SUBSET r.subjects
    BY <1>1, <1>2, SectionsAre DEF Typed, Excerpts
  <1>4. [item EXCEPT !.parts = kept] \in Pieces
    BY <1>3, CutIsPiece
  <1>5. packed' \in Seq(Pieces) /\ pool' \in SUBSET Sections /\ covered' \in SUBSET r.subjects
    BY <1>2, <1>3, <1>4 DEF Packs
  <1>6. Typed'
    BY <1>1, <1>5 DEF Typed, Stages
  <1>7. PrivateIsHeard'
    BY <1>1 DEF PrivateIsHeard, NothingByName, Tags
  <1> QED  BY <1>1, <1>6, <1>7 DEF Sound, TagInv, ScopeInv, DomainsAreHeard, NothingForeignIsShown

\* The last filter keeps places of the packed context.
LEMMA FinalIs ==
    ASSUME Typed, Final
    PROVE  /\ packed' \in Seq(Pieces) /\ Total(packed') <= Total(packed)
           /\ \E f : IsPart(packed', packed, f)
           /\ shown' \subseteq InScope(Chunk)
  <1> DEFINE S == {item \in ToSet(packed) : InTarget(InScope(item.parts)) = item.parts}
  <1>1. packed \in Seq(Pieces) /\ packed' = Kept(S, packed) /\ shown' = UNION {item.parts : item \in ToSet(packed')}
    BY DEF Typed, Final
  <1>2. \A item \in S : item.parts \subseteq InScope(Chunk)
    <2>1. \A item \in S : item \in Pieces /\ InTarget(InScope(item.parts)) = item.parts
      BY <1>1, RangeIs
    <2> QED  BY <2>1 DEF Pieces, InTarget, InScope
  <1> HIDE DEF S
  <1>3. Kept(S, packed) \in Seq(Pieces) /\ ToSet(Kept(S, packed)) = ToSet(packed) \cap S
    BY <1>1, KeptIs
  <1>4. PICK f : IsPart(Kept(S, packed), packed, f)
    BY <1>1, KeptIsPart
  <1>5. Total(Kept(S, packed)) <= Total(packed)
    BY <1>1, <1>3, <1>4, PartCosts
  <1>6. shown' \subseteq InScope(Chunk)
    BY <1>1, <1>2, <1>3
  <1> QED  BY <1>1, <1>3, <1>4, <1>5, <1>6

LEMMA SoundFinal == ASSUME Sound, Final PROVE Sound'
  <1>1. /\ Typed /\ TagInv
        /\ r' = r /\ merged' = merged /\ ranked' = ranked /\ pool' = pool /\ covered' = covered
        /\ pc' = "done"
    BY DEF Sound, Final
  <1>2. packed' \in Seq(Pieces) /\ shown' \subseteq InScope(Chunk)
    BY <1>1, FinalIs
  <1>3. Typed'
    BY <1>1, <1>2 DEF Typed, Stages
  <1>4. NothingForeignIsShown'
    <2>1. \A c \in shown' : Visible(r, File[c]) /\ c \notin Gone /\ c \notin Hostile
      BY <1>2, InScopeMayBeShown
    <2> QED  BY <1>1, <2>1 DEF NothingForeignIsShown, Visible
  <1> QED  BY <1>1, <1>3, <1>4 DEF Sound, TagInv, ScopeInv, DomainsAreHeard, PrivateIsHeard

LEMMA SoundStutter == ASSUME Sound, UNCHANGED vars PROVE Sound'
  <1>1. /\ r' = r /\ pc' = pc /\ merged' = merged /\ ranked' = ranked /\ packed' = packed
        /\ pool' = pool /\ covered' = covered /\ shown' = shown
    BY DEF vars
  <1> QED  BY <1>1 DEF Sound, Typed, TagInv, ScopeInv, Allowed, InScope, Visible, NothingForeignIsShown,
              DomainsAreHeard, PrivateIsHeard, NothingByName, Tags

LEMMA SoundStep ==
    ASSUME Sound, PackInv, [Next]_vars
    PROVE  Sound'
  <1>1. CASE Seed \/ Search \/ Siblings  BY <1>1, SoundMerging
  <1>2. CASE Scope  BY <1>2, SoundScope
  <1>3. CASE Documents  BY <1>3, SoundDocuments
  <1>4. CASE Expand  BY <1>4, SoundExpand
  <1>5. CASE Rerank  BY <1>5, SoundRerank
  <1>6. CASE Route  BY <1>6, SoundRoute
  <1>7. CASE Candidates  BY <1>7, SoundCandidates
  <1>8. CASE Arrange  BY <1>8, SoundArrange
  <1>9. CASE PackLegacy \/ Packed  BY <1>9, SoundPack
  <1>10. CASE PackNext  BY <1>10, SoundPackNext
  <1>11. CASE Final  BY <1>11, SoundFinal
  <1>12. CASE Done \/ UNCHANGED vars  BY <1>12, SoundStutter DEF Done
  <1> QED  BY <1>1, <1>2, <1>3, <1>4, <1>5, <1>6, <1>7, <1>8, <1>9, <1>10, <1>11, <1>12 DEF Next

LEMMA PackInvInit == ASSUME Init PROVE PackInv
  <1>1. r \in Requests /\ packed = <<>> /\ covered = {} /\ pool = {} /\ pc = "body"
    BY DEF Init
  <1>2. DOMAIN packed = {}
    BY <1>1
  <1>3. Total(packed) <= MaxChars
    BY <1>1, TotalOfNone, Budgets
  <1> QED  BY <1>1, <1>2, <1>3 DEF PackInv, Apart, Closed

LEMMA PackInvBefore ==
    ASSUME Typed, PackInv,
           Seed \/ Search \/ Siblings \/ Scope \/ Documents \/ Expand \/ Rerank \/ Route \/ Candidates \/ Arrange
    PROVE  PackInv'
  <1>1. pc \notin {"pack", "final", "done"} /\ r' = r /\ packed' = packed /\ covered' = covered
    BY ChannelsAre DEF Seed, Search, Siblings, Scope, Documents, Expand, Rerank, Route, Candidates, Arrange
  <1>2. packed = <<>> /\ covered = {} /\ Total(packed) <= MaxChars
    BY <1>1 DEF PackInv
  <1>3. DOMAIN packed = {}
    BY <1>2
  <1>4. (pc' \notin {"pack", "final", "done"} \/ ~r.coverage) => pool' = {}
    <2>1. pool = {}
      BY <1>1 DEF PackInv
    <2> QED  BY <2>1 DEF Seed, Search, Siblings, Scope, Documents, Expand, Rerank, Route, Candidates, Arrange
  <1> QED  BY <1>1, <1>2, <1>3, <1>4 DEF PackInv, Apart, Closed

LEMMA PackInvLegacy == ASSUME Typed, PackInv, PackLegacy PROVE PackInv'
  <1>1. /\ r' = r /\ covered' = covered /\ pool' = pool /\ ~r.coverage /\ pc' = "final"
        /\ packed' = LegacyPacked(r, ranked) /\ ranked \in Seq(Chunk)
    BY DEF PackLegacy, Typed
  <1>2. Total(packed') <= MaxChars
    BY <1>1, LegacyPackedIs
  <1>3. pool' = {}
    BY <1>1 DEF PackInv
  <1> QED  BY <1>1, <1>2, <1>3 DEF PackInv

\* One more passage: of a section not packed yet, with its conditions.
LEMMA OneMore ==
    ASSUME NEW items \in Seq(Pieces), NEW item \in Pieces, Apart(items), Closed(items),
           \A i \in DOMAIN items : items[i].file # item.file \/ items[i].sec # item.sec,
           \A c \in item.parts : Guards[c] \cap Whole(item.file, item.sec).parts \subseteq item.parts
    PROVE  Apart(Append(items, item)) /\ Closed(Append(items, item))
  <1> DEFINE all == Append(items, item)
             n == Len(items)
  <1>1. /\ n \in Nat /\ DOMAIN items = 1 .. n /\ DOMAIN all = 1 .. n + 1
        /\ all[n + 1] = item /\ \A i \in 1 .. n : all[i] = items[i]
    OBVIOUS
  <1> HIDE DEF all, n
  <1>2. \A i \in DOMAIN all : i = n + 1 \/ i \in DOMAIN items
    BY <1>1
  <1>3. Apart(all)
    <2> SUFFICES ASSUME NEW i \in DOMAIN all, NEW j \in DOMAIN all,
                        all[i].file = all[j].file, all[i].sec = all[j].sec
                 PROVE  i = j
      BY DEF Apart
    <2>1. CASE i \in DOMAIN items /\ j \in DOMAIN items
      BY <1>1, <2>1 DEF Apart
    <2>2. CASE i = n + 1 /\ j \in DOMAIN items
      BY <1>1, <2>2
    <2>3. CASE i \in DOMAIN items /\ j = n + 1
      BY <1>1, <2>3
    <2> QED  BY <1>2, <2>1, <2>2, <2>3
  <1>4. Closed(all)
    <2> SUFFICES ASSUME NEW i \in DOMAIN all, NEW c \in all[i].parts
                 PROVE  Guards[c] \cap Whole(all[i].file, all[i].sec).parts \subseteq all[i].parts
      BY DEF Closed
    <2>1. CASE i \in DOMAIN items
      <3>1. all[i] = items[i]
        BY <1>1, <2>1
      <3>2. c \in items[i].parts
        BY <3>1
      <3>3. Guards[c] \cap Whole(items[i].file, items[i].sec).parts \subseteq items[i].parts
        BY <2>1, <3>2 DEF Closed
      <3> QED  BY <3>1, <3>3
    <2>2. CASE i = n + 1
      BY <1>1, <2>2
    <2> QED  BY <1>2, <2>1, <2>2
  <1> QED  BY <1>3, <1>4 DEF all

LEMMA PackInvNext == ASSUME Typed, PackInv, PackNext PROVE PackInv'
  <1>1. /\ r' = r /\ pc = "pack" /\ pc' = "pack" /\ r.coverage /\ Total(packed) <= MaxChars
        /\ Apart(packed) /\ Closed(packed)
        /\ r \in Requests /\ packed \in Seq(Pieces) /\ pool \in SUBSET Sections
    BY DEF PackNext, PackInv, Typed
  <1>a. PICK item \in pool, room \in 0 .. MaxChars - Total(packed) :
          \E kept \in Excerpts(item.parts, room) : Packs(item, room, kept)
    BY <1>1, PackNextIs
  <1>2. PICK kept \in Excerpts(item.parts, room) : Packs(item, room, kept)
    BY <1>a
  <1>3. pool' = pool \ {item}
    BY <1>2 DEF Packs
  <1>4. CASE kept = {}
    <2>1. packed' = packed
      BY <1>2, <1>4 DEF Packs
    <2> QED  BY <1>1, <1>3, <2>1 DEF PackInv
  <1>5. CASE kept # {}
    <2> DEFINE cut == [item EXCEPT !.parts = kept]
    <2>1. packed' = Append(packed, cut)
      BY <1>2, <1>5 DEF Packs
    <2>2. item \in Pieces /\ item = Whole(item.file, item.sec)
      BY <1>1, SectionsAre
    <2>3. cut \in Pieces /\ cut.parts = kept /\ cut.file = item.file /\ cut.sec = item.sec
      <3>1. kept \in SUBSET item.parts
        BY DEF Excerpts
      <3> QED  BY <2>2, <3>1, CutIsPiece
    <2> HIDE DEF cut
    <2>4. Total(packed') <= MaxChars
      <3>1. Total(packed') = Total(packed) + Cost(cut)
        BY <1>1, <2>1, <2>3, TotalAdds
      <3>2. Cost(cut) <= room
        BY <2>3 DEF Excerpts, Cost
      <3>3. Total(packed) \in Nat /\ Cost(cut) \in Nat /\ MaxChars \in Nat
        BY <1>1, <2>3, TotalIs, CostIs, Budgets
      <3> QED  BY <3>1, <3>2, <3>3
    <2>5. \A i \in DOMAIN packed : packed[i].file # cut.file \/ packed[i].sec # cut.sec
      BY <2>3 DEF PackInv
    <2>6. \A c \in cut.parts : Guards[c] \cap Whole(cut.file, cut.sec).parts \subseteq cut.parts
      <3>1. Whole(cut.file, cut.sec).parts = item.parts
        BY <2>2, <2>3
      <3> QED  BY <2>3, <3>1 DEF Excerpts
    <2>7. Apart(packed') /\ Closed(packed')
      BY <1>1, <2>1, <2>3, <2>5, <2>6, OneMore
    <2>8. \A i \in DOMAIN packed' : \A other \in pool' : packed'[i].file # other.file \/ packed'[i].sec # other.sec
      <3> SUFFICES ASSUME NEW i \in DOMAIN packed', NEW other \in pool'
                   PROVE  packed'[i].file # other.file \/ packed'[i].sec # other.sec
        OBVIOUS
      <3>1. other \in pool /\ other # item
        BY <1>3
      <3>2. other = Whole(other.file, other.sec)
        BY <1>1, <3>1, SectionsAre
      <3>3. (i \in DOMAIN packed /\ packed'[i] = packed[i]) \/ packed'[i] = cut
        BY <1>1, <2>1, <2>3
      <3>4. CASE i \in DOMAIN packed /\ packed'[i] = packed[i]
        BY <3>1, <3>4 DEF PackInv
      <3>5. CASE packed'[i] = cut
        BY <2>2, <2>3, <3>1, <3>2, <3>5
      <3> QED  BY <3>3, <3>4, <3>5
    <2> QED  BY <1>1, <2>4, <2>7, <2>8 DEF PackInv
  <1> QED  BY <1>4, <1>5

LEMMA PackInvAfter ==
    ASSUME Typed, PackInv, Packed \/ Final \/ UNCHANGED vars
    PROVE  PackInv'
  <1>1. CASE Packed
    BY <1>1 DEF PackInv, Packed
  <1>2. CASE UNCHANGED vars
    BY <1>2 DEF PackInv, vars
  <1>3. CASE Final
    <2>1. r' = r /\ pool' = pool /\ covered' = covered /\ pc' = "done" /\ packed \in Seq(Pieces)
      BY <1>3 DEF Final, Typed
    <2>2. /\ packed' \in Seq(Pieces) /\ Total(packed') <= Total(packed)
          /\ \E f : IsPart(packed', packed, f)
      BY <1>3, FinalIs
    <2>3. PICK f : IsPart(packed', packed, f)
      BY <2>2
    <2>4. \A i \in DOMAIN packed' : f[i] \in DOMAIN packed /\ packed'[i] = packed[f[i]]
      BY <2>3 DEF IsPart
    <2>5. Total(packed') <= MaxChars
      BY <2>1, <2>2, TotalIs, Budgets DEF PackInv
    <2>6. Apart(packed) => Apart(packed')
      BY <2>3, <2>4 DEF Apart, IsPart
    <2>7. Closed(packed) => Closed(packed')
      <3> SUFFICES ASSUME Closed(packed), NEW i \in DOMAIN packed', NEW c \in packed'[i].parts
                   PROVE  Guards[c] \cap Whole(packed'[i].file, packed'[i].sec).parts \subseteq packed'[i].parts
        BY DEF Closed
      <3>1. packed'[i] = packed[f[i]] /\ f[i] \in DOMAIN packed
        BY <2>4
      <3>2. c \in packed[f[i]].parts
        BY <3>1
      <3>3. Guards[c] \cap Whole(packed[f[i]].file, packed[f[i]].sec).parts \subseteq packed[f[i]].parts
        BY <3>1, <3>2 DEF Closed
      <3> QED  BY <3>1, <3>3
    <2>8. \A i \in DOMAIN packed' : \A item \in pool' : packed'[i].file # item.file \/ packed'[i].sec # item.sec
      BY <2>1, <2>4 DEF PackInv
    <2> QED  BY <2>1, <2>5, <2>6, <2>7, <2>8 DEF PackInv
  <1> QED  BY <1>1, <1>2, <1>3

LEMMA PackInvStep ==
    ASSUME Typed, PackInv, [Next]_vars
    PROVE  PackInv'
  <1>1. CASE Seed \/ Search \/ Siblings \/ Scope \/ Documents \/ Expand \/ Rerank \/ Route \/ Candidates \/ Arrange
    BY <1>1, PackInvBefore
  <1>2. CASE PackLegacy  BY <1>2, PackInvLegacy
  <1>3. CASE PackNext  BY <1>3, PackInvNext
  <1>4. CASE Packed \/ Final \/ Done \/ UNCHANGED vars  BY <1>4, PackInvAfter DEF Done
  <1> QED  BY <1>1, <1>2, <1>3, <1>4 DEF Next

(* The inductive invariant: what is Sound stays so while the context stays  *)
(* within its budget, and conversely the packing steps need the types.      *)
THEOREM Inductive == Spec => [](Sound /\ PackInv)
  <1>1. Init => Sound /\ PackInv
    BY SoundInit, PackInvInit
  <1>2. Sound /\ PackInv /\ [Next]_vars => Sound' /\ PackInv'
    <2> SUFFICES ASSUME Sound, PackInv, [Next]_vars PROVE Sound' /\ PackInv'
      OBVIOUS
    <2>1. Typed
      BY DEF Sound
    <2> QED  BY <2>1, SoundStep, PackInvStep
  <1> QED  BY <1>1, <1>2, PTL DEF Spec

(* Type correctness: what is merged and ranked are chunks of the docstore,  *)
(* the candidates are its sections, what is packed are passages of it and   *)
(* what is covered are subjects of the question, in every stage of          *)
(* retrieve_context and for any answer of the vector store.                 *)
THEOREM TypesAreKept == Spec => []Typed
  <1>1. Sound => Typed
    BY DEF Sound
  <1> QED  BY <1>1, Inductive, PTL

(* No text leaves the pipeline, to the reranker, to the reader model or to  *)
(* the caller, unless the user may see and asked for its file, it is in     *)
(* force and carries no injected instruction (retrieve_context,             *)
(* filter_scoped_evidence), for any corpus and whatever the vector store    *)
(* and the channels return.                                                 *)
THEOREM NothingForeignIsEverShown == Spec => []NothingForeignIsShown
  <1>1. Sound => NothingForeignIsShown
    BY DEF Sound
  <1> QED  BY <1>1, Inductive, PTL

(* A business domain the question is routed to keeps a passage through the  *)
(* candidate cap, however many passages score better                        *)
(* (apply_domain_routing).                                                  *)
THEOREM DomainsAreAlwaysHeard == Spec => []DomainsAreHeard
  <1>1. Sound => DomainsAreHeard
    BY DEF Sound
  <1> QED  BY <1>1, Inductive, PTL

(* The context kept for an answer stays within its budget and, packed by    *)
(* coverage, holds no section twice and no equation of a cut section        *)
(* without the conditions it is read with (select, select_v2,               *)
(* _focused_excerpt).                                                       *)
THEOREM ContextIsAlwaysWhole == Spec => []ContextIsWhole
  <1>1. PackInv => ContextIsWhole
    <2> SUFFICES ASSUME PackInv PROVE ContextIsWhole
      OBVIOUS
    <2>1. Used <= MaxChars
      BY UsedIs DEF PackInv, UsedIsTotal
    <2>2. r.coverage => Apart(packed) /\ Closed(packed)
      BY DEF PackInv
    <2> QED  BY <2>1, <2>2 DEF ContextIsWhole, Apart, Closed
  <1> QED  BY <1>1, Inductive, PTL

-----------------------------------------------------------------------------
(***************************************************************************)
(* No subject of the question is starved: while the longest sections on    *)
(* the subjects still open fit in what is left, the next candidate covers  *)
(* one of them and gets the room it needs.                                 *)
(***************************************************************************)
LEMMA SumsJoin ==
    ASSUME NEW S, NEW T, NEW size, Sizes(S, size), Sizes(T, size), S \cap T = {}
    PROVE  Sizes(S \cup T, size) /\ SumOf(S \cup T, size) = SumOf(S, size) + SumOf(T, size)
  <1>1. Sizes(S \cup T, size)
    BY FS_Union DEF Sizes
  <1>2. Cells(S \cup T, size) = Cells(S, size) \cup Cells(T, size) /\ Cells(S, size) \cap Cells(T, size) = {}
    <2>1. \A x : x \in Cells(S \cup T, size) <=> x \in Cells(S, size) \cup Cells(T, size)
      BY CellsAre
    <2>2. \A x : ~(x \in Cells(S, size) /\ x \in Cells(T, size))
      BY CellsAre
    <2> QED  BY <2>1, <2>2
  <1>3. /\ IsFiniteSet(Cells(S, size)) /\ SumOf(S, size) = Cardinality(Cells(S, size)) /\ SumOf(S, size) \in Nat
        /\ IsFiniteSet(Cells(T, size)) /\ SumOf(T, size) = Cardinality(Cells(T, size)) /\ SumOf(T, size) \in Nat
        /\ SumOf(S \cup T, size) = Cardinality(Cells(S \cup T, size))
    BY <1>1, SumIsNatural
  <1>4. Cardinality(Cells(S, size) \cup Cells(T, size))
          = Cardinality(Cells(S, size)) + Cardinality(Cells(T, size)) - Cardinality(Cells(S, size) \cap Cells(T, size))
    BY <1>3, FS_Union
  <1>5. Cardinality(Cells(S, size) \cap Cells(T, size)) = 0
    BY <1>2, FS_EmptySet
  <1>6. SumOf(S \cup T, size) = SumOf(S, size) + SumOf(T, size) - 0
    BY <1>2, <1>3, <1>4, <1>5
  <1>7. SumOf(S, size) + SumOf(T, size) - 0 = SumOf(S, size) + SumOf(T, size)
    BY <1>3
  <1> QED  BY <1>1, <1>6, <1>7

\* A term and the terms of a part without it are no more than the whole sum.
LEMMA SumSplits ==
    ASSUME NEW T, NEW size, Sizes(T, size), NEW c \in T, NEW S \in SUBSET (T \ {c})
    PROVE  SumOf(S, size) + size[c] <= SumOf(T, size) /\ SumOf(S, size) \in Nat /\ size[c] \in Nat
  <1>1. S \in SUBSET T /\ c \notin S /\ S \cup {c} \in SUBSET T
    OBVIOUS
  <1>2. Sizes(S, size) /\ size[c] \in Nat
    BY <1>1, SumOfPart DEF Sizes
  <1>3. SumOf(S \cup {c}, size) = SumOf(S, size) + size[c]
    BY <1>1, <1>2, SumAdds
  <1>4. SumOf(S \cup {c}, size) <= SumOf(T, size)
    <2> DEFINE U == S \cup {c}
    <2>1. U \in SUBSET T
      BY <1>1
    <2> HIDE DEF U
    <2>2. SumOf(U, size) <= SumOf(T, size)
      BY <2>1, SumOfPart
    <2> QED  BY <2>2 DEF U
  <1>5. SumOf(S, size) \in Nat
    BY <1>2, SumIsNatural
  <1> QED  BY <1>2, <1>3, <1>4, <1>5

LEMMA CharsJoin ==
    ASSUME NEW S \in SUBSET Chunk, NEW T \in SUBSET Chunk, S \cap T = {}
    PROVE  Chars(S \cup T) = Chars(S) + Chars(T)
  <1>1. Sizes(S, Size) /\ Sizes(T, Size)
    BY CharsAre
  <1>2. SumOf(S \cup T, Size) = SumOf(S, Size) + SumOf(T, Size)
    BY <1>1, SumsJoin
  <1> QED  BY <1>2 DEF Chars

\* every packed passage is a part of its section
Parts(items) == \A i \in DOMAIN items : items[i].parts \subseteq Whole(items[i].file, items[i].sec).parts

\* A candidate whose fair room suffices gets it of the family's budget too.
LEMMA ShareFits ==
    ASSUME r \in Requests, NEW cov, NEW P \in SUBSET Sections, NEW pk \in Seq(Pieces), NEW used \in Nat,
           used <= MaxChars, NEW item \in Sections,
           Cost(item) <= FairRoom(r, cov, P, pk, MaxChars - used, item),
           Chars(UNION {f.parts : f \in ToSet(Family(r))}) <= FamilyChars,
           Parts(pk), \A i \in DOMAIN pk : pk[i].file # item.file \/ pk[i].sec # item.sec
    PROVE  Cost(item) <= Share(r, cov, P, pk, used, item)
  <1> DEFINE left == MaxChars - used
             fair == FairRoom(r, cov, P, pk, left, item)
             fam == ToSet(Family(r))
             mine == {q \in ToSet(pk) : \E f \in fam : f.sec = q.sec /\ f.file = q.file}
             B == UNION {p.parts : p \in mine}
             F == UNION {f.parts : f \in fam}
             spent == Chars(B)
             whole == /\ Cardinality(fam) \in 1 .. Least(FamilyMax, CoverageLimit(r))
                      /\ Chars(F) <= Least(FamilyChars, MaxChars)
                      /\ r.subjects \ (cov \cup SubjectsOf(item)) = {}
             best == IF whole THEN Least(left, Cost(item)) ELSE fair
             own == Most(FamilyChars, spent) - spent
  <1>1. Share(r, cov, P, pk, used, item) = IF item \in fam THEN Least(best, own) ELSE fair
    BY DEF Share, FamilyRoom
  <1>2. left \in Nat /\ item \in Pieces
    BY Budgets, SectionsAre
  <1>3. fair \in 0 .. left
    <2> HIDE DEF left
    <2> QED  BY <1>2, FairRoomIs
  <1>4. Cost(item) \in Nat /\ Cost(item) <= fair /\ Chars(F) <= FamilyChars
    BY <1>2, CostIs
  <1>5. fam \in SUBSET Sections
    BY FamilyIs, RangeIs
  <1>6. \A f \in fam : f = Whole(f.file, f.sec) /\ f.parts \subseteq Chunk
    BY <1>5, SectionsAre
  <1>7. \A p \in mine : /\ \E f \in fam : p.parts \subseteq f.parts
                        /\ p.parts \subseteq Whole(p.file, p.sec).parts
                        /\ p.file # item.file \/ p.sec # item.sec
    <2> SUFFICES ASSUME NEW p \in mine
                 PROVE  /\ \E f \in fam : p.parts \subseteq f.parts
                        /\ p.parts \subseteq Whole(p.file, p.sec).parts
                        /\ p.file # item.file \/ p.sec # item.sec
      OBVIOUS
    <2>1. p \in ToSet(pk) /\ \E f \in fam : f.sec = p.sec /\ f.file = p.file
      OBVIOUS
    <2>2. PICK i \in DOMAIN pk : p = pk[i]
      BY <2>1 DEF ToSet
    <2>3. PICK f \in fam : f.sec = p.sec /\ f.file = p.file
      BY <2>1
    <2>4. p.parts \subseteq Whole(p.file, p.sec).parts
      BY <2>2 DEF Parts
    <2>5. Whole(p.file, p.sec).parts = f.parts
      BY <1>6, <2>3
    <2> QED  BY <2>2, <2>3, <2>4, <2>5
  <1> HIDE DEF mine
  <1>8. B \subseteq F /\ F \subseteq Chunk
    <2>1. B \subseteq F
      <3> SUFFICES ASSUME NEW c \in B PROVE c \in F
        OBVIOUS
      <3>1. PICK p \in mine : c \in p.parts
        OBVIOUS
      <3>2. PICK f \in fam : p.parts \subseteq f.parts
        BY <1>7
      <3> HIDE DEF fam
      <3> QED  BY <3>1, <3>2
    <2>2. F \subseteq Chunk
      <3> SUFFICES ASSUME NEW c \in F PROVE c \in Chunk
        OBVIOUS
      <3> HIDE DEF fam
      <3>1. PICK f \in fam : c \in f.parts
        OBVIOUS
      <3> QED  BY <1>6, <3>1
    <2> QED  BY <2>1, <2>2
  <1>9. B \cap item.parts = {}
    <2> SUFFICES ASSUME NEW c \in B, c \in item.parts PROVE FALSE
      OBVIOUS
    <2>1. PICK p \in mine : c \in p.parts
      OBVIOUS
    <2>2. File[c] = p.file /\ Section[c] = p.sec
      <3>1. c \in Whole(p.file, p.sec).parts
        BY <1>7, <2>1
      <3> QED  BY <3>1 DEF Whole
    <2>3. File[c] = item.file /\ Section[c] = item.sec
      BY SectionsAre
    <2> QED  BY <1>7, <2>2, <2>3
  <1>10. item \in fam => item.parts \subseteq F
    OBVIOUS
  <1> HIDE DEF B, F, fam, fair, left, whole
  <1>11. spent \in Nat
    <2>1. B \in SUBSET Chunk
      BY <1>8
    <2> QED  BY <2>1, CharsAre
  <1>12. item \in fam => spent + Cost(item) <= FamilyChars
    <2> SUFFICES ASSUME item \in fam PROVE spent + Cost(item) <= FamilyChars
      OBVIOUS
    <2> DEFINE I == item.parts
               J == B \cup I
    <2>1. B \in SUBSET Chunk /\ I \in SUBSET Chunk /\ F \in SUBSET Chunk /\ J \in SUBSET F /\ B \cap I = {}
      BY <1>8, <1>9, <1>10
    <2>2. Cost(item) = Chars(I)
      BY DEF Cost
    <2> HIDE DEF I
    <2>5. Chars(J) = Chars(B) + Chars(I)
      BY <2>1, CharsJoin
    <2> HIDE DEF J
    <2>6. Chars(J) <= Chars(F) /\ Chars(F) \in Nat /\ Chars(J) \in Nat
      BY <2>1, <1>8, CharsAre
    <2>7. Chars(J) = spent + Cost(item)
      BY <2>2, <2>5
    <2> HIDE DEF spent
    <2> QED  BY <1>4, <2>6, <2>7, Budgets
  <1> HIDE DEF spent
  <1>13. item \in fam => Cost(item) <= own
    BY <1>4, <1>11, <1>12, Budgets DEF Most
  <1> HIDE DEF own
  <1>14. Cost(item) <= best
    BY <1>2, <1>3, <1>4 DEF Least
  <1> HIDE DEF best
  <1>15. item \in fam => Cost(item) <= Least(best, own)
    BY <1>13, <1>14 DEF Least
  <1> QED  BY <1>1, <1>4, <1>15

Lengths == [s \in Held |-> Longest(s)]

LEMMA LongestIs ==
    ASSUME r \in Requests, ranked \in Seq(Chunk), NEW s, Holders(s) # {}
    PROVE  /\ Longest(s) \in Nat /\ Holders(s) \subseteq Sections
           /\ \A i \in Holders(s) : Cost(i) <= Longest(s)
  <1> DEFINE R == Holders(s)
             costs == {Cost(o) : o \in R}
             o1 == CHOOSE o \in R : \A p \in R : Cost(o) >= Cost(p)
  <1>1. R \subseteq Sections /\ R # {}
    BY PoolIs DEF Holders
  <1>2. Longest(s) = Cost(o1)
    BY DEF Longest
  <1> HIDE DEF R
  <1>3. \A o \in R : Cost(o) \in 0 .. Chars(Chunk)
    <2> SUFFICES ASSUME NEW o \in R PROVE Cost(o) \in 0 .. Chars(Chunk)
      OBVIOUS
    <2>1. o \in Pieces /\ o.parts \in SUBSET Chunk
      BY <1>1, SectionsAre
    <2>2. Chunk \in SUBSET Chunk
      OBVIOUS
    <2>3. Chars(o.parts) <= Chars(Chunk) /\ Chars(Chunk) \in Nat
      BY <2>1, <2>2, CharsAre
    <2>4. Cost(o) \in Nat
      BY <2>1, CostIs
    <2> QED  BY <2>3, <2>4 DEF Cost
  <1>4. costs \in SUBSET (0 .. Chars(Chunk)) /\ costs # {} /\ Chars(Chunk) \in Nat
    <2>1. Chunk \in SUBSET Chunk
      OBVIOUS
    <2> QED  BY <1>1, <1>3, <2>1, CharsAre
  <1>5. \E m \in costs : \A x \in costs : x <= m
    <2> HIDE DEF costs
    <2> QED  BY <1>4, GreatestExists
  <1>6. \E o \in R : \A p \in R : Cost(o) >= Cost(p)
    BY <1>3, <1>5
  <1>7. o1 \in R /\ \A p \in R : Cost(o1) >= Cost(p)
    BY <1>6
  <1> HIDE DEF o1
  <1>8. \A i \in R : Cost(i) <= Longest(s) /\ Longest(s) \in Nat
    BY <1>2, <1>3, <1>7
  <1> QED  BY <1>1, <1>8 DEF R

LEMMA HeldIs ==
    ASSUME r \in Requests, ranked \in Seq(Chunk)
    PROVE  /\ Held \subseteq r.subjects /\ Heard \subseteq Held /\ IsFiniteSet(Held) /\ Sizes(Held, Lengths)
           /\ \A s \in Held : \A i \in Holders(s) : Cost(i) <= Lengths[s]
  <1>1. Held \subseteq r.subjects /\ Heard \subseteq Held /\ \A s \in Held : Holders(s) # {}
    BY DEF Held, Heard
  <1>2. IsFiniteSet(Held)
    BY <1>1, RequestIs, FS_Subset
  <1>3. \A s \in Held : Longest(s) \in Nat /\ \A i \in Holders(s) : Cost(i) <= Longest(s)
    BY <1>1, LongestIs
  <1>4. \A s \in Held : Lengths[s] = Longest(s)
    BY DEF Lengths
  <1> QED  BY <1>1, <1>2, <1>3, <1>4 DEF Sizes

\* what the subjects still open need at most is left, and each candidate
\* packed so far covered a subject
Provided ==
    /\ \A s \in Held \ covered : Holders(s) \subseteq pool
    /\ SumOf(Held \ covered, Lengths) + Total(packed) <= MaxChars
    /\ Len(packed) <= Cardinality(Held \cap covered)

HearInv ==
    (pc = "pack" /\ r.coverage) =>
      /\ pool \subseteq CoveragePool(r, ranked)
      /\ Parts(packed)
      /\ SubjectsFit => Heard \subseteq covered \/ Provided

\* The candidate taken next covers an open subject while a main section does.
LEMMA BestCovers ==
    ASSUME Typed, Provided, ~(Heard \subseteq covered), NEW item \in Best(r, covered, pool)
    PROVE  SubjectsOf(item) \cap (r.subjects \ covered) # {}
  <1>1. PICK s \in Heard : s \notin covered
    OBVIOUS
  <1>2. s \in Held /\ s \in r.subjects \ covered /\ Holders(s) \subseteq pool
    BY <1>1 DEF Provided, Held, Heard
  <1>3. PICK h \in Holders(s) : r.exceptions \/ h.sec \notin Exception
    BY <1>1, <1>2 DEF Held, Heard
  <1>4. h \in pool /\ s \in SubjectsOf(h)
    BY <1>2 DEF Holders
  <1> DEFINE a == Rank(r, covered, h)
             b == Rank(r, covered, item)
  <1>5. a[1] = 0 /\ a[2] = 0
    BY <1>2, <1>3, <1>4 DEF Rank
  <1>6. /\ b[1] \in {0, 1} /\ b[2] \in {0, 1}
        /\ b[2] = 0 <=> SubjectsOf(item) \cap (r.subjects \ covered) # {}
    BY DEF Rank
  <1>7. ~Before(a, b)
    BY <1>4 DEF Best
  <1> HIDE DEF a, b
  <1>8. b[2] = 0
    BY <1>5, <1>6, <1>7 DEF Before
  <1> QED  BY <1>6, <1>8

\* It fits, and what the others open need at least still fits beside it.
LEMMA CandidateFits ==
    ASSUME Typed, Provided, pool \subseteq CoveragePool(r, ranked), NEW item \in pool,
           NEW s \in SubjectsOf(item) \cap (r.subjects \ covered)
    PROVE  Cost(item) + Owed(r, covered, pool, item) <= MaxChars - Total(packed)
  <1> DEFINE U == Held \ covered
             W == Wanted(r.subjects \ covered, pool, item)
             cheap == Due(r.subjects \ covered, pool, item)
             owed == Owed(r, covered, pool, item)
  <1>1. /\ r \in Requests /\ ranked \in Seq(Chunk) /\ packed \in Seq(Pieces) /\ pool \in SUBSET Sections
        /\ item \in Pieces
    BY SectionsAre DEF Typed
  <1>2. \A t : \A i \in pool : t \in SubjectsOf(i) => i \in Holders(t)
    BY DEF Holders
  <1>3. s \in U /\ item \in Holders(s)
    BY <1>2 DEF Held
  <1>4. Sizes(Held, Lengths) /\ \A t \in Held : \A i \in Holders(t) : Cost(i) <= Lengths[t]
    BY <1>1, HeldIs
  <1>5. Sizes(U, Lengths)
    BY <1>4, SumOfPart
  <1>6. Cost(item) <= Lengths[s] /\ Cost(item) \in Nat /\ Total(packed) \in Nat
    BY <1>1, <1>3, <1>4, CostIs, TotalIs
  <1>7. SumOf(U, Lengths) + Total(packed) <= MaxChars
    BY DEF Provided
  <1>8. W \in SUBSET (U \ {s}) /\ \A t \in W : Rivals(pool, item, t) # {} /\ Rivals(pool, item, t) \subseteq Holders(t)
    <2> SUFFICES ASSUME NEW t \in W
                 PROVE  /\ t \in U /\ t # s
                        /\ Rivals(pool, item, t) # {} /\ Rivals(pool, item, t) \subseteq Holders(t)
      OBVIOUS
    <2>1. t \in r.subjects \ covered /\ t \notin SubjectsOf(item) /\ Rivals(pool, item, t) # {}
      BY DEF Wanted
    <2>2. Rivals(pool, item, t) \subseteq Holders(t)
      BY <1>2 DEF Rivals
    <2>3. t \in Held
      BY <2>1, <2>2 DEF Held
    <2> QED  BY <2>1, <2>2, <2>3
  <1>9. \A t \in W : cheap[t] \in Nat /\ cheap[t] <= Lengths[t]
    <2> SUFFICES ASSUME NEW t \in W PROVE CheapestOf(pool, item, t) \in Nat /\ CheapestOf(pool, item, t) <= Lengths[t]
      BY DEF Due
    <2>1. PICK o \in Rivals(pool, item, t) : TRUE
      BY <1>8
    <2>2. CheapestOf(pool, item, t) \in Nat /\ CheapestOf(pool, item, t) <= Cost(o)
      BY <1>1, <2>1, CheapestIs
    <2>3. Cost(o) <= Lengths[t] /\ Lengths[t] \in Nat
      BY <1>4, <1>8, <2>1 DEF Sizes
    <2>4. Cost(o) \in Nat
      BY <1>1, <2>1, SectionsAre, CostIs DEF Rivals
    <2> QED  BY <2>2, <2>3, <2>4
  <1>10. owed \in Nat /\ (owed = 0 \/ (owed = SumOf(W, cheap) /\ Sizes(W, cheap)))
    BY <1>1, OwedIs
  <1> HIDE DEF U, W, cheap, owed
  <1>11. SumOf(W, Lengths) + Lengths[s] <= SumOf(U, Lengths) /\ SumOf(W, Lengths) \in Nat /\ Lengths[s] \in Nat
    BY <1>3, <1>5, <1>8, SumSplits
  <1>12. owed <= SumOf(W, Lengths)
    <2>1. CASE owed = 0
      BY <1>11, <2>1
    <2>2. CASE owed = SumOf(W, cheap) /\ Sizes(W, cheap)
      <3>1. Sizes(W, Lengths)
        BY <1>5, <1>8, SumOfPart
      <3> DEFINE id == [t \in W |-> t]
      <3>2. /\ id \in [W -> W] /\ \A c, d \in W : id[c] = id[d] => c = d
            /\ \A c \in W : cheap[c] <= Lengths[id[c]]
        BY <1>9
      <3> HIDE DEF id
      <3>3. SumOf(W, cheap) <= SumOf(W, Lengths)
        BY <2>2, <3>1, <3>2, SumInjects
      <3> QED  BY <2>2, <3>3
    <2> QED  BY <1>10, <2>1, <2>2
  <1>13. SumOf(U, Lengths) \in Nat
    BY <1>5, SumIsNatural
  <1>14. Cost(item) + owed <= MaxChars - Total(packed)
    BY <1>6, <1>7, <1>10, <1>11, <1>12, <1>13, Budgets
  <1> QED  BY <1>14 DEF owed

\* Which subjects there are to hear depends on the request and the ranking.
LEMMA SameSubjects ==
    ASSUME r' = r, ranked' = ranked
    PROVE  /\ Held' = Held /\ Heard' = Heard /\ Lengths' = Lengths /\ SubjectsFit' = SubjectsFit
           /\ \A s : Holders(s)' = Holders(s)
           /\ CoveragePool(r, ranked)' = CoveragePool(r, ranked)
  <1>1. CoveragePool(r, ranked)' = CoveragePool(r, ranked)
    OBVIOUS
  <1>2. \A s : Holders(s)' = Holders(s)
    BY DEF Holders
  <1>3. \A s : Longest(s)' = Longest(s)
    BY <1>2 DEF Longest
  <1>4. Held' = Held
    BY <1>2 DEF Held
  <1>5. Heard' = Heard
    BY <1>2, <1>4 DEF Heard
  <1>6. Lengths' = Lengths
    BY <1>3, <1>4 DEF Lengths
  <1>7. SubjectsFit' = SubjectsFit
    <2>1. SubjectsFit = (/\ SumOf(Held, Lengths) <= MaxChars
                         /\ Chars(UNION {f.parts : f \in ToSet(Family(r))}) <= FamilyChars
                         /\ Cardinality(r.subjects) <= MaxSlots)
      BY DEF SubjectsFit, Lengths
    <2>2. SubjectsFit' = (/\ SumOf(Held', Lengths') <= MaxChars
                          /\ Chars(UNION {f.parts : f \in ToSet(Family(r))}) <= FamilyChars
                          /\ Cardinality(r.subjects) <= MaxSlots)
      BY DEF SubjectsFit, Lengths
    <2> QED  BY <1>4, <1>6, <2>1, <2>2
  <1> QED  BY <1>1, <1>2, <1>4, <1>5, <1>6, <1>7

\* Before the first passage everything is still to be had.
LEMMA HearStart ==
    (Typed /\ packed = <<>> /\ covered = {} /\ pool = CoveragePool(r, ranked)) => HearInv
  <1> SUFFICES ASSUME Typed, packed = <<>>, covered = {}, pool = CoveragePool(r, ranked) PROVE HearInv
    OBVIOUS
  <1>1. Parts(packed) /\ Len(packed) = 0 /\ Total(packed) = 0
    BY TotalOfNone DEF Parts
  <1>2. SubjectsFit => Provided
    <2> SUFFICES ASSUME SubjectsFit PROVE Provided
      OBVIOUS
    <2>1. Held \ covered = Held /\ Held \cap covered = {}
      OBVIOUS
    <2>2. SumOf(Held, Lengths) <= MaxChars
      BY DEF SubjectsFit, Lengths
    <2>3. SumOf(Held, Lengths) \in Nat
      <3>1. Sizes(Held, Lengths)
        BY HeldIs DEF Typed
      <3> QED  BY <3>1, SumIsNatural
    <2>4. \A s \in Held \ covered : Holders(s) \subseteq pool
      BY DEF Holders
    <2>5. Cardinality(Held \cap covered) = 0
      BY <2>1, FS_EmptySet
    <2>6. SumOf(Held \ covered, Lengths) + Total(packed) <= MaxChars
      BY <1>1, <2>1, <2>2, <2>3
    <2> QED  BY <1>1, <2>4, <2>5, <2>6 DEF Provided
  <1> QED  BY <1>1, <1>2 DEF HearInv

LEMMA HearArrange == ASSUME Sound, PackInv, Arrange PROVE HearInv'
  <1>1. Typed'
    BY SoundArrange DEF Sound
  <1>2. packed' = <<>> /\ covered' = {} /\ pc' = "pack" /\ r' = r
    BY DEF Arrange, PackInv
  <1>3. CASE r.coverage
    <2>1. pool' = CoveragePool(r, ranked)'
      BY <1>2, <1>3 DEF Arrange
    <2>2. (Typed /\ packed = <<>> /\ covered = {} /\ pool = CoveragePool(r, ranked))'
      BY <1>1, <1>2, <2>1
    <2> QED  BY <2>2, HearStart, PTL
  <1>4. CASE ~r.coverage
    BY <1>2, <1>4 DEF HearInv
  <1> QED  BY <1>3, <1>4

LEMMA HearNext == ASSUME Typed, PackInv, HearInv, PackNext PROVE HearInv'
  <1>1. /\ r' = r /\ ranked' = ranked /\ pc = "pack" /\ pc' = "pack" /\ r.coverage
        /\ Total(packed) <= MaxChars /\ Total(packed) \in Nat /\ covered \in SUBSET r.subjects
        /\ r \in Requests /\ packed \in Seq(Pieces) /\ pool \in SUBSET Sections /\ ranked \in Seq(Chunk)
        /\ pool \subseteq CoveragePool(r, ranked) /\ Parts(packed)
        /\ SubjectsFit => Heard \subseteq covered \/ Provided
    BY TotalIs DEF PackNext, PackInv, Typed, HearInv
  <1>a. PICK item \in pool, room \in 0 .. MaxChars - Total(packed) :
          \E kept \in Excerpts(item.parts, room) : Packs(item, room, kept)
    BY <1>1, PackNextIs
  <1>2. PICK kept \in Excerpts(item.parts, room) : Packs(item, room, kept)
    BY <1>a
  <1>3. /\ pool' = pool \ {item} /\ covered \subseteq covered' /\ item \in Best(r, covered, pool)
        /\ item \in Sections /\ item \in Pieces /\ item.parts \in SUBSET Chunk /\ item.parts # {}
        /\ item = Whole(item.file, item.sec)
        /\ kept \in SUBSET item.parts
        /\ \A i \in DOMAIN packed : packed[i].file # item.file \/ packed[i].sec # item.sec
    BY <1>1, <1>2, SectionsAre DEF Packs, Excerpts, PackInv, Pieces
  <1>4. pool' \subseteq CoveragePool(r, ranked)'
    BY <1>1, <1>3
  <1>5. Parts(packed')
    <2>1. CASE kept = {}
      BY <1>1, <1>2, <2>1 DEF Packs
    <2>2. CASE kept # {}
      <3> DEFINE cut == [item EXCEPT !.parts = kept]
      <3>1. packed' = Append(packed, cut)
        BY <1>2, <2>2 DEF Packs
      <3>2. cut \in Pieces /\ cut.parts \subseteq Whole(cut.file, cut.sec).parts
        BY <1>3, CutIsPiece
      <3> HIDE DEF cut
      <3>3. \A i \in DOMAIN packed' : (i \in DOMAIN packed /\ packed'[i] = packed[i]) \/ packed'[i] = cut
        BY <1>1, <3>1, <3>2
      <3> SUFFICES ASSUME NEW i \in DOMAIN packed'
                   PROVE  packed'[i].parts \subseteq Whole(packed'[i].file, packed'[i].sec).parts
        BY DEF Parts
      <3>4. CASE i \in DOMAIN packed /\ packed'[i] = packed[i]
        BY <1>1, <3>4 DEF Parts
      <3>5. CASE packed'[i] = cut
        BY <3>2, <3>5
      <3> QED  BY <3>3, <3>4, <3>5
    <2> QED  BY <2>1, <2>2
  <1>6. ASSUME SubjectsFit, ~(Heard \subseteq covered) PROVE Provided'
    <2>1. Provided
      BY <1>1, <1>6
    <2>2. PICK s \in SubjectsOf(item) \cap (r.subjects \ covered) : TRUE
      <3>1. SubjectsOf(item) \cap (r.subjects \ covered) # {}
        BY <1>3, <1>6, <2>1, BestCovers
      <3> QED  BY <3>1
    <2>3. Cost(item) + Owed(r, covered, pool, item) <= MaxChars - Total(packed)
      BY <1>1, <2>1, CandidateFits
    <2> DEFINE left == MaxChars - Total(packed)
    <2>4. left \in Nat
      BY <1>1, Budgets
    <2>5. Cost(item) <= FairRoom(r, covered, pool, packed, left, item)
      <3>1. Cost(item) + Owed(r, covered, pool, item) <= left /\ SubjectsOf(item) \cap (r.subjects \ covered) # {}
        BY <2>2, <2>3
      <3> HIDE DEF left
      <3> QED  BY <1>1, <1>3, <2>4, <3>1, FairRoomIs
    <2>6. Cost(item) <= room
      <3>1. Chars(UNION {f.parts : f \in ToSet(Family(r))}) <= FamilyChars
        BY <1>6 DEF SubjectsFit
      <3>2. Cost(item) <= Share(r, covered, pool, packed, Total(packed), item)
        BY <1>1, <1>3, <2>5, <3>1, ShareFits
      <3> QED  BY <1>2, <3>2 DEF Packs
    <2>7. /\ packed' = Append(packed, item)
          /\ covered' = covered \cup (r.subjects \cap SubjectsOf(item))
      <3>1. kept = item.parts /\ [item EXCEPT !.parts = item.parts] = item
        BY <1>2, <1>3, <2>6 DEF Packs, Pieces
      <3> QED  BY <1>2, <1>3, <3>1 DEF Packs
    <2>8. /\ Held' = Held /\ Lengths' = Lengths /\ \A t : Holders(t)' = Holders(t)
      BY <1>1, SameSubjects
    <2>9. /\ Held \subseteq r.subjects /\ IsFiniteSet(Held) /\ Sizes(Held, Lengths)
          /\ \A t \in Held : \A i \in Holders(t) : Cost(i) <= Lengths[t]
      BY <1>1, HeldIs
    <2>10. \A t \in SubjectsOf(item) : item \in Holders(t)
      BY <1>1 DEF Holders
    <2>11. s \in Held \ covered /\ s \in covered' /\ item \in Holders(s)
      BY <2>2, <2>7, <2>10 DEF Held
    <2>12. \A t \in Held \ covered' : Holders(t) \subseteq pool'
      <3> SUFFICES ASSUME NEW t \in Held \ covered' PROVE Holders(t) \subseteq pool'
        OBVIOUS
      <3>1. t \in Held \ covered /\ t \notin SubjectsOf(item)
        BY <2>7, <2>9
      <3>2. Holders(t) \subseteq pool /\ item \notin Holders(t)
        BY <2>1, <3>1 DEF Provided, Holders
      <3> QED  BY <1>3, <3>2
    <2>13. SumOf(Held \ covered', Lengths) + Total(packed') <= MaxChars
      <3> DEFINE U == Held \ covered
                 V == Held \ covered'
      <3>1. V \in SUBSET (U \ {s}) /\ s \in U /\ U \in SUBSET Held
        BY <1>3, <2>11
      <3>2. SumOf(U, Lengths) + Total(packed) <= MaxChars
        BY <2>1 DEF Provided
      <3> HIDE DEF U, V
      <3>3. Sizes(U, Lengths)
        BY <2>9, <3>1, SumOfPart
      <3>4. SumOf(V, Lengths) + Lengths[s] <= SumOf(U, Lengths) /\ SumOf(V, Lengths) \in Nat /\ Lengths[s] \in Nat
        BY <3>1, <3>3, SumSplits
      <3>5. SumOf(U, Lengths) \in Nat
        BY <3>3, SumIsNatural
      <3>6. Cost(item) <= Lengths[s] /\ Cost(item) \in Nat
        BY <1>3, <2>9, <2>11, CostIs
      <3>7. Total(packed') = Total(packed) + Cost(item)
        BY <1>1, <1>3, <2>7, TotalAdds
      <3> QED  BY <1>1, <3>2, <3>4, <3>5, <3>6, <3>7, Budgets DEF V
    <2>14. Len(packed') <= Cardinality(Held \cap covered')
      <3> DEFINE A == Held \cap covered
                 B == Held \cap covered'
      <3>1. A \cup {s} \subseteq B /\ s \notin A /\ B \subseteq Held
        BY <1>3, <2>11
      <3>2. Len(packed) <= Cardinality(A)
        BY <2>1 DEF Provided
      <3> HIDE DEF A, B
      <3>3. IsFiniteSet(B) /\ IsFiniteSet(A)
        BY <2>9, <3>1, FS_Subset
      <3>4. Cardinality(A \cup {s}) = Cardinality(A) + 1 /\ Cardinality(A) \in Nat
        BY <3>1, <3>3, FS_AddElement, FS_CardinalityType
      <3>5. Cardinality(A \cup {s}) <= Cardinality(B) /\ Cardinality(B) \in Nat
        BY <3>1, <3>3, FS_Subset, FS_CardinalityType
      <3>6. Len(packed') = Len(packed) + 1 /\ Len(packed) \in Nat
        BY <1>1, <2>7
      <3> QED  BY <3>2, <3>4, <3>5, <3>6 DEF B
    <2> QED  BY <2>8, <2>12, <2>13, <2>14 DEF Provided
  <1>7. SubjectsFit' => Heard' \subseteq covered' \/ Provided'
    <2>1. SubjectsFit' = SubjectsFit /\ Heard' = Heard
      BY <1>1, SameSubjects
    <2>2. CASE Heard \subseteq covered
      BY <1>3, <2>1, <2>2
    <2>3. CASE SubjectsFit /\ ~(Heard \subseteq covered)
      BY <1>6, <2>3
    <2> QED  BY <2>1, <2>2, <2>3
  <1> QED  BY <1>4, <1>5, <1>7 DEF HearInv

\* The packer does not stop while a subject is still to be heard.
LEMMA FullIsHeard ==
    ASSUME Typed, HearInv, pc = "pack", r.coverage, SubjectsFit, Full
    PROVE  Heard \subseteq covered
  <1> SUFFICES ASSUME ~(Heard \subseteq covered) PROVE FALSE
    OBVIOUS
  <1>1. Provided /\ r \in Requests /\ ranked \in Seq(Chunk) /\ packed \in Seq(Pieces)
    BY DEF HearInv, Typed
  <1>2. PICK s \in Heard : s \notin covered
    OBVIOUS
  <1>3. s \in Held /\ Holders(s) # {} /\ Holders(s) \subseteq pool
    BY <1>1, <1>2 DEF Heard, Held, Provided
  <1>4. Held \subseteq r.subjects /\ IsFiniteSet(Held) /\ IsFiniteSet(r.subjects)
    BY <1>1, HeldIs, RequestIs
  <1>5. Cardinality(Held \cap covered) < Cardinality(r.subjects)
    <2> DEFINE A == Held \cap covered
    <2>1. A \cup {s} \subseteq r.subjects /\ s \notin A /\ A \subseteq Held
      BY <1>2, <1>3, <1>4
    <2> HIDE DEF A
    <2>2. IsFiniteSet(A)
      BY <1>4, <2>1, FS_Subset
    <2>3. Cardinality(A \cup {s}) = Cardinality(A) + 1 /\ Cardinality(A) \in Nat
      BY <2>1, <2>2, FS_AddElement, FS_CardinalityType
    <2>4. Cardinality(A \cup {s}) <= Cardinality(r.subjects) /\ Cardinality(r.subjects) \in Nat
      BY <1>4, <2>1, FS_Subset, FS_CardinalityType
    <2> QED  BY <2>3, <2>4 DEF A
  <1>6. Len(packed) <= Cardinality(Held \cap covered)
    BY <1>1 DEF Provided
  <1>7. Len(packed) >= CoverageLimit(r)
    BY <1>3 DEF Full
  <1>8. CoverageLimit(r) >= Cardinality(r.subjects)
    <2> DEFINE n == Cardinality(r.subjects)
               more == Least(2, Cardinality(Roots(r)))
    <2>1. n \in Nat /\ n <= MaxSlots
      BY <1>4, FS_CardinalityType DEF SubjectsFit
    <2>2. Cardinality(Roots(r)) \in Nat
      <3>1. Roots(r) \subseteq Sections
        BY DEF Roots, Offered
      <3> QED  BY <3>1, SectionsAre, FS_Subset, FS_CardinalityType
    <2>3. more \in Nat
      BY <2>2 DEF Least
    <2>4. CoverageLimit(r) = Most(r.topk, Least(MaxSlots, n + more))
      BY DEF CoverageLimit
    <2> HIDE DEF n, more
    <2>5. r.topk \in Nat
      BY <1>1, RequestIs
    <2>6. CoverageLimit(r) >= n
      BY <2>1, <2>3, <2>4, <2>5, Budgets DEF Most, Least
    <2> QED  BY <2>6 DEF n
  <1>9. Len(packed) \in Nat /\ Cardinality(Held \cap covered) \in Nat /\ Cardinality(r.subjects) \in Nat /\ CoverageLimit(r) \in Nat
    <2>1. IsFiniteSet(Held \cap covered)
      BY <1>4, FS_Subset
    <2> QED  BY <1>1, <1>4, <2>1, FS_CardinalityType, LimitIs
  <1> QED  BY <1>5, <1>6, <1>7, <1>8, <1>9

Hearing == HearInv /\ SubjectsAreHeard

LEMMA HearingStep ==
    ASSUME Sound, PackInv, Hearing, [Next]_vars
    PROVE  Hearing'
  <1>1. Typed /\ HearInv
    BY DEF Sound, Hearing
  <1>2. CASE Arrange
    BY <1>2, HearArrange DEF Hearing, Arrange, SubjectsAreHeard
  <1>3. CASE PackNext
    BY <1>1, <1>3, HearNext DEF Hearing, PackNext, SubjectsAreHeard
  <1>4. CASE Packed
    <2>1. /\ r' = r /\ ranked' = ranked /\ covered' = covered /\ pc = "pack" /\ pc' = "final" /\ r.coverage /\ Full
      BY <1>4 DEF Packed
    <2>2. SubjectsFit => Heard \subseteq covered
      BY <1>1, <2>1, FullIsHeard
    <2>3. SubjectsFit' = SubjectsFit /\ Heard' = Heard
      BY <2>1, SameSubjects
    <2> QED  BY <2>1, <2>2, <2>3 DEF Hearing, HearInv, SubjectsAreHeard
  <1>5. CASE UNCHANGED vars
    <2>1. /\ r' = r /\ ranked' = ranked /\ covered' = covered /\ pc' = pc /\ pool' = pool /\ packed' = packed
      BY <1>5 DEF vars
    <2>2. /\ Held' = Held /\ Heard' = Heard /\ Lengths' = Lengths /\ SubjectsFit' = SubjectsFit
          /\ \A s : Holders(s)' = Holders(s)
          /\ CoveragePool(r, ranked)' = CoveragePool(r, ranked)
      BY <2>1, SameSubjects
    <2>3. Provided' <=> Provided
      BY <2>1, <2>2 DEF Provided
    <2> QED  BY <2>1, <2>2, <2>3 DEF Hearing, HearInv, SubjectsAreHeard
  <1>6. CASE PackLegacy
    BY <1>6 DEF PackLegacy, Hearing, HearInv, SubjectsAreHeard
  <1>7. CASE Seed \/ Search \/ Siblings \/ Scope \/ Documents \/ Expand \/ Rerank \/ Route \/ Candidates \/ Final
    <2>1. pc' \notin {"pack", "final"}
      <3>1. CASE Seed \/ Search \/ Siblings
        <4>1. Sound' /\ pc' \in Merging
          <5>1. CASE Seed
            BY <1>1, <5>1, SeedIs, SoundMerging DEF Sound
          <5>2. CASE Search \/ Siblings
            BY <5>2, SoundMerging DEF Search, Siblings, Merging
          <5> QED  BY <3>1, <5>1, <5>2
        <4> QED  BY <4>1, ChannelsAre DEF Merging
      <3>2. CASE Scope \/ Documents \/ Expand \/ Rerank \/ Route \/ Candidates \/ Final
        BY <3>2 DEF Scope, Documents, Expand, Rerank, Route, Candidates, Final
      <3> QED  BY <1>7, <3>1, <3>2
    <2> QED  BY <2>1 DEF Hearing, HearInv, SubjectsAreHeard
  <1> QED  BY <1>2, <1>3, <1>4, <1>5, <1>6, <1>7 DEF Next, Done

(* A passage of the chat's own files that matches is among the first the    *)
(* packer is offered (prioritize_scoped_results, diversification), and      *)
(* every subject of the question that has a main section ends up in the     *)
(* context when the longest sections on the subjects fit its budgets        *)
(* (select_v2): no order by score starves either.                           *)
THEOREM NoneIsEverStarved == Spec => []NoneIsStarved
  <1>1. Init => Hearing
    BY DEF Init, Hearing, HearInv, SubjectsAreHeard
  <1>2. Sound /\ PackInv /\ Hearing /\ [Next]_vars => Hearing'
    BY HearingStep
  <1>3. Sound /\ Hearing => NoneIsStarved
    BY DEF Sound, Hearing, NoneIsStarved
  <1> QED  BY <1>1, <1>2, <1>3, Inductive, PTL DEF Spec
=============================================================================
