--------------------------- MODULE AnswerPath_proofs ---------------------------
(***************************************************************************)
(* Proofs about the answer path.                                           *)
(*                                                                         *)
(* CorrectiveRag, for any records, budgets, queries and number of rounds:  *)
(* what a drifted task chose is revoked, what is published is verified,    *)
(* and the evidence the writer is handed is sound.  First what             *)
(* assign_evidence (Evidence) does to any list of candidates under any     *)
(* budget: what it keeps fits, E-IDs stay what they are, and records that  *)
(* fit together and come first are all kept.                               *)
(*                                                                         *)
(* Algorithms, for any answers, reviews, drafts, evidence and histories:   *)
(* what is published of an answer, what the ordinary guard lets pass,      *)
(* which candidates come first, what is read before an answer is written,  *)
(* and what a question means.                                              *)
(*                                                                         *)
(* The loops are recursive functions.  Induction is over a set of numbers  *)
(* (the least number outside it, WFMin), since the provers cannot          *)
(* instantiate the theorems that take a predicate.                         *)
(***************************************************************************)
EXTENDS CorrectiveRag, Algorithms, FiniteSetTheorems, WellFoundedInduction, TLAPS

LEMMA Induction ==
    ASSUME NEW S \in SUBSET Nat, 0 \in S, \A n \in S : n + 1 \in S
    PROVE  S = Nat
  <1> SUFFICES ASSUME Nat \ S # {}
               PROVE  FALSE
    OBVIOUS
  <1>1. PICK m \in Nat \ S : \A y \in Nat \ S : ~(<<y, m>> \in OpToRel(<, Nat))
    BY NatLessThanWellFounded, WFMin, Zenon
  <1>2. \A y \in Nat \ S : ~(y < m)
    BY <1>1 DEF OpToRel
  <1>3. m # 0
    OBVIOUS
  <1>4. m - 1 \in S
    BY <1>2, <1>3
  <1> QED  BY <1>4

\* A loop over L rounds from start, by step, has a value after each round.
IsLoop(f, V, start, L, step) ==
    /\ f \in [0 .. L -> V]
    /\ f[0] = start
    /\ \A n \in 1 .. L : f[n] = step[<<n, f[n - 1]>>]

LEMMA Recursion ==
    ASSUME NEW V, NEW start \in V, NEW L \in Nat, NEW step \in [(1 .. L) \X V -> V]
    PROVE  \E f : IsLoop(f, V, start, L, step)
  <1> DEFINE Loop(k, f) == f[0] = start /\ \A n \in 1 .. k : f[n] = step[<<n, f[n - 1]>>]
             S == {k \in Nat : k <= L => \E f \in [0 .. k -> V] : Loop(k, f)}
  <1>1. 0 \in S
    <2>1. [n \in 0 .. 0 |-> start] \in [0 .. 0 -> V]
      OBVIOUS
    <2>2. Loop(0, [n \in 0 .. 0 |-> start])
      OBVIOUS
    <2> QED  BY <2>1, <2>2
  <1>2. ASSUME NEW k \in S
        PROVE  k + 1 \in S
    <2> SUFFICES ASSUME k + 1 <= L
                 PROVE  \E f \in [0 .. k + 1 -> V] : Loop(k + 1, f)
      OBVIOUS
    <2>1. PICK f \in [0 .. k -> V] : Loop(k, f)
      OBVIOUS
    <2> DEFINE g == [n \in 0 .. k + 1 |-> IF n <= k THEN f[n]
                                          ELSE step[<<k + 1, f[k]>>]]
    <2>2. g \in [0 .. k + 1 -> V]
      <3>1. f[k] \in V /\ k + 1 \in 1 .. L
        OBVIOUS
      <3>2. step[<<k + 1, f[k]>>] \in V
        BY <3>1
      <3> QED  BY <3>2
    <2>3. \A n \in 0 .. k : g[n] = f[n]
      OBVIOUS
    <2>4. g[k + 1] = step[<<k + 1, f[k]>>]
      OBVIOUS
    <2>5. Loop(k + 1, g)
      <3> HIDE DEF g
      <3>1. g[0] = start
        BY <2>1, <2>3
      <3>2. ASSUME NEW n \in 1 .. k + 1
            PROVE  g[n] = step[<<n, g[n - 1]>>]
        <4>1. CASE n \in 1 .. k
          <5>1. n - 1 \in 0 .. k /\ n \in 0 .. k
            BY <4>1
          <5> QED  BY <2>1, <2>3, <4>1, <5>1
        <4>2. CASE n = k + 1
          BY <2>3, <2>4, <4>2
        <4> QED  BY <4>1, <4>2
      <3> QED  BY <3>1, <3>2
    <2> QED  BY <2>2, <2>5
  <1>3. S = Nat
    <2> HIDE DEF S
    <2>1. S \in SUBSET Nat
      BY DEF S
    <2> QED  BY <1>1, <1>2, <2>1, Induction
  <1>4. PICK f \in [0 .. L -> V] : Loop(L, f)
    BY <1>3
  <1> QED  BY <1>4 DEF IsLoop

-----------------------------------------------------------------------------
(***************************************************************************)
(* The length of a list of records.                                        *)
(***************************************************************************)
Sums(s) == CHOOSE f : f = [n \in 0 .. Len(s) |-> IF n = 0 THEN 0
                                                 ELSE f[n - 1] + Size[s[n]]]

LEMMA SumsDef ==
    ASSUME NEW s \in Seq(Record)
    PROVE  /\ Total(s) = Sums(s)[Len(s)]
           /\ Sums(s)[0] = 0
           /\ \A n \in 1 .. Len(s) : Sums(s)[n] = Sums(s)[n - 1] + Size[s[n]]
           /\ \A n \in 0 .. Len(s) : Sums(s)[n] \in Nat
           /\ \A n \in 1 .. Len(s) : Size[s[n]] \in Nat
  <1> DEFINE L == Len(s)
             step == [x \in (1 .. L) \X Nat |-> x[2] + Size[s[x[1]]]]
  <1>1. \A n \in 1 .. L : Size[s[n]] \in Nat
    BY EvidenceAssumption
  <1>2. step \in [(1 .. L) \X Nat -> Nat]
    BY <1>1
  <1>3. PICK f : IsLoop(f, Nat, 0, L, step)
    <2>1. L \in Nat /\ 0 \in Nat
      OBVIOUS
    <2> HIDE DEF L, step
    <2> QED  BY <1>2, <2>1, Recursion
  <1>4. ASSUME NEW n \in 1 .. L
        PROVE  step[<<n, f[n - 1]>>] = f[n - 1] + Size[s[n]]
    <2>1. f[n - 1] \in Nat
      BY <1>3 DEF IsLoop
    <2>2. <<n, f[n - 1]>> \in (1 .. L) \X Nat
      BY <2>1
    <2> QED  BY <2>2
  <1>5. f = [n \in 0 .. L |-> IF n = 0 THEN 0 ELSE f[n - 1] + Size[s[n]]]
    <2> HIDE DEF step
    <2>1. /\ f = [n \in 0 .. L |-> f[n]] /\ f[0] = 0
          /\ \A n \in 1 .. L : f[n] = f[n - 1] + Size[s[n]]
      BY <1>3, <1>4 DEF IsLoop
    <2>2. \A n \in 0 .. L : f[n] = IF n = 0 THEN 0 ELSE f[n - 1] + Size[s[n]]
      BY <2>1
    <2> QED  BY <2>1, <2>2
  <1>6. Sums(s) = [n \in 0 .. L |-> IF n = 0 THEN 0 ELSE Sums(s)[n - 1] + Size[s[n]]]
    BY <1>5, Zenon DEF Sums
  <1>7. Total(s) = Sums(s)[Len(s)]
    BY DEF Total, Sums
  <1>8. /\ Sums(s)[0] = 0
        /\ \A n \in 1 .. L : Sums(s)[n] = Sums(s)[n - 1] + Size[s[n]]
    BY <1>6
  <1>9. \A n \in 0 .. L : Sums(s)[n] \in Nat
    <2> DEFINE S == {k \in Nat : k <= L => Sums(s)[k] \in Nat}
    <2>1. 0 \in S /\ \A k \in S : k + 1 \in S
      <3>1. 0 \in S
        BY <1>8
      <3>2. ASSUME NEW k \in S, k + 1 <= L
            PROVE  Sums(s)[k + 1] \in Nat
        <4>1. Sums(s)[k + 1] = Sums(s)[(k + 1) - 1] + Size[s[k + 1]]
          BY <1>8, <3>2
        <4> QED  BY <1>1, <3>2, <4>1
      <3> QED  BY <3>1, <3>2
    <2>2. S = Nat
      <3> HIDE DEF S
      <3>1. S \in SUBSET Nat
        BY DEF S
      <3> QED  BY <2>1, <3>1, Induction
    <2> QED  BY <2>2
  <1> QED  BY <1>1, <1>7, <1>8, <1>9

LEMMA SumsOfPrefix ==
    ASSUME NEW s \in Seq(Record), NEW t \in Seq(Record), NEW m \in Nat,
           m <= Len(s), m <= Len(t), \A i \in 1 .. m : s[i] = t[i]
    PROVE  Sums(s)[m] = Sums(t)[m]
  <1> DEFINE S == {k \in Nat : k <= m => Sums(s)[k] = Sums(t)[k]}
  <1>1. 0 \in S
    BY SumsDef
  <1>2. ASSUME NEW k \in S, k + 1 <= m
        PROVE  Sums(s)[k + 1] = Sums(t)[k + 1]
    <2>1. /\ Sums(s)[k + 1] = Sums(s)[(k + 1) - 1] + Size[s[k + 1]]
          /\ Sums(t)[k + 1] = Sums(t)[(k + 1) - 1] + Size[t[k + 1]]
      BY <1>2, SumsDef
    <2> QED  BY <1>2, <2>1
  <1>3. S = Nat
    <2> HIDE DEF S
    <2>1. S \in SUBSET Nat /\ 0 \in S /\ \A k \in S : k + 1 \in S
      BY <1>1, <1>2 DEF S
    <2> QED  BY <2>1, Induction
  <1> QED  BY <1>3

LEMMA SumsGrow ==
    ASSUME NEW s \in Seq(Record), NEW m \in 0 .. Len(s)
    PROVE  Sums(s)[m] <= Sums(s)[Len(s)]
  <1> DEFINE S == {k \in Nat : m + k <= Len(s) => Sums(s)[m] <= Sums(s)[m + k]}
  <1>1. 0 \in S
    BY SumsDef
  <1>2. ASSUME NEW k \in S, m + (k + 1) <= Len(s)
        PROVE  Sums(s)[m] <= Sums(s)[m + (k + 1)]
    <2>1. /\ m + (k + 1) \in 1 .. Len(s) /\ m + k \in 0 .. Len(s)
          /\ (m + (k + 1)) - 1 = m + k
      BY <1>2
    <2>2. /\ Sums(s)[m + (k + 1)] = Sums(s)[m + k] + Size[s[m + (k + 1)]]
          /\ Size[s[m + (k + 1)]] \in Nat /\ Sums(s)[m + k] \in Nat
          /\ Sums(s)[m] \in Nat
      BY <2>1, SumsDef
    <2> QED  BY <1>2, <2>2
  <1>3. S = Nat
    <2> HIDE DEF S
    <2>1. S \in SUBSET Nat /\ 0 \in S /\ \A k \in S : k + 1 \in S
      BY <1>1, <1>2 DEF S
    <2> QED  BY <2>1, Induction
  <1> DEFINE k == Len(s) - m
  <1>4. k \in Nat /\ m + k = Len(s)
    OBVIOUS
  <1>5. k \in S
    BY <1>3, <1>4
  <1> HIDE DEF k
  <1> QED  BY <1>4, <1>5

\* The length of a list with one more record.
LEMMA TotalOfMore ==
    ASSUME NEW s \in Seq(Record), NEW r \in Record
    PROVE  /\ Total(Append(s, r)) = Total(s) + Size[r]
           /\ Total(s) \in Nat /\ Size[r] \in Nat
  <1> DEFINE t == Append(s, r)
  <1>1. /\ t \in Seq(Record) /\ Len(t) = Len(s) + 1 /\ t[Len(t)] = r
        /\ \A i \in 1 .. Len(s) : t[i] = s[i]
    OBVIOUS
  <1>2. Sums(t)[Len(s)] = Sums(s)[Len(s)]
    <2> HIDE DEF t
    <2>1. Len(s) \in Nat /\ Len(s) <= Len(s) /\ Len(s) <= Len(t)
      BY <1>1
    <2> QED  BY <1>1, <2>1, SumsOfPrefix
  <1>3. Sums(t)[Len(t)] = Sums(t)[Len(s)] + Size[r]
    <2> HIDE DEF t
    <2>1. Len(t) \in 1 .. Len(t) /\ Len(t) - 1 = Len(s)
      BY <1>1
    <2> QED  BY <1>1, <2>1, SumsDef
  <1>4. /\ Total(t) = Sums(t)[Len(t)] /\ Total(s) = Sums(s)[Len(s)]
        /\ Total(s) \in Nat
    <2> HIDE DEF t
    <2>1. Len(s) \in 0 .. Len(s)
      OBVIOUS
    <2> QED  BY <1>1, <2>1, SumsDef
  <1> QED  BY <1>2, <1>3, <1>4, EvidenceAssumption

LEMMA TotalOfNone == Total(<<>>) = 0
  <1>1. <<>> \in Seq(Record) /\ Len(<<>>) = 0
    OBVIOUS
  <1> QED  BY <1>1, SumsDef

-----------------------------------------------------------------------------
(***************************************************************************)
(* One candidate is admitted or passed over.                               *)
(***************************************************************************)
Admissions == [kept : Seq(Numbered), used : Nat, registry : Seq(Record)]

\* No identity that is proven has two numbers.
NoTwice(known) ==
    \A m, n \in DOMAIN known :
        known[m] = known[n] /\ known[m] \notin Opaque => m = n

\* Every E-ID is the number of the record it is shown with.
Named(items, known) ==
    \A i \in DOMAIN items : /\ items[i].eid \in DOMAIN known
                            /\ known[items[i].eid] = items[i].rec

\* E-IDs given out before keep their records.
Grows(old, new) == DOMAIN old \subseteq DOMAIN new /\ \A n \in DOMAIN old : new[n] = old[n]

IsGood(acc, budget, known) ==
    /\ acc \in Admissions
    /\ acc.used = Total(Recs(acc.kept)) /\ acc.used <= budget
    /\ NoTwice(acc.registry) /\ Named(acc.kept, acc.registry)
    /\ Grows(known, acc.registry)

LEMMA RecsOfMore ==
    ASSUME NEW s \in Seq(Numbered), NEW r \in Record, NEW e \in Nat
    PROVE  /\ Append(s, [rec |-> r, eid |-> e]) \in Seq(Numbered)
           /\ Recs(s) \in Seq(Record)
           /\ Recs(Append(s, [rec |-> r, eid |-> e])) = Append(Recs(s), r)
           /\ ToSet(Recs(Append(s, [rec |-> r, eid |-> e]))) = ToSet(Recs(s)) \cup {r}
  <1> DEFINE x == [rec |-> r, eid |-> e]
             t == Append(s, x)
  <1>1. x \in Numbered /\ x.rec = r
    BY DEF Numbered
  <1>2. \A i \in DOMAIN s : s[i].rec \in Record
    <2>1. \A i \in DOMAIN s : s[i] \in Numbered
      OBVIOUS
    <2>2. \A y \in Numbered : y.rec \in Record
      BY DEF Numbered
    <2> QED  BY <2>1, <2>2
  <1>3. Recs(s) \in Seq(Record) /\ DOMAIN Recs(s) = DOMAIN s
    BY <1>2 DEF Recs
  <1> HIDE DEF x
  <1>4. /\ t \in Seq(Numbered) /\ DOMAIN t = 1 .. Len(s) + 1 /\ t[Len(s) + 1] = x
        /\ \A i \in 1 .. Len(s) : t[i] = s[i]
    BY <1>1
  <1> HIDE DEF t
  <1>5. Recs(t) = Append(Recs(s), r)
    <2>1. Append(Recs(s), r) = [i \in 1 .. Len(s) + 1 |->
                                   IF i = Len(s) + 1 THEN r ELSE Recs(s)[i]]
      BY <1>3 DEF Recs
    <2>2. \A i \in 1 .. Len(s) + 1 :
              t[i].rec = IF i = Len(s) + 1 THEN r ELSE Recs(s)[i]
      BY <1>1, <1>4 DEF Recs
    <2>3. Recs(t) = [i \in 1 .. Len(s) + 1 |-> t[i].rec]
      BY <1>4 DEF Recs
    <2> QED  BY <2>1, <2>2, <2>3
  <1>6. ToSet(Recs(t)) = ToSet(Recs(s)) \cup {r}
    BY <1>1, <1>4 DEF ToSet, Recs
  <1> QED  BY <1>3, <1>4, <1>5, <1>6 DEF t, x

LEMMA AdmitOneGood ==
    ASSUME NEW budget \in Nat, NEW known, NEW rec \in Record,
           NEW acc, IsGood(acc, budget, known)
    PROVE  /\ IsGood(AdmitOne(acc, rec, budget), budget, known)
           /\ ToSet(Recs(acc.kept)) \subseteq ToSet(Recs(AdmitOne(acc, rec, budget).kept))
           /\ rec \notin Dead \cup Opaque /\ acc.used + Size[rec] <= budget =>
                 rec \in ToSet(Recs(AdmitOne(acc, rec, budget).kept))
           /\ AdmitOne(acc, rec, budget).used <= acc.used + Size[rec]
           /\ \/ AdmitOne(acc, rec, budget) = acc
              \/ Recs(AdmitOne(acc, rec, budget).kept) = Append(Recs(acc.kept), rec)
           /\ /\ rec \notin Dead \cup Opaque \cup ToSet(Recs(acc.kept))
              /\ acc.used + Size[rec] <= budget
              => Recs(AdmitOne(acc, rec, budget).kept) = Append(Recs(acc.kept), rec)
  <1> DEFINE numbers == {n \in DOMAIN acc.registry : acc.registry[n] = rec}
             new == AdmitOne(acc, rec, budget)
  <1>0. /\ acc.kept \in Seq(Numbered) /\ acc.used \in Nat /\ acc.registry \in Seq(Record)
        /\ Size[rec] \in Nat
    BY EvidenceAssumption DEF IsGood, Admissions
  <1> DEFINE passed == \/ rec \in Dead
                       \/ rec \notin Opaque /\ rec \in ToSet(Recs(acc.kept))
                       \/ acc.used + Size[rec] > budget
  <1>1. CASE passed
    <2>1. new = acc
      BY <1>1 DEF AdmitOne
    <2>2. /\ acc.used <= acc.used + Size[rec]
          /\ rec \notin Dead \cup Opaque /\ acc.used + Size[rec] <= budget =>
                rec \in ToSet(Recs(acc.kept))
      BY <1>0, <1>1
    <2> HIDE DEF passed
    <2> QED  BY <2>1, <2>2
  <1>2. /\ NoTwice(acc.registry) /\ Named(acc.kept, acc.registry)
        /\ Grows(known, acc.registry) /\ acc.used = Total(Recs(acc.kept))
    BY DEF IsGood
  <1>3. ASSUME NEW e \in Nat, NEW longer \in Seq(Record),
               new = Admitted(acc, rec, e, longer),
               acc.used + Size[rec] <= budget,
               NoTwice(longer), Grows(acc.registry, longer),
               e \in DOMAIN longer, longer[e] = rec
        PROVE  /\ IsGood(new, budget, known)
               /\ ToSet(Recs(new.kept)) = ToSet(Recs(acc.kept)) \cup {rec}
               /\ new.used = acc.used + Size[rec]
               /\ Recs(new.kept) = Append(Recs(acc.kept), rec)
    <2> DEFINE more == Append(acc.kept, [rec |-> rec, eid |-> e])
    <2>1. new = [kept |-> more, used |-> acc.used + Size[rec], registry |-> longer]
      BY <1>3 DEF Admitted
    <2>2. /\ more \in Seq(Numbered) /\ Recs(more) = Append(Recs(acc.kept), rec)
          /\ Recs(acc.kept) \in Seq(Record)
          /\ ToSet(Recs(more)) = ToSet(Recs(acc.kept)) \cup {rec}
      BY <1>0, <1>3, RecsOfMore
    <2>3. Total(Recs(more)) = acc.used + Size[rec]
      BY <2>2, TotalOfMore DEF IsGood
    <2>4. Named(more, longer)
      <3>1. /\ DOMAIN more = 1 .. Len(acc.kept) + 1
            /\ DOMAIN acc.kept = 1 .. Len(acc.kept) /\ Len(acc.kept) \in Nat
            /\ more[Len(acc.kept) + 1] = [rec |-> rec, eid |-> e]
            /\ \A i \in 1 .. Len(acc.kept) : more[i] = acc.kept[i]
        BY <1>0
      <3> HIDE DEF more
      <3>2. \A i \in 1 .. Len(acc.kept) : /\ more[i].eid \in DOMAIN longer
                                          /\ longer[more[i].eid] = more[i].rec
        <4>1. \A i \in 1 .. Len(acc.kept) :
                  /\ acc.kept[i].eid \in DOMAIN acc.registry
                  /\ acc.registry[acc.kept[i].eid] = acc.kept[i].rec
          BY <1>2, <3>1 DEF Named
        <4>2. \A n \in DOMAIN acc.registry : n \in DOMAIN longer /\ longer[n] = acc.registry[n]
          BY <1>3 DEF Grows
        <4> QED  BY <3>1, <4>1, <4>2
      <3>3. /\ more[Len(acc.kept) + 1].eid \in DOMAIN longer
            /\ longer[more[Len(acc.kept) + 1].eid] = more[Len(acc.kept) + 1].rec
        BY <1>3, <3>1
      <3>4. \A i \in DOMAIN more : i \in 1 .. Len(acc.kept) \/ i = Len(acc.kept) + 1
        BY <3>1
      <3> QED  BY <3>2, <3>3, <3>4 DEF Named
    <2>5. Grows(known, longer)
      BY <1>3, <1>2 DEF Grows
    <2> HIDE DEF more
    <2>6. /\ new.kept = more /\ new.used = acc.used + Size[rec] /\ new.registry = longer
          /\ new \in Admissions
      BY <1>0, <1>3, <2>1, <2>2 DEF Admissions
    <2> HIDE DEF new
    <2> QED  BY <1>3, <2>2, <2>3, <2>4, <2>5, <2>6 DEF IsGood
  <1>4. CASE /\ rec \notin Opaque /\ numbers # {} /\ acc.used + Size[rec] <= budget
             /\ new = Admitted(acc, rec, CHOOSE n \in numbers : TRUE, acc.registry)
    <2> DEFINE e == CHOOSE n \in numbers : TRUE
    <2>1. e \in numbers
      BY <1>4
    <2> HIDE DEF e
    <2>2. e \in Nat /\ e \in DOMAIN acc.registry /\ acc.registry[e] = rec
      BY <1>0, <2>1
    <2>3. NoTwice(acc.registry) /\ Grows(acc.registry, acc.registry)
      BY DEF IsGood, Grows
    <2>4. new = Admitted(acc, rec, e, acc.registry)
      BY <1>4 DEF e
    <2>5. /\ IsGood(new, budget, known)
          /\ ToSet(Recs(new.kept)) = ToSet(Recs(acc.kept)) \cup {rec}
          /\ new.used = acc.used + Size[rec]
          /\ Recs(new.kept) = Append(Recs(acc.kept), rec)
      <3> HIDE DEF new, numbers
      <3> QED  BY <1>0, <1>3, <1>4, <2>2, <2>3, <2>4
    <2> QED  BY <1>0, <2>5
  <1>5. CASE /\ (rec \in Opaque \/ numbers = {}) /\ acc.used + Size[rec] <= budget
             /\ new = Admitted(acc, rec, Len(acc.registry) + 1, Append(acc.registry, rec))
    <2> DEFINE e == Len(acc.registry) + 1
               longer == Append(acc.registry, rec)
    <2>1. /\ e \in Nat /\ longer \in Seq(Record) /\ e \in DOMAIN longer /\ longer[e] = rec
          /\ DOMAIN longer = DOMAIN acc.registry \cup {e} /\ e \notin DOMAIN acc.registry
          /\ \A n \in DOMAIN acc.registry : longer[n] = acc.registry[n]
      BY <1>0
    <2> HIDE DEF longer, e
    <2>2. NoTwice(longer) /\ Grows(acc.registry, longer)
      BY <1>5, <2>1 DEF IsGood, NoTwice, Grows
    <2>3. new = Admitted(acc, rec, e, longer)
      BY <1>5 DEF e, longer
    <2>4. /\ IsGood(new, budget, known)
          /\ ToSet(Recs(new.kept)) = ToSet(Recs(acc.kept)) \cup {rec}
          /\ new.used = acc.used + Size[rec]
          /\ Recs(new.kept) = Append(Recs(acc.kept), rec)
      <3> HIDE DEF new, numbers
      <3> QED  BY <1>0, <1>3, <1>5, <2>1, <2>2, <2>3
    <2> QED  BY <1>0, <2>4
  <1>6. ~passed => acc.used + Size[rec] <= budget
    BY <1>0
  <1>7. ~passed =>
           \/ /\ rec \notin Opaque /\ numbers # {}
              /\ new = Admitted(acc, rec, CHOOSE n \in numbers : TRUE, acc.registry)
           \/ /\ rec \in Opaque \/ numbers = {}
              /\ new = Admitted(acc, rec, Len(acc.registry) + 1, Append(acc.registry, rec))
    BY DEF AdmitOne
  <1> HIDE DEF numbers, passed
  <1> QED  BY <1>1, <1>4, <1>5, <1>6, <1>7

-----------------------------------------------------------------------------
(***************************************************************************)
(* A whole list of candidates.                                             *)
(***************************************************************************)
Rounds(items, budget, known) ==
    CHOOSE f : f = [n \in 0 .. Len(items) |->
                       IF n = 0 THEN [kept |-> <<>>, used |-> 0, registry |-> known]
                       ELSE AdmitOne(f[n - 1], items[n], budget)]

LEMMA RoundsDef ==
    ASSUME NEW items \in Seq(Record), NEW budget \in Nat,
           NEW known \in Seq(Record), NoTwice(known)
    PROVE  LET f == Rounds(items, budget, known) IN
           /\ Admission(items, budget, known) = f[Len(items)]
           /\ f[0] = [kept |-> <<>>, used |-> 0, registry |-> known]
           /\ \A n \in 1 .. Len(items) : f[n] = AdmitOne(f[n - 1], items[n], budget)
           /\ \A n \in 0 .. Len(items) : IsGood(f[n], budget, known)
  <1> DEFINE L == Len(items)
             Good == {acc \in Admissions : IsGood(acc, budget, known)}
             start == [kept |-> <<>>, used |-> 0, registry |-> known]
             step == [x \in (1 .. L) \X Good |-> AdmitOne(x[2], items[x[1]], budget)]
             F == Rounds(items, budget, known)
  <1>1. start \in Good
    <2>1. Recs(<<>>) = <<>>
      BY DEF Recs
    <2>2. start \in Admissions
      BY DEF Admissions
    <2>3. start.kept = <<>> /\ start.used = 0 /\ start.registry = known
      OBVIOUS
    <2> HIDE DEF start
    <2> QED  BY <2>1, <2>2, <2>3, TotalOfNone DEF IsGood, Named, Grows
  <1>2. \A n \in 1 .. L : \A acc \in Good : AdmitOne(acc, items[n], budget) \in Good
    <2> SUFFICES ASSUME NEW n \in 1 .. L, NEW acc \in Good
                 PROVE  AdmitOne(acc, items[n], budget) \in Good
      OBVIOUS
    <2>1. items[n] \in Record
      OBVIOUS
    <2>2. IsGood(AdmitOne(acc, items[n], budget), budget, known)
      BY <2>1, AdmitOneGood
    <2> QED  BY <2>2 DEF IsGood
  <1>3. step \in [(1 .. L) \X Good -> Good]
    <2> HIDE DEF Good
    <2> QED  BY <1>2
  <1>4. PICK f : IsLoop(f, Good, start, L, step)
    <2>1. L \in Nat
      OBVIOUS
    <2> HIDE DEF L, step, start, Good
    <2> QED  BY <1>1, <1>3, <2>1, Recursion
  <1> HIDE DEF Good
  <1>5. ASSUME NEW n \in 1 .. L
        PROVE  f[n] = AdmitOne(f[n - 1], items[n], budget)
    <2>1. f[n - 1] \in Good
      BY <1>4 DEF IsLoop
    <2>2. <<n, f[n - 1]>> \in (1 .. L) \X Good
      BY <2>1
    <2>3. f[n] = step[<<n, f[n - 1]>>]
      BY <1>4 DEF IsLoop
    <2> QED  BY <2>2, <2>3
  <1> HIDE DEF step, start
  <1>6. f = [n \in 0 .. L |-> IF n = 0 THEN start
                              ELSE AdmitOne(f[n - 1], items[n], budget)]
    <2>1. f = [n \in 0 .. L |-> f[n]] /\ f[0] = start
      BY <1>4 DEF IsLoop
    <2>2. \A n \in 0 .. L : f[n] = IF n = 0 THEN start
                                   ELSE AdmitOne(f[n - 1], items[n], budget)
      <3>1. \A n \in 0 .. L : n = 0 \/ n \in 1 .. L
        OBVIOUS
      <3> HIDE DEF L
      <3> QED  BY <1>5, <2>1, <3>1
    <2> QED  BY <2>1, <2>2
  <1>7. F = [n \in 0 .. L |-> IF n = 0 THEN start
                              ELSE AdmitOne(F[n - 1], items[n], budget)]
    BY <1>6, Zenon DEF Rounds, start
  <1>8. /\ Admission(items, budget, known) = F[L]
    BY DEF Admission, Rounds
  <1>9. /\ F[0] = start
        /\ \A n \in 1 .. L : F[n] = AdmitOne(F[n - 1], items[n], budget)
    <2> HIDE DEF F
    <2> QED  BY <1>7
  <1>10. \A n \in 0 .. L : F[n] \in Good
    <2> DEFINE S == {k \in Nat : k <= L => F[k] \in Good}
    <2> HIDE DEF F
    <2>1. 0 \in S
      BY <1>1, <1>9
    <2>2. ASSUME NEW k \in S, k + 1 <= L
          PROVE  F[k + 1] \in Good
      <3>1. F[k + 1] = AdmitOne(F[(k + 1) - 1], items[k + 1], budget)
        BY <1>9, <2>2
      <3> QED  BY <1>2, <2>2, <3>1
    <2>3. S = Nat
      <3> HIDE DEF S
      <3>1. S \in SUBSET Nat /\ \A k \in S : k + 1 \in S
        BY <2>2 DEF S
      <3> QED  BY <2>1, <3>1, Induction
    <2> QED  BY <2>3
  <1> QED  BY <1>8, <1>9, <1>10 DEF start, Good


(* What is admitted fits the budget, every E-ID names the record it is      *)
(* shown with, no proven identity has two of them, and those given out      *)
(* before keep their records, for any list, budget and registry             *)
(* (assign_evidence, id_registry).                                          *)
THEOREM AdmissionIsGood ==
    ASSUME NEW items \in Seq(Record), NEW budget \in Nat,
           NEW known \in Seq(Record), NoTwice(known)
    PROVE  IsGood(Admission(items, budget, known), budget, known)
  <1> DEFINE f == Rounds(items, budget, known)
  <1>1. Len(items) \in 0 .. Len(items)
    OBVIOUS
  <1>2. /\ Admission(items, budget, known) = f[Len(items)]
        /\ \A n \in 0 .. Len(items) : IsGood(f[n], budget, known)
    <2>1. Admission(items, budget, known) = f[Len(items)]
      BY DEF Admission, Rounds
    <2>2. ASSUME NEW n \in 0 .. Len(items)
          PROVE  IsGood(f[n], budget, known)
      BY RoundsDef
    <2> QED  BY <2>1, <2>2
  <1> HIDE DEF f
  <1> QED  BY <1>1, <1>2

(* Records that fit together and come first are all admitted, whatever      *)
(* follows them (the navigator's reads before what the packer selected).    *)
THEOREM FirstAreAdmitted ==
    ASSUME NEW items \in Seq(Record), NEW budget \in Nat,
           NEW known \in Seq(Record), NoTwice(known),
           NEW first \in Seq(Record), Len(first) <= Len(items),
           \A i \in 1 .. Len(first) : items[i] = first[i] /\ first[i] \notin Dead \cup Opaque,
           Total(first) <= budget
    PROVE  ToSet(first) \subseteq ToSet(Recs(Admission(items, budget, known).kept))
  <1> DEFINE L == Len(items)
             m == Len(first)
             f == Rounds(items, budget, known)
             Held(k) == ToSet(Recs(f[k].kept))
             S == {k \in Nat : k <= L =>
                      /\ k <= m => f[k].used <= Sums(items)[k]
                      /\ \A i \in 1 .. m : i <= k => first[i] \in Held(k)}
  <1>1. /\ Admission(items, budget, known) = f[L]
        /\ f[0] = [kept |-> <<>>, used |-> 0, registry |-> known]
        /\ \A n \in 1 .. L : f[n] = AdmitOne(f[n - 1], items[n], budget)
        /\ \A n \in 0 .. L : IsGood(f[n], budget, known)
    BY RoundsDef
  <1>2. /\ L \in Nat /\ m \in Nat /\ m <= L
        /\ Sums(items)[0] = 0
        /\ \A n \in 1 .. L : Sums(items)[n] = Sums(items)[n - 1] + Size[items[n]]
        /\ \A n \in 0 .. L : Sums(items)[n] \in Nat
        /\ \A n \in 1 .. L : items[n] \in Record /\ Size[items[n]] \in Nat
    <2>1. L \in Nat /\ m \in Nat /\ m <= L /\ \A n \in 1 .. L : items[n] \in Record
      OBVIOUS
    <2> QED  BY <2>1, SumsDef
  <1>3. \A k \in 0 .. m : Sums(items)[k] <= budget
    <2> SUFFICES ASSUME NEW k \in 0 .. m
                 PROVE  Sums(items)[k] <= budget
      OBVIOUS
    <2>1. Sums(first)[k] <= Sums(first)[m] /\ Total(first) = Sums(first)[m]
      BY SumsGrow, SumsDef
    <2>2. Sums(items)[k] = Sums(first)[k]
      BY <1>2, SumsOfPrefix
    <2>3. Sums(first)[k] \in Nat /\ Sums(first)[m] \in Nat
      BY <1>2, SumsDef
    <2> QED  BY <2>1, <2>2, <2>3
  <1> HIDE DEF f, L, m
  <1>4. 0 \in S
    BY <1>1, <1>2
  <1>5. ASSUME NEW k \in S, k + 1 <= L
        PROVE  k + 1 \in S
    <2>1. /\ k \in 0 .. L /\ k + 1 \in 1 .. L /\ (k + 1) - 1 = k /\ k \in Nat
      BY <1>2, <1>5
    <2>2. /\ f[k + 1] = AdmitOne(f[k], items[k + 1], budget)
          /\ IsGood(f[k], budget, known) /\ items[k + 1] \in Record
          /\ Sums(items)[k + 1] = Sums(items)[k] + Size[items[k + 1]]
          /\ Size[items[k + 1]] \in Nat /\ Sums(items)[k] \in Nat
      BY <1>1, <1>2, <2>1
    <2>3. /\ f[k].used \in Nat
          /\ f[k + 1].used \in Nat
      <3>1. IsGood(f[k], budget, known) /\ IsGood(f[k + 1], budget, known)
        BY <1>1, <1>2, <2>1
      <3> QED  BY <3>1 DEF IsGood, Admissions
    <2>4. /\ Held(k) \subseteq Held(k + 1)
          /\ f[k + 1].used <= f[k].used + Size[items[k + 1]]
          /\ items[k + 1] \notin Dead \cup Opaque /\ f[k].used + Size[items[k + 1]] <= budget
                => items[k + 1] \in Held(k + 1)
      <3> DEFINE acc == f[k]
                 rec == items[k + 1]
                 new == f[k + 1]
      <3>1. /\ new = AdmitOne(acc, rec, budget) /\ IsGood(acc, budget, known)
            /\ rec \in Record
        BY <2>2
      <3> HIDE DEF acc, rec, new
      <3>2. /\ ToSet(Recs(acc.kept)) \subseteq ToSet(Recs(new.kept))
            /\ new.used <= acc.used + Size[rec]
            /\ rec \notin Dead \cup Opaque /\ acc.used + Size[rec] <= budget =>
                  rec \in ToSet(Recs(new.kept))
        BY <3>1, AdmitOneGood
      <3> QED  BY <3>2 DEF acc, rec, new
    <2>5. k + 1 <= m => f[k + 1].used <= Sums(items)[k + 1]
      BY <1>2, <2>1, <2>2, <2>3, <2>4
    <2>6. k + 1 <= m => items[k + 1] \in Held(k + 1) /\ first[k + 1] = items[k + 1]
      <3> SUFFICES ASSUME k + 1 <= m
                   PROVE  items[k + 1] \in Held(k + 1) /\ first[k + 1] = items[k + 1]
        OBVIOUS
      <3>1. k + 1 \in 1 .. m /\ k + 1 \in 0 .. m /\ k <= m
        BY <1>2, <2>1
      <3>2. items[k + 1] \notin Dead \cup Opaque /\ first[k + 1] = items[k + 1]
        BY <3>1 DEF m
      <3>3. f[k].used + Size[items[k + 1]] <= budget
        <4>1. f[k].used <= Sums(items)[k] /\ Sums(items)[k + 1] <= budget
          BY <1>3, <1>5, <2>1, <3>1
        <4> QED  BY <2>2, <2>3, <4>1
      <3> QED  BY <2>4, <3>2, <3>3
    <2>7. \A i \in 1 .. m : i <= k + 1 => first[i] \in Held(k + 1)
      <3> SUFFICES ASSUME NEW i \in 1 .. m, i <= k + 1
                   PROVE  first[i] \in Held(k + 1)
        OBVIOUS
      <3>1. CASE i <= k
        BY <1>5, <2>1, <2>4, <3>1
      <3>2. CASE i = k + 1
        BY <2>6, <3>2
      <3> QED  BY <2>1, <3>1, <3>2
    <2> HIDE DEF Held
    <2> QED  BY <2>1, <2>5, <2>7
  <1>6. S = Nat
    <2>1. ASSUME NEW k \in S
          PROVE  k + 1 \in S
      <3>1. ~(k + 1 <= L) => k + 1 \in S
        OBVIOUS
      <3> HIDE DEF S
      <3> QED  BY <1>5, <3>1
    <2> HIDE DEF S
    <2>2. S \in SUBSET Nat
      BY DEF S
    <2> QED  BY <1>4, <2>1, <2>2, Induction
  <1>7. \A i \in 1 .. m : first[i] \in Held(L)
    <2>1. L \in S /\ L <= L
      <3> HIDE DEF S
      <3> QED  BY <1>2, <1>6
    <2>2. \A i \in 1 .. m : i <= L
      BY <1>2
    <2> QED  BY <2>1, <2>2
  <1> QED  BY <1>1, <1>7 DEF ToSet, m


-----------------------------------------------------------------------------
(***************************************************************************)
(* Once a task is recovered, nothing its hypotheses chose steers a         *)
(* selection.                                                              *)
(***************************************************************************)

\* A recovered task has had its one navigation and holds no reads of it.
Revoked ==
    /\ at \in {"read", "select", "assess"} /\ options.navigate => navigated
    /\ recover => reserved = <<>> /\ (options.navigate => navigated)
    /\ at \in {"select", "assess"} /\ recover => preferred = {}

LEMMA RevokedStep == Revoked /\ [Next]_vars => Revoked'
  <1> SUFFICES ASSUME Revoked, [Next]_vars
               PROVE  Revoked'
    OBVIOUS
  <1> USE DEF Revoked, Goto, nav, search, guide, evidence, review, answer
  <1>1. CASE MakePlan
    BY <1>1 DEF MakePlan
  <1>2. CASE StartRound
    BY <1>2 DEF StartRound
  <1>3. CASE EndRounds
    BY <1>3 DEF EndRounds, Leave
  <1>4. CASE Retrieve
    <2>1. PICK visit \in Navigations : reserved' = visit.reads
      BY <1>4 DEF Retrieve
    <2>2. recover => visit.reads = <<>>
      BY <2>1 DEF Navigations
    <2> QED  BY <1>4, <2>1, <2>2 DEF Retrieve
  <1>5. CASE ReadPool
    <2>1. recover => preferred' = {}
      BY <1>5 DEF ReadPool, Preferred
    <2> QED  BY <1>5, <2>1 DEF ReadPool
  <1>6. CASE Select
    BY <1>6 DEF Select
  <1>7. CASE AssessComplete
    BY <1>7 DEF AssessComplete, Leave
  <1>8. CASE AssessIncomplete
    BY <1>8 DEF AssessIncomplete, Reserved
  <1>9. CASE Refuse \/ ReadContext \/ Draft \/ Repair \/ Publish
    BY <1>9 DEF Refuse, ReadContext, Draft, Repair, Publish
  <1>10. CASE RetrieveFails \/ SelectFails \/ DraftFails
    BY <1>10 DEF RetrieveFails, SelectFails, DraftFails, Fails
  <1>11. CASE UNCHANGED vars
    BY <1>11 DEF vars
  <1> QED
    BY <1>1, <1>2, <1>3, <1>4, <1>5, <1>6, <1>7, <1>8, <1>9, <1>10, <1>11
    DEF Next

(* Nothing drifted hypotheses chose steers a selection once an assessment   *)
(* found that the evidence misses the task (run_corrective).                *)
THEOREM DriftStaysRevoked == Spec => []DriftRevoked
  <1>1. Init => Revoked
    BY DEF Init, Revoked
  <1>2. Revoked => DriftRevoked
    BY DEF Revoked, DriftRevoked
  <1> QED  BY <1>1, <1>2, RevokedStep, PTL DEF Spec

-----------------------------------------------------------------------------
(***************************************************************************)
(* What is published was verified.                                         *)
(***************************************************************************)

\* The drafts of a request, and the evidence they are written from.
Written ==
    /\ at \in {"guide", "draft", "repair", "publish"} => context # <<>>
    /\ at = "refuse" => context = <<>>
    /\ at \in {"repair", "publish"} => drafts \in Seq(Report)
    /\ at = "repair" => Len(drafts) = 1
    /\ at = "publish" => Len(drafts) \in 1 .. 2
    /\ PublishedIsVerified

LEMMA OneMore ==
    ASSUME NEW S, NEW s \in Seq(S), NEW x \in S, Len(s) = 1
    PROVE  /\ Append(s, x) \in Seq(S) /\ Len(Append(s, x)) = 2
    BY SMTT(20)

LEMMA WrittenStep == Written /\ [Next]_vars => Written'
  <1> SUFFICES ASSUME Written, [Next]_vars
               PROVE  Written'
    OBVIOUS
  <1> USE DEF Goto, nav, search, guide, evidence, review, answer
  <1>1. CASE MakePlan \/ StartRound \/ Retrieve \/ ReadPool \/ Select \/ AssessIncomplete
    <2>1. at' \in {"round", "retrieve", "read", "select", "assess"}
      BY <1>1 DEF MakePlan, StartRound, Retrieve, ReadPool, Select, AssessIncomplete
    <2> QED  BY <2>1 DEF Written, PublishedIsVerified
  <1>2. CASE EndRounds \/ AssessComplete
    <2>1. /\ context' = context
          /\ at' = IF context = <<>> THEN "refuse" ELSE "guide"
      BY <1>2 DEF EndRounds, AssessComplete, Leave
    <2> QED  BY <2>1 DEF Written, PublishedIsVerified
  <1>3. CASE Refuse
    <2>1. /\ context' = context /\ at' = "done" /\ context = <<>>
          /\ published'.kind = "refusal"
      BY <1>3 DEF Refuse, Written
    <2> QED  BY <2>1 DEF Written, PublishedIsVerified
  <1>4. CASE ReadContext
    BY <1>4 DEF ReadContext, Written, PublishedIsVerified
  <1>5. CASE Draft
    <2>1. PICK report \in Report :
              /\ drafts' = <<report>> /\ context' = context
              /\ at' \in {"repair", "publish"} /\ at = "draft"
      BY <1>5 DEF Draft
    <2>2. drafts' \in Seq(Report) /\ Len(drafts') = 1 /\ Len(drafts') \in 1 .. 2
      BY <2>1
    <2>3. context # <<>>
      BY <2>1 DEF Written
    <2> HIDE DEF Goto
    <2>4. at' \notin {"refuse", "done"}
      BY <2>1
    <2> QED  BY <2>1, <2>2, <2>3, <2>4 DEF Written, PublishedIsVerified
  <1>6. CASE Repair
    <2>1. /\ at = "repair" /\ at' = "publish" /\ context' = context
          /\ \/ drafts' = drafts
             \/ \E report \in Report : drafts' = Append(drafts, report)
      BY <1>6 DEF Repair
    <2>2. drafts \in Seq(Report) /\ Len(drafts) = 1 /\ context # <<>>
      BY <2>1 DEF Written
    <2>3. CASE drafts' = drafts
      BY <2>1, <2>2, <2>3 DEF Written, PublishedIsVerified
    <2>4. CASE \E report \in Report : drafts' = Append(drafts, report)
      <3>1. PICK report \in Report : drafts' = Append(drafts, report)
        BY <2>4
      <3>2. drafts' \in Seq(Report) /\ Len(drafts') = 2
        BY <2>2, <3>1, OneMore
      <3>3. Len(drafts') \in 1 .. 2
        BY <3>2
      <3> QED  BY <2>1, <2>2, <3>2, <3>3 DEF Written, PublishedIsVerified
    <2> QED  BY <2>1, <2>3, <2>4
  <1>7. CASE Publish
    <2> DEFINE latest == drafts[Len(drafts)]
               primary == drafts[1]
               part == Partial(latest, primary)
    <2>1. /\ at' = "done" /\ context' = context /\ drafts' = drafts /\ context # <<>>
          /\ Len(drafts) \in 1 .. 2 /\ drafts \in Seq(Report)
          /\ published' = IF ~latest.repair
                          THEN [kind |-> "whole", text |-> Len(drafts), under |-> latest]
                          ELSE [kind |-> "partial", text |-> part.text, under |-> part.under]
      BY <1>7 DEF Publish, Last, Written
    <2>2. /\ latest \in Report /\ primary \in Report /\ DOMAIN drafts = 1 .. Len(drafts)
          /\ \A r \in Report : r.claims \in 0 .. 1
      <3>1. Len(drafts) \in 1 .. Len(drafts) /\ 1 \in 1 .. Len(drafts)
            /\ DOMAIN drafts = 1 .. Len(drafts)
        BY <2>1
      <3>2. \A n \in 1 .. Len(drafts) : drafts[n] \in Report
        BY <2>1
      <3>3. \A r \in Report : r.claims \in 0 .. 1
        BY DEF Report
      <3> QED  BY <3>1, <3>2, <3>3
    <2>3. \A n \in DOMAIN drafts : drafts[n] = latest \/ drafts[n] = primary
      BY <2>1, <2>2
    <2>4. \/ latest.claims > 0 /\ part.text = Len(drafts) /\ part.under = latest
          \/ /\ primary.claims > 0 /\ part.text = 1 /\ part.under = primary
          \/ /\ ~(latest.claims > 0) /\ ~(primary.claims > 0) /\ part.text = 0
      BY DEF Partial
    <2> HIDE DEF latest, primary, part
    <2>5. CASE ~latest.repair
      <3>1. /\ published'.kind = "whole" /\ published'.text = Len(drafts)
            /\ published'.under = latest
        BY <2>1, <2>5
      <3> QED  BY <2>1, <2>5, <3>1 DEF Written, PublishedIsVerified, latest
    <2>6. CASE latest.repair
      <3>1. /\ published'.kind = "partial" /\ published'.text = part.text
            /\ published'.under = part.under
        BY <2>1, <2>6
      <3>2. \/ /\ part.text # 0 /\ drafts[part.text] = part.under
               /\ part.under.claims > 0
            \/ part.text = 0 /\ \A n \in DOMAIN drafts : drafts[n].claims = 0
        <4>1. drafts[Len(drafts)] = latest /\ drafts[1] = primary
          BY DEF latest, primary
        <4> QED  BY <2>1, <2>2, <2>3, <2>4, <4>1
      <3> QED  BY <2>1, <3>1, <3>2 DEF Written, PublishedIsVerified
    <2> QED  BY <2>5, <2>6
  <1>8. CASE RetrieveFails \/ SelectFails \/ DraftFails
    BY <1>8 DEF RetrieveFails, SelectFails, DraftFails, Fails, Written, PublishedIsVerified
  <1>9. CASE UNCHANGED vars
    BY <1>9 DEF vars, Written, PublishedIsVerified
  <1> QED
    BY <1>1, <1>2, <1>3, <1>4, <1>5, <1>6, <1>7, <1>8, <1>9 DEF Next

(* What a request answers with is a draft that needs no repair, verified    *)
(* claims of one draft under its own report, or the fixed refusal when      *)
(* there is no evidence (task_publication_candidate).                       *)
THEOREM OnlyVerifiedIsPublished == Spec => []PublishedIsVerified
  <1>1. Init => Written
    BY DEF Init, Written, PublishedIsVerified
  <1>2. Written => PublishedIsVerified
    BY DEF Written
  <1> QED  BY <1>1, <1>2, WrittenStep, PTL DEF Spec

-----------------------------------------------------------------------------
(***************************************************************************)
(* The evidence handed to the writer.                                      *)
(***************************************************************************)
LEMMA SetToSeqIsSeq ==
    ASSUME NEW S, IsFiniteSet(S)
    PROVE  SetToSeq(S) \in Seq(S)
  <1>1. Cardinality(S) \in Nat /\ ExistsBijection(1 .. Cardinality(S), S)
    BY FS_CardinalityType
  <1>2. \E f \in [1 .. Cardinality(S) -> S] : IsInjective(f)
    BY <1>1 DEF ExistsBijection, Bijection, Injection
  <1>3. SetToSeq(S) \in [1 .. Cardinality(S) -> S]
    BY <1>2, Zenon DEF SetToSeq
  <1> QED  BY <1>1, <1>3

LEMMA ToSetIsFinite ==
    ASSUME NEW S, NEW s \in Seq(S)
    PROVE  IsFiniteSet(ToSet(s)) /\ ToSet(s) \subseteq S
  <1>1. IsFiniteSet(1 .. Len(s))
    BY FS_Interval
  <1>2. s \in Surjection(1 .. Len(s), ToSet(s))
    BY DEF Surjection, ToSet
  <1> QED  BY <1>1, <1>2, FS_Surjection DEF ToSet

LEMMA RecsAreRecords ==
    ASSUME NEW s \in Seq(Numbered)
    PROVE  Recs(s) \in Seq(Record)
  <1>1. \A i \in DOMAIN s : s[i] \in Numbered
    OBVIOUS
  <1>2. \A x \in Numbered : x.rec \in Record
    BY DEF Numbered
  <1> QED  BY <1>1, <1>2 DEF Recs

\* Two lists of records one after the other.
LEMMA Joined ==
    ASSUME NEW S, NEW s \in Seq(S), NEW t \in Seq(S)
    PROVE  /\ s \o t \in Seq(S) /\ Len(s) <= Len(s \o t)
           /\ \A i \in 1 .. Len(s) : (s \o t)[i] = s[i]
    OBVIOUS

LEMMA Reversed ==
    ASSUME NEW S, NEW s \in Seq(S)
    PROVE  Reverse(s) \in Seq(S)
  <1>1. \A i \in 1 .. Len(s) : Len(s) - i + 1 \in 1 .. Len(s)
    OBVIOUS
  <1> QED  BY <1>1 DEF Reverse

LEMMA ReadsFit ==
    /\ SetToSeq(Readable) \in Seq(Record)
    /\ \A i \in 1 .. Len(SetToSeq(Readable)) : SetToSeq(Readable)[i] \notin Dead \cup Opaque
    /\ Total(SetToSeq(Readable)) <= MaxContext
  <1>1. SetToSeq(Readable) \in Seq(Readable)
    BY SetToSeqIsSeq, CorrectiveAssumption
  <1> QED  BY <1>1, CorrectiveAssumption

InLoop == at \in {"plan", "round", "retrieve", "read", "select", "assess"}
Shown == ToSet(pool) \cup ToSet(context) \cup ToSet(reading.of)

\* What the numbered evidence is, all through the rounds.
Sound ==
    /\ registry \in Seq(Record) /\ NoTwice(registry)
    /\ pool \in Seq(Numbered) /\ context \in Seq(Numbered)
    /\ InLoop => /\ Named(pool, registry) /\ Named(context, registry)
                 /\ Named(reading.of, registry)
    /\ StableIds
    /\ reserved \in {<<>>, SetToSeq(Readable)}
    /\ Total(Recs(context)) <= MaxContext
    /\ at \notin {"retrieve", "read", "select", "failed"} =>
          ToSet(reserved) \subseteq ToSet(Recs(context))
    /\ at \in {"plan", "round", "guide", "draft", "repair", "publish"} =>
          coverage.of = Key(context, limits)

\* One registry keeps every E-ID stable.
LEMMA NamesAreStable ==
    ASSUME NoTwice(registry), Named(pool, registry), Named(context, registry),
           Named(reading.of, registry)
    PROVE  StableIds
  <1>1. \A n \in Shown : n.eid \in DOMAIN registry /\ registry[n.eid] = n.rec
    BY DEF Named, Shown, ToSet
  <1> QED  BY <1>1 DEF StableIds, NoTwice, Shown

LEMMA StableFrame ==
    ASSUME StableIds, Shown' \subseteq Shown
    PROVE  StableIds'
    BY DEF StableIds, Shown

LEMMA NamedGrows ==
    ASSUME NEW items, NEW old, NEW new, Named(items, old), Grows(old, new)
    PROVE  Named(items, new)
    BY DEF Named, Grows

\* A step that leaves the numbered evidence and the coverage alone.
LEMMA SoundFrame ==
    ASSUME Sound, UNCHANGED <<registry, pool, reading, context, limits, coverage>>,
           reserved' \in {reserved, <<>>}, InLoop' => InLoop,
           at' \notin {"retrieve", "read", "select", "failed"} =>
              at \notin {"retrieve", "read", "select", "failed"},
           at' \in {"plan", "round", "guide", "draft", "repair", "publish"} =>
              at \in {"plan", "round", "guide", "draft", "repair", "publish"}
    PROVE  Sound'
  <1>1. StableIds'
    BY StableFrame DEF Sound, Shown
  <1>2. ToSet(<<>>) = {}
    BY DEF ToSet
  <1> QED  BY <1>1, <1>2 DEF Sound, Named, Key

LEMMA SoundInit == Init => Sound
  <1> SUFFICES ASSUME Init
               PROVE  Sound
    OBVIOUS
  <1>1. /\ registry = <<>> /\ pool = <<>> /\ context = <<>> /\ reading.of = <<>>
        /\ reserved = <<>> /\ limits = FALSE /\ coverage.of = Key(<<>>, FALSE)
    BY DEF Init, NoReading, NoCoverage
  <1>2. Recs(<<>>) = <<>> /\ ToSet(<<>>) = {} /\ Total(<<>>) = 0
    BY TotalOfNone DEF Recs, ToSet
  <1>3. NoTwice(registry) /\ Named(<<>>, registry)
    BY <1>1 DEF NoTwice, Named
  <1>4. StableIds
    BY <1>1, <1>3, NamesAreStable
  <1>5. <<>> \in Seq(Record) /\ <<>> \in Seq(Numbered) /\ 0 <= MaxContext
    BY CorrectiveAssumption
  <1> QED  BY <1>1, <1>2, <1>3, <1>4, <1>5 DEF Sound


\* Retrieval, navigation and admission to the pool.
LEMMA RetrieveSound == Sound /\ Retrieve => Sound'
  <1> SUFFICES ASSUME Sound, Retrieve
               PROVE  Sound'
    OBVIOUS
  <1> USE DEF Goto, nav, search, guide, evidence, review, answer
  <1>1. PICK found \in Results, visit \in Navigations :
           \E items \in {visit.reads \o found \o Recs(pool)} :
           \E ordered \in {items, Reverse(items)} :
           \E r \in {Admission(ordered, 2 * MaxContext, registry)} :
               pool' = r.kept /\ registry' = r.registry /\ reserved' = visit.reads
    BY DEF Retrieve
  <1> DEFINE items == visit.reads \o found \o Recs(pool)
  <1>2. PICK ordered \in {items, Reverse(items)} :
            /\ pool' = Admission(ordered, 2 * MaxContext, registry).kept
            /\ registry' = Admission(ordered, 2 * MaxContext, registry).registry
            /\ reserved' = visit.reads
    BY <1>1
  <1>3. visit.reads \in {<<>>, SetToSeq(Readable)}
    BY <1>1 DEF Navigations, Sound
  <1>4. visit.reads \in Seq(Record)
    <2>1. <<>> \in Seq(Record) /\ SetToSeq(Readable) \in Seq(Record)
      BY ReadsFit
    <2> QED  BY <1>3, <2>1
  <1>5. ordered \in Seq(Record)
    <2>1. found \in Seq(Record) /\ Recs(pool) \in Seq(Record)
      BY CorrectiveAssumption, RecsAreRecords DEF Sound
    <2>2. items \in Seq(Record)
      BY <1>4, <2>1, Joined
    <2> HIDE DEF items
    <2> QED  BY <1>2, <2>2, Reversed
  <1>6. IsGood(Admission(ordered, 2 * MaxContext, registry), 2 * MaxContext, registry)
    <2>1. 2 * MaxContext \in Nat
      BY CorrectiveAssumption
    <2> QED  BY <1>5, <2>1, AdmissionIsGood DEF Sound
  <1>7. /\ pool' \in Seq(Numbered) /\ registry' \in Seq(Record) /\ NoTwice(registry')
        /\ Named(pool', registry') /\ Grows(registry, registry')
    BY <1>2, <1>6 DEF IsGood, Admissions
  <1>8. /\ context' = context /\ reading' = reading /\ InLoop
        /\ at' = "read" /\ limits' = limits /\ coverage' = coverage
    BY DEF Retrieve, InLoop
  <1>9. Named(context, registry') /\ Named(reading.of, registry')
    BY <1>7, <1>8, NamedGrows DEF Sound
  <1>10. StableIds'
    <2>1. /\ NoTwice(registry)' /\ Named(pool, registry)' /\ Named(context, registry)'
          /\ Named(reading.of, registry)'
      BY <1>7, <1>8, <1>9 DEF NoTwice, Named
    <2>2. \A n \in Shown' : n.eid \in DOMAIN registry' /\ registry'[n.eid] = n.rec
      BY <2>1 DEF Named, Shown, ToSet
    <2> QED  BY <2>1, <2>2 DEF StableIds, NoTwice, Shown
  <1> QED  BY <1>2, <1>3, <1>7, <1>8, <1>9, <1>10 DEF Sound, NoTwice, Named

\* What is packed, with the reserved reads before it.
LEMMA SelectSound == Sound /\ Select => Sound'
  <1> SUFFICES ASSUME Sound, Select
               PROVE  Sound'
    OBVIOUS
  <1> USE DEF Goto, nav, search, guide, evidence, review, answer
  <1>1. PICK chosen \in SUBSET ToSet(Recs(pool)) :
            /\ context' = ReservedFirst(SetToSeq(chosen)).kept
            /\ registry' = ReservedFirst(SetToSeq(chosen)).registry
    BY DEF Select
  <1> DEFINE items == reserved \o SetToSeq(chosen)
             r == Admission(items, MaxContext, registry)
  <1>2. SetToSeq(chosen) \in Seq(Record)
    <2>1. /\ IsFiniteSet(ToSet(Recs(pool))) /\ ToSet(Recs(pool)) \subseteq Record
      BY RecsAreRecords, ToSetIsFinite DEF Sound
    <2>2. IsFiniteSet(chosen) /\ chosen \subseteq Record
      BY <2>1, FS_Subset
    <2>3. SetToSeq(chosen) \in Seq(chosen)
      BY <2>2, SetToSeqIsSeq
    <2> QED  BY <2>2, <2>3
  <1>3. /\ reserved \in Seq(Record)
        /\ \A i \in 1 .. Len(reserved) : reserved[i] \notin Dead \cup Opaque
        /\ Total(reserved) <= MaxContext
    <2>1. CASE reserved = <<>>
      BY <2>1, TotalOfNone, CorrectiveAssumption
    <2>2. CASE reserved = SetToSeq(Readable)
      BY <2>2, ReadsFit
    <2> QED  BY <2>1, <2>2 DEF Sound
  <1>4. /\ items \in Seq(Record) /\ Len(reserved) <= Len(items)
        /\ \A i \in 1 .. Len(reserved) : items[i] = reserved[i]
    BY <1>2, <1>3, Joined
  <1>5. MaxContext \in Nat /\ registry \in Seq(Record) /\ NoTwice(registry)
    BY CorrectiveAssumption DEF Sound
  <1> HIDE DEF items
  <1>6. IsGood(r, MaxContext, registry)
    BY <1>4, <1>5, AdmissionIsGood
  <1>7. ToSet(reserved) \subseteq ToSet(Recs(r.kept))
    BY <1>3, <1>4, <1>5, FirstAreAdmitted
  <1>8. context' = r.kept /\ registry' = r.registry
    BY <1>1 DEF ReservedFirst, items
  <1> HIDE DEF r
  <1>9. /\ context' \in Seq(Numbered) /\ registry' \in Seq(Record) /\ NoTwice(registry')
        /\ Named(context', registry') /\ Grows(registry, registry')
        /\ Total(Recs(context')) <= MaxContext
    BY <1>6, <1>8 DEF IsGood, Admissions
  <1>10. /\ pool' = pool /\ reading' = reading /\ InLoop /\ reserved' = reserved
         /\ at' = "assess"
    BY DEF Select, InLoop
  <1>11. Named(pool, registry') /\ Named(reading.of, registry')
    BY <1>9, <1>10, NamedGrows DEF Sound
  <1>12. StableIds'
    <2>1. /\ NoTwice(registry)' /\ Named(pool, registry)' /\ Named(context, registry)'
          /\ Named(reading.of, registry)'
      BY <1>9, <1>10, <1>11 DEF NoTwice, Named
    <2>2. \A n \in Shown' : n.eid \in DOMAIN registry' /\ registry'[n.eid] = n.rec
      BY <2>1 DEF Named, Shown, ToSet
    <2> QED  BY <2>1, <2>2 DEF StableIds, NoTwice, Shown
  <1>13. ToSet(reserved)' \subseteq ToSet(Recs(context))'
    BY <1>7, <1>8, <1>10 DEF ToSet, Recs
  <1>14. Total(Recs(context))' <= MaxContext
    BY <1>9 DEF Total, Recs
  <1> QED  BY <1>9, <1>10, <1>11, <1>12, <1>13, <1>14 DEF Sound, NoTwice, Named

\* The rounds end: the evidence and its assessment go to the writer.
LEMMA LeaveSound ==
    ASSUME Sound, Leave, at \in {"round", "assess"}, coverage'.of = Key(context, limits)
    PROVE  Sound'
  <1> USE DEF Goto
  <1>1. /\ registry' = <<>> /\ pool' = <<>> /\ reserved' = <<>> /\ reading'.of = <<>>
        /\ context' = context /\ limits' = limits /\ at' \in {"refuse", "guide"}
    BY DEF Leave, NoReading
  <1>2. Recs(<<>>) = <<>> /\ ToSet(<<>>) = {}
    BY DEF Recs, ToSet
  <1>3. StableIds'
    <2>1. Shown' \subseteq Shown
      BY <1>1, <1>2 DEF Shown, ToSet
    <2> QED  BY <2>1, StableFrame DEF Sound
  <1>4. NoTwice(registry)' /\ <<>> \in Seq(Record) /\ <<>> \in Seq(Numbered)
    BY <1>1 DEF NoTwice
  <1> QED  BY <1>1, <1>2, <1>3, <1>4 DEF Sound, InLoop, Key

\* The assessment in force is of this very evidence.
LEMMA JudgeIsOfContext ==
    ASSUME Judge
    PROVE  coverage'.of = Key(context, limits)
  <1>1. CASE Reusable(assessments) # {}
    <2> DEFINE c == CHOOSE x \in Reusable(assessments) : TRUE
    <2>1. c \in Reusable(assessments)
      BY <1>1
    <2>2. coverage' = c
      BY <1>1 DEF Judge
    <2> HIDE DEF c
    <2> QED  BY <2>1, <2>2 DEF Reusable
  <1>2. CASE Reusable(assessments) = {}
    <2>1. PICK c \in Judgements : coverage' = [c EXCEPT !.of = Key(context, limits)]
      BY <1>2 DEF Judge
    <2> DEFINE form(k, a, s, d, m) ==
                   [of |-> k, assessed |-> a, complete |-> d, status |-> s, more |-> m]
    <2>2. PICK a, s, d, m : c = form(Key(<<>>, FALSE), a, s, d, m)
      <3>1. NoCoverage = form(Key(<<>>, FALSE), NoCoverage.assessed, NoCoverage.status,
                              NoCoverage.complete, NoCoverage.more)
        BY DEF NoCoverage
      <3> HIDE DEF form
      <3>2. CASE c = NoCoverage
        BY <3>1, <3>2
      <3>3. CASE c = [NoCoverage EXCEPT !.assessed = TRUE, !.status = "mismatch"]
        BY <3>3 DEF NoCoverage, form
      <3>4. CASE c \in [of : {NoCoverage.of}, assessed : {TRUE}, complete : BOOLEAN,
                         status : {"matched"},
                         more : {<<>>} \cup {<<f>> : f \in Followups}]
        BY <3>4 DEF NoCoverage, form
      <3> QED  BY <2>1, <3>2, <3>3, <3>4 DEF Judgements
    <2>3. [form(Key(<<>>, FALSE), a, s, d, m) EXCEPT !.of = Key(context, limits)].of
            = Key(context, limits)
      OBVIOUS
    <2> HIDE DEF form
    <2> QED  BY <2>1, <2>2, <2>3
  <1> QED  BY <1>1, <1>2

LEMMA SoundStep == Sound /\ [Next]_vars => Sound'
  <1> SUFFICES ASSUME Sound, [Next]_vars
               PROVE  Sound'
    OBVIOUS
  <1> USE DEF Goto, nav, search, guide, evidence, review, answer
  <1>1. CASE MakePlan
    BY <1>1, SoundFrame DEF MakePlan, InLoop
  <1>2. CASE StartRound
    BY <1>2, SoundFrame DEF StartRound, InLoop
  <1>3. CASE EndRounds
    <2>1. Leave /\ at = "round" /\ coverage' = coverage
      BY <1>3 DEF EndRounds
    <2> QED  BY <2>1, LeaveSound DEF Sound
  <1>4. CASE Retrieve
    BY <1>4, RetrieveSound
  <1>5. CASE ReadPool
    <2>1. /\ UNCHANGED <<registry, pool, context, limits, coverage, reserved>>
          /\ at = "read" /\ at' = "select"
          /\ reading' = reading \/ reading'.of = pool
      BY <1>5 DEF ReadPool
    <2>2. Named(reading'.of, registry)
      BY <2>1 DEF Sound, InLoop
    <2>3. StableIds'
      <3>1. Shown' \subseteq Shown
        BY <2>1 DEF Shown
      <3> QED  BY <3>1, StableFrame DEF Sound
    <2> QED  BY <2>1, <2>2, <2>3 DEF Sound, InLoop, Named
  <1>6. CASE Select
    BY <1>6, SelectSound
  <1>7. CASE AssessComplete
    BY <1>7, LeaveSound, JudgeIsOfContext DEF AssessComplete
  <1>8. CASE AssessIncomplete
    <2>1. /\ UNCHANGED <<registry, pool, reading, context, limits>>
          /\ at = "assess" /\ at' = "round" /\ coverage'.of = Key(context, limits)
          /\ reserved' \in {reserved, <<>>}
      BY <1>8, JudgeIsOfContext DEF AssessIncomplete, Reserved
    <2>2. StableIds'
      BY <2>1, StableFrame DEF Sound, Shown
    <2>3. ToSet(<<>>) = {}
      BY DEF ToSet
    <2> QED  BY <2>1, <2>2, <2>3 DEF Sound, InLoop, Named, Key
  <1>9. CASE Refuse \/ ReadContext \/ Draft \/ Repair \/ Publish
    <2>1. /\ UNCHANGED <<registry, pool, reading, context, limits, coverage, reserved>>
          /\ at \in {"refuse", "guide", "draft", "repair", "publish"}
          /\ at' \in {"draft", "repair", "publish", "done"}
          /\ at' # "done" => at # "refuse"
      BY <1>9 DEF Refuse, ReadContext, Draft, Repair, Publish
    <2> QED  BY <2>1, SoundFrame DEF InLoop
  <1>10. CASE RetrieveFails \/ SelectFails \/ DraftFails
    <2>1. /\ UNCHANGED <<registry, pool, reading, context, limits, coverage, reserved>>
          /\ at' = "failed"
      BY <1>10 DEF RetrieveFails, SelectFails, DraftFails, Fails
    <2> QED  BY <2>1, SoundFrame DEF InLoop
  <1>11. CASE UNCHANGED vars
    <2>1. UNCHANGED <<registry, pool, reading, context, limits, coverage, reserved, at>>
      BY <1>11 DEF vars
    <2> QED  BY <2>1, SoundFrame DEF InLoop
  <1> QED
    BY <1>1, <1>2, <1>3, <1>4, <1>5, <1>6, <1>7, <1>8, <1>9, <1>10, <1>11
    DEF Next

(* What the rounds hand to the writer: E-IDs that never change their        *)
(* record, an assessment of this very evidence, evidence within the budget  *)
(* that holds what the navigator read (assign_evidence, run_corrective).    *)
THEOREM EvidenceStaysSound == Spec => []EvidenceIsSound
  <1>1. Sound => EvidenceIsSound
    BY DEF Sound, EvidenceIsSound, CoverageOfContext, ReadsAreKept
  <1> QED  BY <1>1, SoundInit, SoundStep, PTL DEF Spec

-----------------------------------------------------------------------------
(***************************************************************************)
(* The structure of an answer: neighbours, sections, units and chains of   *)
(* headings.                                                               *)
(***************************************************************************)
LEMMA LeastExists ==
    ASSUME NEW S \in SUBSET Nat, S # {}
    PROVE  Min(S) \in S /\ \A x \in S : Min(S) <= x
  <1>1. PICK m \in S : \A y \in S : ~(<<y, m>> \in OpToRel(<, Nat))
    BY NatLessThanWellFounded, WFMin, Zenon
  <1>2. \A y \in S : ~(y < m)
    BY <1>1 DEF OpToRel
  <1>3. \E x \in S : \A y \in S : x <= y
    BY <1>2
  <1>4. Min(S) = CHOOSE x \in S : \A y \in S : x <= y
    BY DEF Min
  <1> QED  BY <1>3, <1>4

LEMMA GreatestExists ==
    ASSUME NEW S \in SUBSET Nat, S # {}, NEW n \in Nat, \A x \in S : x <= n
    PROVE  Max(S) \in S /\ \A x \in S : x <= Max(S)
  <1> DEFINE T == {n - x : x \in S}
  <1>1. T \in SUBSET Nat /\ T # {}
    <2>1. \A x \in S : n - x \in Nat
      OBVIOUS
    <2>2. PICK x : x \in S
      OBVIOUS
    <2>3. n - x \in T
      BY <2>2
    <2> QED  BY <2>1, <2>3
  <1>2. Min(T) \in T /\ \A y \in T : Min(T) <= y
    <2> HIDE DEF T
    <2> QED  BY <1>1, LeastExists
  <1>3. PICK x \in S : Min(T) = n - x
    BY <1>2
  <1>4. \A y \in S : n - x <= n - y
    BY <1>2, <1>3
  <1>5. \E z \in S : \A y \in S : z >= y
    BY <1>4
  <1>6. Max(S) = CHOOSE z \in S : \A y \in S : z >= y
    BY DEF Max
  <1>7. Max(S) \in S /\ \A y \in S : Max(S) >= y
    BY <1>5, <1>6
  <1> QED  BY <1>7

LEMMA LastBeforeIs ==
    ASSUME NEW S \in SUBSET (Nat \ {0}), NEW i \in Nat
    PROVE  /\ LastBefore(S, i) \in Nat
           /\ LastBefore(S, i) \in S \cup {0}
           /\ \A j \in S : j < i => j <= LastBefore(S, i)
           /\ LastBefore(S, i) < i \/ LastBefore(S, i) = 0
  <1> DEFINE B == {j \in S : j < i}
  <1>1. LastBefore(S, i) = IF B = {} THEN 0 ELSE Max(B)
    BY DEF LastBefore
  <1>2. CASE B = {}
    BY <1>1, <1>2
  <1>3. CASE B # {}
    <2>1. B \in SUBSET Nat /\ \A x \in B : x <= i
      <3>1. \A x \in S : x \in Nat /\ (x < i => x <= i)
        OBVIOUS
      <3> QED  BY <3>1
    <2>2. Max(B) \in B /\ \A x \in B : x <= Max(B)
      <3> HIDE DEF B
      <3> QED  BY <1>3, <2>1, GreatestExists
    <2>3. LastBefore(S, i) = Max(B)
      BY <1>1, <1>3
    <2> QED  BY <2>2, <2>3
  <1> QED  BY <1>2, <1>3

LEMMA FirstFromIs ==
    ASSUME NEW S \in SUBSET Nat, NEW i \in Nat, NEW none \in Nat
    PROVE  /\ FirstFrom(S, i, none) \in Nat
           /\ \/ FirstFrom(S, i, none) \in S /\ FirstFrom(S, i, none) >= i
              \/ FirstFrom(S, i, none) = none /\ \A j \in S : j < i
           /\ \A j \in S : j >= i => j >= FirstFrom(S, i, none)
  <1> DEFINE A == {j \in S : j >= i}
  <1>1. FirstFrom(S, i, none) = IF A = {} THEN none ELSE Min(A)
    BY DEF FirstFrom
  <1>2. CASE A = {}
    BY <1>1, <1>2
  <1>3. CASE A # {}
    <2>1. Min(A) \in A /\ \A x \in A : Min(A) <= x
      <3>1. A \in SUBSET Nat
        OBVIOUS
      <3> HIDE DEF A
      <3> QED  BY <1>3, <3>1, LeastExists
    <2>2. FirstFrom(S, i, none) = Min(A)
      BY <1>1, <1>3
    <2> QED  BY <2>1, <2>2
  <1> QED  BY <1>2, <1>3

\* What an answer is.
LEMMA AnswerIs ==
    ASSUME NEW a \in Answer
    PROVE  /\ a \in Seq(Block) /\ Len(a) \in Nat /\ DOMAIN a = 1 .. Len(a)
           /\ \A i \in 1 .. Len(a) :
                /\ a[i].kind \in {"head", "text", "foot"}
                /\ a[i].joined \in BOOLEAN
                /\ a[i].cites \subseteq Source \cup {Unknown}
                /\ a[i].joined => a[i].kind = "text" /\ i > 1 /\ a[i - 1].kind = "text"
                /\ a[i].kind = "foot" => a[i].eq = NoEquation
           /\ Heads(a) \subseteq 1 .. Len(a) /\ Texts(a) \subseteq 1 .. Len(a)
           /\ Claims(a) \subseteq Texts(a) \cup Heads(a)
  <1>1. a \in Seq(Block) /\ WellFormed(a)
    BY DEF Answer
  <1>2. \A i \in 1 .. Len(a) : a[i] \in Block
    BY <1>1
  <1>3. Claims(a) \subseteq Texts(a) \cup Heads(a)
    BY DEF Claims, Orphans
  <1> QED  BY <1>1, <1>2, <1>3 DEF WellFormed, Block, Heads, Texts

LEMMA UnitIs ==
    ASSUME NEW a \in Answer, NEW i \in 1 .. Len(a)
    PROVE  /\ UnitStart(a, i) \in 1 .. i /\ UnitEnd(a, i) \in i .. Len(a)
           /\ UnitStart(a, i) = 1 \/ ~a[UnitStart(a, i)].joined
           /\ \A j \in UnitStart(a, i) + 1 .. UnitEnd(a, i) : a[j].joined
           /\ UnitEnd(a, i) = Len(a) \/ ~a[UnitEnd(a, i) + 1].joined
  <1> DEFINE P == {j \in 1 .. i : j = 1 \/ ~a[j].joined}
             Q == {j \in 1 .. Len(a) : ~a[j].joined}
             s == UnitStart(a, i)
             f == FirstFrom(Q, i + 1, Len(a) + 1)
  <1>1. s = Max(P) /\ UnitEnd(a, i) = f - 1
    BY AnswerIs DEF UnitStart, UnitEnd
  <1>2. s \in P /\ \A x \in P : x <= s
    <2>1. P \in SUBSET Nat /\ 1 \in P /\ \A x \in P : x <= i
      <3>1. \A x \in 1 .. i : x \in Nat /\ x <= i
        OBVIOUS
      <3> QED  BY <3>1
    <2>2. s = Max(P) /\ i \in Nat
      BY <1>1
    <2> HIDE DEF P, s
    <2>3. Max(P) \in P /\ \A x \in P : x <= Max(P)
      BY <2>1, <2>2, GreatestExists
    <2> QED  BY <2>2, <2>3
  <1>3. /\ f \in Nat
        /\ (f \in Q /\ f >= i + 1) \/ (f = Len(a) + 1 /\ \A j \in Q : j < i + 1)
        /\ \A j \in Q : j >= i + 1 => j >= f
    <2>1. Q \in SUBSET Nat /\ i + 1 \in Nat /\ Len(a) + 1 \in Nat
      BY AnswerIs
    <2> HIDE DEF Q
    <2> QED  BY <2>1, FirstFromIs
  <1>4. s \in 1 .. i /\ f - 1 \in i .. Len(a)
    BY <1>2, <1>3, AnswerIs
  <1>5. \A j \in s + 1 .. f - 1 : a[j].joined
    <2> SUFFICES ASSUME NEW j \in s + 1 .. f - 1, ~a[j].joined
                 PROVE  FALSE
      BY AnswerIs, <1>4
    <2>1. CASE j <= i
      BY <1>2, <1>4, <2>1
    <2>2. CASE j > i
      BY <1>3, <1>4, <2>2
    <2> QED  BY <2>1, <2>2, <1>4
  <1>6. f - 1 = Len(a) \/ ~a[(f - 1) + 1].joined
    BY <1>3
  <1> QED  BY <1>1, <1>2, <1>4, <1>5, <1>6

\* The units cut an answer into stretches.
LEMMA UnitsPart ==
    ASSUME NEW a \in Answer, NEW i \in 1 .. Len(a), NEW j \in Unit(a, i)
    PROVE  j \in 1 .. Len(a) /\ Unit(a, j) = Unit(a, i)
  <1> DEFINE s == UnitStart(a, i)
             e == UnitEnd(a, i)
             t == UnitStart(a, j)
             f == UnitEnd(a, j)
  <1>1. /\ s \in 1 .. i /\ e \in i .. Len(a) /\ (s = 1 \/ ~a[s].joined)
        /\ (\A k \in s + 1 .. e : a[k].joined) /\ (e = Len(a) \/ ~a[e + 1].joined)
    BY UnitIs
  <1>2. j \in s .. e /\ j \in 1 .. Len(a)
    BY <1>1 DEF Unit
  <1>3. /\ t \in 1 .. j /\ f \in j .. Len(a) /\ (t = 1 \/ ~a[t].joined)
        /\ (\A k \in t + 1 .. f : a[k].joined) /\ (f = Len(a) \/ ~a[f + 1].joined)
    BY <1>2, UnitIs
  <1> HIDE DEF s, e, t, f
  <1>4. \A k \in 1 .. Len(a) : a[k].joined \in BOOLEAN
    BY AnswerIs
  <1>5. s = t
    BY <1>1, <1>2, <1>3, <1>4
  <1>6. e = f
    <2>1. ~(f < e)
      <3> SUFFICES ASSUME f < e PROVE FALSE
        OBVIOUS
      <3>1. f + 1 \in s + 1 .. e
        BY <1>1, <1>2, <1>3
      <3> QED  BY <3>1, <1>1, <1>2, <1>3
    <2>2. ~(e < f)
      <3> SUFFICES ASSUME e < f PROVE FALSE
        OBVIOUS
      <3>1. e + 1 \in t + 1 .. f
        BY <1>1, <1>2, <1>3
      <3> QED  BY <3>1, <1>1, <1>2, <1>3
    <2> QED  BY <2>1, <2>2, <1>1, <1>3
  <1> QED  BY <1>2, <1>5, <1>6 DEF Unit, s, e, t, f

LEMMA UnitKinds ==
    ASSUME NEW a \in Answer, NEW i \in 1 .. Len(a)
    PROVE  /\ i \in Unit(a, i) /\ Unit(a, i) \subseteq 1 .. Len(a)
           /\ a[i].kind = "text" => Unit(a, i) \subseteq Texts(a)
           /\ a[i].kind # "text" => Unit(a, i) = {i}
  <1> DEFINE s == UnitStart(a, i)
             e == UnitEnd(a, i)
  <1>1. /\ s \in 1 .. i /\ e \in i .. Len(a)
        /\ \A k \in s + 1 .. e : a[k].joined
    BY UnitIs
  <1>2. Unit(a, i) = s .. e
    BY DEF Unit
  <1> HIDE DEF s, e
  <1>3. \A k \in s + 1 .. e : k \in 1 .. Len(a) /\ a[k].kind = "text" /\ a[k - 1].kind = "text"
    <2> SUFFICES ASSUME NEW k \in s + 1 .. e
                 PROVE  k \in 1 .. Len(a) /\ a[k].kind = "text" /\ a[k - 1].kind = "text"
      OBVIOUS
    <2>1. k \in 1 .. Len(a) /\ a[k].joined
      BY <1>1, AnswerIs
    <2> QED  BY <2>1, AnswerIs
  <1>4. ASSUME s # e
        PROVE  \A k \in s .. e : a[k].kind = "text"
    <2>1. s + 1 \in s + 1 .. e
      BY <1>1, <1>4
    <2>2. a[s].kind = "text"
      <3>1. a[(s + 1) - 1].kind = "text"
        BY <1>3, <2>1
      <3> QED  BY <3>1, <1>1
    <2> QED  BY <1>1, <1>3, <2>2
  <1>5. CASE s = e
    <2>1. Unit(a, i) = {i}
      BY <1>1, <1>2, <1>5
    <2> QED  BY <2>1, <1>1, AnswerIs DEF Texts
  <1>6. CASE s # e
    <2>1. \A k \in s .. e : a[k].kind = "text" /\ k \in 1 .. Len(a)
      BY <1>1, <1>4, <1>6
    <2> QED  BY <1>1, <1>2, <2>1, AnswerIs DEF Texts
  <1> QED  BY <1>5, <1>6

LEMMA ParentIs ==
    ASSUME NEW a \in Answer, NEW i \in 1 .. Len(a)
    PROVE  Parent(a, i) \in 0 .. i - 1 /\ Parent(a, i) \in Heads(a) \cup {0}
  <1> DEFINE L == {j \in Heads(a) : a[j].level < a[i].level}
  <1>1. L \in SUBSET (Nat \ {0}) /\ L \subseteq Heads(a) /\ i \in Nat
    <2>1. Heads(a) \subseteq 1 .. Len(a)
      BY AnswerIs
    <2> QED  BY <2>1
  <1>2. Parent(a, i) = IF i - 1 \in Heads(a) THEN i - 1 ELSE LastBefore(L, i)
    BY DEF Parent
  <1> HIDE DEF L
  <1>3. /\ LastBefore(L, i) \in Nat /\ LastBefore(L, i) \in L \cup {0}
        /\ LastBefore(L, i) < i \/ LastBefore(L, i) = 0
    BY <1>1, LastBeforeIs
  <1> QED  BY <1>1, <1>2, <1>3

\* The chains of all blocks up to one.
Ups(a, h) == CHOOSE f : f = [i \in 0 .. h |-> IF i = 0 THEN {}
                                             ELSE {i} \cup f[Parent(a, i)]]

LEMMA UpsDef ==
    ASSUME NEW a \in Answer, NEW h \in 0 .. Len(a)
    PROVE  /\ Chain(a, h) = Ups(a, h)[h]
           /\ Ups(a, h) = [i \in 0 .. h |-> IF i = 0 THEN {}
                                            ELSE {i} \cup Ups(a, h)[Parent(a, i)]]
  <1> DEFINE Is(f, n) == f = [i \in 0 .. n |-> IF i = 0 THEN {}
                                               ELSE {i} \cup f[Parent(a, i)]]
             S == {n \in Nat : n <= h => \E f : Is(f, n)}
  <1>1. \A i \in 1 .. h : Parent(a, i) \in 0 .. i - 1
    BY ParentIs
  <1>2. 0 \in S
    <2> DEFINE f == [i \in 0 .. 0 |-> {}]
    <2>1. \A i \in 0 .. 0 : i = 0
      OBVIOUS
    <2>2. [i \in 0 .. 0 |-> IF i = 0 THEN {} ELSE {i} \cup f[Parent(a, i)]] = f
      BY <2>1
    <2>3. Is(f, 0)
      <3> HIDE DEF f
      <3> QED  BY <2>2
    <2> QED  BY <2>3
  <1>3. ASSUME NEW n \in S, n + 1 <= h
        PROVE  \E f : Is(f, n + 1)
    <2>1. PICK f : Is(f, n)
      BY <1>3
    <2> DEFINE g == [i \in 0 .. n + 1 |-> IF i <= n THEN f[i]
                                          ELSE {i} \cup f[Parent(a, i)]]
    <2>2. n \in Nat /\ n + 1 \in 1 .. h
      BY <1>3
    <2>3. \A i \in 0 .. n : g[i] = f[i]
      BY <2>2
    <2>4. g[n + 1] = {n + 1} \cup f[Parent(a, n + 1)]
      BY <2>2
    <2>5. DOMAIN g = 0 .. n + 1 /\ g = [i \in 0 .. n + 1 |-> g[i]]
      OBVIOUS
    <2> HIDE DEF g
    <2>6. f[0] = {} /\ \A i \in 1 .. n : f[i] = {i} \cup f[Parent(a, i)]
      <3>1. /\ f = [i \in 0 .. n |-> IF i = 0 THEN {} ELSE {i} \cup f[Parent(a, i)]]
        BY <2>1
      <3>2. 0 \in 0 .. n /\ \A i \in 1 .. n : i \in 0 .. n /\ i # 0
        BY <2>2
      <3> HIDE DEF Is
      <3> QED  BY <3>1, <3>2
    <2>7. \A i \in 0 .. n + 1 : g[i] = IF i = 0 THEN {} ELSE {i} \cup g[Parent(a, i)]
      <3> SUFFICES ASSUME NEW i \in 0 .. n + 1
                   PROVE  g[i] = IF i = 0 THEN {} ELSE {i} \cup g[Parent(a, i)]
        OBVIOUS
      <3> HIDE DEF Is
      <3>1. CASE i = 0
        BY <2>2, <2>3, <2>6, <3>1
      <3>2. CASE i \in 1 .. n
        <4>1. Parent(a, i) \in 0 .. n /\ i \in 0 .. n /\ i # 0
          BY <1>1, <2>2, <3>2
        <4>2. f[i] = {i} \cup f[Parent(a, i)]
          BY <2>6, <3>2
        <4>3. g[i] = f[i] /\ g[Parent(a, i)] = f[Parent(a, i)]
          BY <2>3, <4>1
        <4> QED  BY <4>1, <4>2, <4>3
      <3>3. CASE i = n + 1
        <4>1. Parent(a, n + 1) \in 0 .. n /\ i # 0
          BY <1>1, <2>2, <3>3
        <4>2. g[Parent(a, i)] = f[Parent(a, i)]
          BY <2>3, <3>3, <4>1
        <4> QED  BY <2>4, <3>3, <4>1, <4>2
      <3> QED  BY <2>2, <3>1, <3>2, <3>3
    <2>8. Is(g, n + 1)
      BY <2>5, <2>7
    <2> QED  BY <2>8
  <1>4. S = Nat
    <2>1. S \in SUBSET Nat
      OBVIOUS
    <2>2. \A k \in S : k + 1 \in S
      <3> HIDE DEF Is
      <3> QED  BY <1>3
    <2> HIDE DEF S
    <2> QED  BY <1>2, <2>1, <2>2, Induction
  <1>5. \E f : Is(f, h)
    <2>1. h \in S /\ h <= h
      <3> HIDE DEF S
      <3> QED  BY <1>4
    <2> HIDE DEF Is
    <2> QED  BY <2>1
  <1>6. Is(Ups(a, h), h)
    BY <1>5, Zenon DEF Ups
  <1>7. Chain(a, h) = Ups(a, h)[h]
    BY DEF Chain, Ups
  <1> QED  BY <1>6, <1>7

LEMMA ChainIs ==
    ASSUME NEW a \in Answer, NEW h \in Heads(a) \cup {0}
    PROVE  /\ Chain(a, h) \subseteq Heads(a)
           /\ h = 0 => Chain(a, h) = {}
           /\ h # 0 => h \in Chain(a, h)
  <1> DEFINE u == Ups(a, h)
             S == {n \in Nat : \A i \in 0 .. h : i <= n /\ i \in Heads(a) \cup {0}
                                  => u[i] \subseteq Heads(a)}
  <1>1. h \in 0 .. Len(a) /\ Heads(a) \subseteq 1 .. Len(a)
    BY AnswerIs
  <1>2. /\ Chain(a, h) = u[h]
        /\ \A i \in 0 .. h : u[i] = IF i = 0 THEN {} ELSE {i} \cup u[Parent(a, i)]
    <2>1. /\ Chain(a, h) = u[h]
          /\ u = [i \in 0 .. h |-> IF i = 0 THEN {} ELSE {i} \cup u[Parent(a, i)]]
      BY <1>1, UpsDef
    <2> HIDE DEF u
    <2> QED  BY <2>1
  <1> HIDE DEF u
  <1>3. \A i \in 1 .. h : Parent(a, i) \in 0 .. i - 1 /\ Parent(a, i) \in Heads(a) \cup {0}
    BY <1>1, ParentIs
  <1>4. 0 \in S
    <2>0. 0 \in 0 .. h
      BY <1>1
    <2>1. u[0] = {}
      BY <1>2, <2>0
    <2>2. \A i \in 0 .. h : i <= 0 => i = 0
      BY <1>1
    <2> QED  BY <2>1, <2>2
  <1>5. ASSUME NEW n \in S
        PROVE  n + 1 \in S
    <2> SUFFICES ASSUME NEW i \in 0 .. h, i = n + 1, i \in Heads(a)
                 PROVE  u[i] \subseteq Heads(a)
      <3>1. \A i \in 0 .. h : i <= n + 1 => i <= n \/ i = n + 1
        BY <1>1
      <3> QED  BY <3>1
    <2>1. /\ i \in 1 .. h /\ Parent(a, i) \in 0 .. h /\ Parent(a, i) <= n
      BY <1>1, <1>3
    <2>2. u[Parent(a, i)] \subseteq Heads(a)
      BY <1>3, <2>1
    <2> QED  BY <1>2, <2>1, <2>2
  <1>6. S = Nat
    <2>1. S \in SUBSET Nat
      OBVIOUS
    <2> HIDE DEF S
    <2> QED  BY <1>4, <1>5, <2>1, Induction
  <1>7. u[h] \subseteq Heads(a)
    <2>1. h \in S /\ h \in 0 .. h /\ h <= h
      BY <1>1, <1>6
    <2> QED  BY <2>1
  <1>8. u[h] = IF h = 0 THEN {} ELSE {h} \cup u[Parent(a, h)]
    <2>1. h \in 0 .. h
      BY <1>1
    <2> QED  BY <1>2, <2>1
  <1> HIDE DEF S
  <1> QED  BY <1>2, <1>7, <1>8

\* The headings above a claim, and above a text.
LEMMA ContextsAre ==
    ASSUME NEW a \in Answer, NEW c \in Texts(a) \cup Heads(a)
    PROVE  /\ Contexts(a, c) \subseteq Heads(a)
           /\ c \in Texts(a) => /\ Contexts(a, c) = Chain(a, Owner(a, c))
                                /\ Owner(a, c) \in Heads(a) \cup {0}
  <1>1. /\ Heads(a) \subseteq 1 .. Len(a) /\ c \in 1 .. Len(a) /\ Len(a) \in Nat
        /\ Heads(a) \in SUBSET (Nat \ {0})
    BY AnswerIs
  <1>2. Owner(a, c) \in Heads(a) \cup {0}
    BY <1>1, LastBeforeIs DEF Owner
  <1>3. Parent(a, c) \in Heads(a) \cup {0}
    BY <1>1, ParentIs
  <1>4. c \in Texts(a) => a[c].kind = "text"
    BY DEF Texts
  <1> QED  BY <1>2, <1>3, <1>4, ChainIs DEF Contexts

LEMMA SectionIs ==
    ASSUME NEW a \in Answer, NEW c \in 1 .. Len(a)
    PROVE  /\ c \in Section(a, c) /\ Section(a, c) \subseteq 0 .. Len(a)
           /\ \A i, j \in Section(a, c) : i .. j \subseteq Section(a, c)
           /\ a[c].kind = "text" => UnitEnd(a, c) \in Section(a, c)
  <1> DEFINE s == LastBefore(Heads(a), c + 1)
             f == FirstFrom(Heads(a), c + 1, Len(a) + 1)
             e == UnitEnd(a, c)
  <1>1. /\ Heads(a) \in SUBSET (Nat \ {0}) /\ Heads(a) \in SUBSET Nat
        /\ c + 1 \in Nat /\ Len(a) + 1 \in Nat /\ Heads(a) \subseteq 1 .. Len(a)
    BY AnswerIs
  <1>2. Section(a, c) = s .. f - 1
    BY DEF Section
  <1>3. s \in Nat /\ (s < c + 1 \/ s = 0)
    BY <1>1, LastBeforeIs
  <1>4. f \in Nat /\ ((f \in Heads(a) /\ f >= c + 1) \/ (f = Len(a) + 1))
    BY <1>1, FirstFromIs
  <1>5. e \in c .. Len(a)
    BY UnitIs
  <1>6. a[c].kind = "text" => c .. e \subseteq Texts(a)
    <2>1. c .. e \subseteq Unit(a, c)
      BY UnitIs DEF Unit
    <2> QED  BY <2>1, UnitKinds
  <1>7. Heads(a) \cap Texts(a) = {}
    BY DEF Heads, Texts
  <1> HIDE DEF s, f, e
  <1>8. a[c].kind = "text" => ~(f <= e)
    BY <1>1, <1>4, <1>5, <1>6, <1>7
  <1> QED  BY <1>1, <1>2, <1>3, <1>4, <1>5, <1>8 DEF e

-----------------------------------------------------------------------------
(***************************************************************************)
(* What is published of a verified answer.                                 *)
(***************************************************************************)
LEMMA ResolvedIs ==
    ASSUME NEW cites
    PROVE  Cardinality({Document[s] : s \in Resolved(cites)}) <= 1
  <1>1. CASE Resolved(cites) = {}
    <2>1. {Document[s] : s \in Resolved(cites)} = {}
      BY <1>1
    <2> QED  BY <2>1, FS_EmptySet
  <1>2. CASE Resolved(cites) # {}
    BY <1>2 DEF Resolved
  <1> QED  BY <1>1, <1>2

\* What a claim without a citation is attributed to.
LEMMA BoundIsDeclared ==
    ASSUME NEW a \in Answer, NEW c \in Claims(a) \ Citing(a)
    PROVE  /\ Cardinality({Document[s] : s \in Bound(a, c)}) <= 1
           /\ \A s \in Bound(a, c) :
                  \E j \in Section(a, c) \cap Citing(a) :
                      /\ j > c
                      /\ \A i \in (c .. j) \cap Citing(a) : s \in Resolved(a[i].cites)
  <1> DEFINE cited == Citing(a) \cap Section(a, c)
             footer == LastBefore(cited, Len(a) + 1)
             last == UnitEnd(a, c)
  <1>1. /\ c \in 1 .. Len(a) /\ Len(a) \in Nat /\ Citing(a) \subseteq 1 .. Len(a)
    BY AnswerIs DEF Citing
  <1>2. /\ c \in Section(a, c) /\ Section(a, c) \subseteq 0 .. Len(a)
        /\ \A i, j \in Section(a, c) : i .. j \subseteq Section(a, c)
        /\ a[c].kind = "text" => last \in Section(a, c)
    BY <1>1, SectionIs
  <1>3. footer \in cited \cup {0}
    <2>1. cited \in SUBSET (Nat \ {0}) /\ Len(a) + 1 \in Nat
      BY <1>1
    <2> HIDE DEF cited
    <2> QED  BY <2>1, LastBeforeIs
  <1>4. last \in c .. Len(a) /\ c .. last \subseteq Unit(a, c)
    BY <1>1, UnitIs DEF Unit
  <1>5. Bound(a, c) = FooterScope(a, c) \cup LineScope(a, c)
    BY DEF Bound
  <1>6. FooterScope(a, c) # {} =>
            /\ FooterScope(a, c) = Resolved(a[footer].cites)
            /\ footer > c
            /\ \A i \in cited : Resolved(a[i].cites) = Resolved(a[footer].cites)
    BY DEF FooterScope
  <1>7. LineScope(a, c) # {} =>
            /\ LineScope(a, c) = Resolved(a[last].cites)
            /\ a[c].kind = "text" /\ c # last /\ Citing(a) \cap Unit(a, c) = {last}
    BY DEF LineScope
  <1> HIDE DEF footer, last
  <1>8. \/ Bound(a, c) = {}
        \/ \E i : Bound(a, c) = Resolved(a[i].cites)
    <2>1. CASE FooterScope(a, c) = {}
      BY <1>5, <1>7, <2>1
    <2>2. CASE LineScope(a, c) = {}
      BY <1>5, <1>6, <2>2
    <2>3. CASE FooterScope(a, c) # {} /\ LineScope(a, c) # {}
      <3>1. last \in cited
        BY <1>2, <1>7, <2>3
      <3> QED  BY <1>5, <1>6, <1>7, <2>3, <3>1
    <2> QED  BY <2>1, <2>2, <2>3
  <1>9. Cardinality({Document[s] : s \in Bound(a, c)}) <= 1
    <2>1. CASE Bound(a, c) = {}
      <3>1. {Document[s] : s \in Bound(a, c)} = {}
        BY <2>1
      <3> QED  BY <3>1, FS_EmptySet
    <2>2. CASE \E i : Bound(a, c) = Resolved(a[i].cites)
      BY <2>2, ResolvedIs
    <2> QED  BY <1>8, <2>1, <2>2
  <1>10. ASSUME NEW s \in FooterScope(a, c)
         PROVE  /\ footer \in Section(a, c) \cap Citing(a) /\ footer > c
                /\ \A i \in (c .. footer) \cap Citing(a) : s \in Resolved(a[i].cites)
    <2>1. footer \in cited /\ footer > c
      BY <1>1, <1>3, <1>6, <1>10
    <2>2. c .. footer \subseteq Section(a, c)
      BY <1>2, <2>1
    <2> QED  BY <1>6, <1>10, <2>1, <2>2
  <1>11. ASSUME NEW s \in LineScope(a, c)
         PROVE  /\ last \in Section(a, c) \cap Citing(a) /\ last > c
                /\ \A i \in (c .. last) \cap Citing(a) : s \in Resolved(a[i].cites)
    BY <1>1, <1>2, <1>4, <1>7, <1>11
  <1> QED  BY <1>5, <1>9, <1>10, <1>11

\* What a review is.
LEMMA ReviewIs ==
    ASSUME NEW a \in Answer, NEW r \in Reviews(a)
    PROVE  /\ r.task \in BOOLEAN
           /\ \A c \in Claims(a) : /\ r.rows[c] \subseteq Row
                                   /\ IsFiniteSet(r.rows[c])
  <1>1. PICK rows \in [Claims(a) -> Rows], d \in Demands :
            r = [rows |-> rows, task |-> d.task, own |-> d.own, topics |-> d.topics]
    BY DEF Reviews
  <1>2. d.task \in BOOLEAN
    BY AlgorithmsAssumption
  <1>3. r.task = d.task /\ r.rows = rows
    BY <1>1
  <1>4. \A c \in Claims(a) : rows[c] \in Rows
    BY <1>1
  <1> QED  BY <1>2, <1>3, <1>4, AlgorithmsAssumption

\* A row that counts as support says so, from what its paragraph cites.
LEMMA SupportIs ==
    ASSUME NEW a \in Answer, NEW c \in Claims(a), NEW row \in Row, NEW task \in BOOLEAN,
           ClaimStatus(a, c, row, task) = "judge_supported"
    PROVE  /\ row.support = "supported" /\ row.passages # {}
           /\ row.passages \subseteq Cited(a, Unit(a, c))
  <1>1. c \in 1 .. Len(a)
    BY AnswerIs
  <1>2. RowValid(a, c, row, task)
    BY DEF ClaimStatus
  <1>3. row.support \in {"supported", "unsupported", "contradicted", "uncertain"}
    BY DEF Row
  <1>4. row.support = "supported"
    BY <1>2, <1>3 DEF ClaimStatus
  <1>5. row.passages # {} /\ row.passages \subseteq SpanCitations(a, c)
    BY <1>2, <1>4 DEF RowValid
  <1>6. UnitStart(a, c) \in 1 .. c /\ UnitEnd(a, c) \in c .. Len(a)
    BY <1>1, UnitIs
  <1>7. /\ c .. UnitEnd(a, c) \subseteq Unit(a, c)
        /\ UnitStart(a, c) .. c - 1 \subseteq Unit(a, c)
    BY <1>1, <1>6 DEF Unit
  <1>8. SpanCitations(a, c) \subseteq Cited(a, Unit(a, c))
    BY <1>7 DEF SpanCitations, Cited
  <1> QED  BY <1>4, <1>5, <1>8

LEMMA FitIs ==
    ASSUME NEW a, NEW c, NEW r, IsFiniteSet(r.rows[c]), Fit(a, c, r) = "matched"
    PROVE  \E row : r.rows[c] = {row} /\ row.fit = "matched"
  <1>1. Cardinality(r.rows[c]) = 1
    BY DEF Fit
  <1>2. PICK row : r.rows[c] = {row}
    BY <1>1, FS_Singleton
  <1>3. (CHOOSE x \in r.rows[c] : TRUE) = row
    BY <1>2
  <1>4. row.fit = "matched"
    BY <1>1, <1>3 DEF Fit
  <1> QED  BY <1>2, <1>4

LEMMA StatusIs ==
    ASSUME NEW a, NEW i
    PROVE  FormulaStatus(a, i) \in {"source_matched", "calculated", "unassessed"}
                                   \cup BadFormula
  BY DEF FormulaStatus, StatusBy, BadFormula

\* An answer to a task that needs no repair.
LEMMA CleanIs ==
    ASSUME NEW a \in Answer, NEW r \in Reviews(a), r.task, ~NeedsRepair(a, r)
    PROVE  LET proven == {c \in Claims(a) : \E row \in r.rows[c] :
                             /\ row.support = "supported" /\ row.fit = "matched"
                             /\ row.passages # {}
                             /\ row.passages \subseteq Cited(a, Unit(a, c))}
           IN /\ Texts(a) \cup Heads(a) \subseteq
                     proven \cup UNION {Contexts(a, c) : c \in proven}
              /\ \A i \in Equations(a) : FormulaStatus(a, i) \in
                                             {"source_matched", "calculated"}
  <1> DEFINE proven == {c \in Claims(a) : \E row \in r.rows[c] :
                             /\ row.support = "supported" /\ row.fit = "matched"
                             /\ row.passages # {}
                             /\ row.passages \subseteq Cited(a, Unit(a, c))}
  <1>1. /\ Disputed(a, r) = {} /\ Complete(a, r)
        /\ \A c \in Claims(a) : Fit(a, c, r) = "matched"
    BY DEF NeedsRepair
  <1>2. Assessed(a, r) \subseteq proven
    <2> SUFFICES ASSUME NEW c \in Assessed(a, r)
                 PROVE  c \in proven
      OBVIOUS
    <2>1. c \in Claims(a) /\ r.rows[c] \subseteq Row /\ IsFiniteSet(r.rows[c])
      BY ReviewIs DEF Assessed
    <2>2. Statuses(a, c, r) \cap {"unsupported", "contradicted"} = {}
      BY <1>1, <2>1 DEF Disputed
    <2>3. "judge_supported" \in Statuses(a, c, r)
      BY <2>2 DEF Assessed
    <2>4. PICK row \in r.rows[c] : ClaimStatus(a, c, row, r.task) = "judge_supported"
      BY <2>3 DEF Statuses
    <2>5. /\ row.support = "supported" /\ row.passages # {}
          /\ row.passages \subseteq Cited(a, Unit(a, c))
      BY <2>1, <2>4, SupportIs
    <2>6. row.fit = "matched"
      BY <1>1, <2>1, FitIs
    <2> QED  BY <2>1, <2>5, <2>6
  <1>3. Texts(a) \cup Heads(a) \subseteq
            Assessed(a, r) \cup UNION {Contexts(a, c) : c \in Assessed(a, r)}
    BY <1>1 DEF Complete
  <1>4. ASSUME NEW i \in Equations(a)
        PROVE  FormulaStatus(a, i) \in {"source_matched", "calculated"}
    <2>1. FormulaStatus(a, i) \notin BadFormula
      BY <1>1 DEF Disputed
    <2>2. FormulaStatus(a, i) # "unassessed"
      BY <1>1 DEF Complete, Unproven
    <2> QED  BY <2>1, <2>2, StatusIs
  <1> HIDE DEF proven
  <1>5. Texts(a) \cup Heads(a) \subseteq
            proven \cup UNION {Contexts(a, c) : c \in proven}
    BY <1>2, <1>3
  <1> QED  BY <1>4, <1>5 DEF proven

\* What is published belongs to a claim that qualified, as it is or above it.
LEMMA PublishedIs ==
    ASSUME NEW a \in Answer, NEW r
    PROVE  LET out == Published(a, r) IN
           /\ \A i \in out : \E c \in Claims(a) \cap out :
                  /\ Qualified(a, r, c) /\ i \in {c} \cup Contexts(a, c)
                  /\ Contexts(a, c) \subseteq out
           /\ \A i \in out : i \in 1 .. Len(a) /\ (i \in Heads(a) \/ Unit(a, i) \subseteq out)
  <1> DEFINE out == Published(a, r)
  <1>1. ASSUME NEW unit \in Kept(a, r), NEW i \in unit
        PROVE  /\ i \in Claims(a) /\ Qualified(a, r, i) /\ i \in 1 .. Len(a)
               /\ Unit(a, i) = unit
    <2>1. /\ unit \in Units(a) /\ ClaimsOf(a, unit) # {} /\ FullyClaimed(a, unit)
          /\ \A c \in ClaimsOf(a, unit) : Qualified(a, r, c)
      BY DEF Kept
    <2>2. PICK k \in 1 .. Len(a) : unit = Unit(a, k)
      BY <2>1, AnswerIs DEF Units
    <2>3. i \in 1 .. Len(a) /\ Unit(a, i) = unit
      BY <1>1, <2>2, UnitsPart
    <2>4. i \in Claims(a)
      <3>1. CASE a[i].kind = "text"
        <4>1. i \in Texts(a)
          BY <2>3, <3>1, AnswerIs DEF Texts
        <4> QED  BY <1>1, <2>1, <4>1 DEF FullyClaimed
      <3>2. CASE a[i].kind # "text"
        <4>1. unit = {i}
          BY <2>3, <3>2, UnitKinds
        <4> QED  BY <2>1, <4>1 DEF ClaimsOf
      <3> QED  BY <3>1, <3>2
    <2>5. i \in ClaimsOf(a, unit)
      BY <1>1, <2>4 DEF ClaimsOf
    <2> QED  BY <2>1, <2>3, <2>4, <2>5
  <1>2. ASSUME NEW unit \in Kept(a, r)
        PROVE  /\ unit \subseteq out
               /\ \A c \in ClaimsOf(a, unit) : Contexts(a, c) \subseteq out
    BY DEF Published
  <1>3. ASSUME NEW i \in out
        PROVE  /\ \E c \in Claims(a) \cap out :
                      /\ Qualified(a, r, c) /\ i \in {c} \cup Contexts(a, c)
                      /\ Contexts(a, c) \subseteq out
               /\ i \in 1 .. Len(a) /\ (i \in Heads(a) \/ Unit(a, i) \subseteq out)
    <2>1. PICK unit \in Kept(a, r) :
              i \in unit \cup UNION {Contexts(a, c) : c \in ClaimsOf(a, unit)}
      BY DEF Published
    <2>2. PICK c \in unit : i \in {c} \cup Contexts(a, c) /\ c \in ClaimsOf(a, unit)
      <3>1. CASE i \in unit
        BY <1>1, <3>1 DEF ClaimsOf
      <3>2. CASE i \notin unit
        BY <2>1, <3>2 DEF ClaimsOf
      <3> QED  BY <3>1, <3>2
    <2>3. /\ c \in Claims(a) \cap out /\ Qualified(a, r, c) /\ c \in 1 .. Len(a)
          /\ Unit(a, c) \subseteq out /\ Contexts(a, c) \subseteq out
      BY <1>1, <1>2, <2>2
    <2>4. Contexts(a, c) \subseteq Heads(a)
      BY <2>3, AnswerIs, ContextsAre
    <2> HIDE DEF out
    <2> QED  BY <2>2, <2>3, <2>4, AnswerIs
  <1> QED  BY <1>3

\* What is published of an answer to a task.
LEMMA TaskIsProven ==
    ASSUME NEW a \in Answer, NEW r \in Reviews(a)
    PROVE  /\ PublishedIsProven(a, r, Published(a, r))
           /\ UnitsAreWhole(a, Published(a, r))
  <1> DEFINE out == Published(a, r)
             bad == Disputed(a, r) \cup Unproven(a)
  <1>1. \A i \in out : \E c \in Claims(a) \cap out :
            /\ Qualified(a, r, c) /\ i \in {c} \cup Contexts(a, c)
            /\ Contexts(a, c) \subseteq out
    BY PublishedIs
  <1>2. \A i \in out : i \in 1 .. Len(a) /\ (i \in Heads(a) \/ Unit(a, i) \subseteq out)
    BY PublishedIs
  <1>3. \A c : Qualified(a, r, c) =>
            /\ ({c} \cup Contexts(a, c)) \cap bad = {}
            /\ Unknown \notin Cited(a, {c} \cup Contexts(a, c))
            /\ \E row \in r.rows[c] : ClaimStatus(a, c, row, r.task) = "judge_supported"
    BY DEF Qualified
  <1> HIDE DEF out, bad
  <1>4. out \cap bad = {}
    BY <1>1, <1>3
  <1>5. Unknown \notin Cited(a, out)
    <2> SUFFICES ASSUME NEW i \in out, Unknown \in a[i].cites
                 PROVE  FALSE
      BY DEF Cited
    <2>1. PICK c \in Claims(a) : Qualified(a, r, c) /\ i \in {c} \cup Contexts(a, c)
      BY <1>1
    <2> QED  BY <1>3, <2>1 DEF Cited
  <1>6. ASSUME NEW t \in out \cap Texts(a)
        PROVE  Chain(a, Owner(a, t)) \subseteq out
    <2>1. PICK c \in Claims(a) : t \in {c} \cup Contexts(a, c) /\ Contexts(a, c) \subseteq out
      BY <1>1
    <2>2. t \notin Contexts(a, c)
      <3>1. Contexts(a, c) \subseteq Heads(a)
        BY AnswerIs, ContextsAre
      <3> QED  BY <3>1 DEF Heads, Texts
    <2> QED  BY <2>1, <2>2, ContextsAre
  <1>7. ASSUME NEW c \in out \cap Claims(a)
        PROVE  \/ \E row \in r.rows[c] : row.support = "supported"
               \/ \E t \in out \cap Claims(a) : c \in Contexts(a, t)
    <2>1. PICK d \in Claims(a) \cap out : Qualified(a, r, d) /\ c \in {d} \cup Contexts(a, d)
      BY <1>1
    <2>2. CASE c = d
      <3>1. PICK row \in r.rows[c] : ClaimStatus(a, c, row, r.task) = "judge_supported"
        BY <1>3, <2>1, <2>2
      <3>2. row \in Row /\ r.task \in BOOLEAN
        BY ReviewIs
      <3> QED  BY <3>1, <3>2, SupportIs
    <2> QED  BY <2>1, <2>2
  <1>8. PublishedIsProven(a, r, out)
    BY <1>4, <1>5, <1>6, <1>7 DEF PublishedIsProven, bad
  <1>9. ASSUME NEW unit \in Units(a), unit \cap out # {}
        PROVE  unit \cap out = unit
    <2>1. PICK k \in 1 .. Len(a) : unit = Unit(a, k)
      BY AnswerIs DEF Units
    <2>2. PICK i \in unit : i \in out
      BY <1>9
    <2>3. i \in 1 .. Len(a) /\ Unit(a, i) = unit
      BY <2>1, UnitsPart
    <2>4. CASE i \in Heads(a)
      <3>1. unit = {i}
        BY <2>3, <2>4, UnitKinds DEF Heads
      <3> QED  BY <2>2, <3>1
    <2> QED  BY <1>2, <2>2, <2>3, <2>4
  <1> QED  BY <1>8, <1>9 DEF UnitsAreWhole, out

\* What survives of an answer without a task.
LEMMA RestIsExact ==
    ASSUME NEW a \in Answer, NEW r
    PROVE  SafePartialIsExact(a, Actionable(a, r), Survivors(a, r))
  <1> DEFINE bad == Actionable(a, r)
             out == Survivors(a, r)
             rejected == Rejected(a, r)
             listed == Listed(a)
             bodies == DOMAIN a \ (listed \cup rejected)
             kept == bodies \cup ((UNION {Chain(a, LastBefore(listed, b)) : b \in bodies})
                                     \ rejected)
  <1>1. \A i \in out : i \in kept
    BY DEF Survivors, Standing, Tidied, WithHeadings
  <1>2. \A i \in kept : a[i].kind # "foot" => i \in out
    BY DEF Survivors, Standing, Tidied, WithHeadings
  <1>3. listed \subseteq Heads(a)
    <2>1. \A c \in Claims(a) : Contexts(a, c) \subseteq Heads(a)
      BY AnswerIs, ContextsAre
    <2> QED  BY <2>1 DEF Listed
  <1>4. DOMAIN a = 1 .. Len(a) /\ Heads(a) \subseteq 1 .. Len(a) /\ Texts(a) \subseteq 1 .. Len(a)
    BY AnswerIs
  <1>5. ASSUME NEW i \in 1 .. Len(a)
        PROVE  i \in rejected <=> Unit(a, i) \cap bad # {}
    <2>1. i \in Unit(a, i) /\ Unit(a, i) \in Units(a)
      BY <1>4, UnitKinds DEF Units
    <2>2. ASSUME NEW unit \in Units(a), i \in unit
          PROVE  unit = Unit(a, i)
      <3>1. PICK k \in 1 .. Len(a) : unit = Unit(a, k)
        BY <1>4 DEF Units
      <3> QED  BY <2>2, <3>1, UnitsPart
    <2> QED  BY <2>1, <2>2 DEF Rejected
  <1>6. ASSUME NEW unit \in Units(a), unit \cap bad # {}
        PROVE  unit \cap out = {}
    <2>1. unit \subseteq rejected
      BY <1>6 DEF Rejected
    <2>2. kept \cap rejected = {}
      OBVIOUS
    <2> HIDE DEF kept, out
    <2> QED  BY <1>1, <2>1, <2>2
  <1>7. ASSUME NEW unit \in Units(a), unit \cap bad = {}, unit \subseteq Texts(a),
               NEW i \in unit
        PROVE  i \in bodies /\ i \in out
    <2>1. PICK k \in 1 .. Len(a) : unit = Unit(a, k)
      BY <1>4 DEF Units
    <2>2. i \in 1 .. Len(a) /\ Unit(a, i) = unit
      BY <1>7, <2>1, UnitsPart
    <2>3. a[i].kind = "text" /\ i \notin listed
      BY <1>3, <1>7 DEF Heads, Texts
    <2>4. i \notin rejected
      <3> HIDE DEF bad, rejected
      <3> QED  BY <1>5, <1>7, <2>2
    <2>5. i \in bodies
      BY <1>4, <2>2, <2>3, <2>4
    <2>6. i \in kept
      BY <2>5
    <2> HIDE DEF out, kept
    <2> QED  BY <1>2, <2>3, <2>5, <2>6
  <1>8. ASSUME NEW t \in Claims(a) \cap Texts(a), t \in bodies
        PROVE  Contexts(a, t) \subseteq out \cup bad
    <2> DEFINE o == Owner(a, t)
    <2>1. o \in Heads(a) \cup {0} /\ Contexts(a, t) = Chain(a, o)
      BY ContextsAre
    <2>2. o # 0 => LastBefore(listed, t) = o
      <3> SUFFICES ASSUME o # 0
                   PROVE  LastBefore(listed, t) = o
        OBVIOUS
      <3>1. o \in listed
        <4>1. o \in Chain(a, o)
          BY <2>1, ChainIs
        <4> HIDE DEF o
        <4> QED  BY <2>1, <4>1 DEF Listed
      <3>2. /\ listed \in SUBSET (Nat \ {0}) /\ Heads(a) \in SUBSET (Nat \ {0}) /\ t \in Nat
        BY <1>3, <1>4
      <3>3. /\ \A j \in Heads(a) : j < t => j <= o
            /\ o < t /\ o \in Nat
        BY <3>2, LastBeforeIs DEF Owner
      <3> HIDE DEF o, listed
      <3>4. /\ LastBefore(listed, t) \in listed \cup {0} /\ LastBefore(listed, t) \in Nat
            /\ \A j \in listed : j < t => j <= LastBefore(listed, t)
            /\ LastBefore(listed, t) < t \/ LastBefore(listed, t) = 0
        BY <3>2, LastBeforeIs
      <3>5. o <= LastBefore(listed, t) /\ o > 0
        BY <3>1, <3>3, <3>4
      <3>6. LastBefore(listed, t) \in Heads(a) /\ LastBefore(listed, t) < t
        BY <1>3, <3>3, <3>4, <3>5
      <3> QED  BY <3>3, <3>4, <3>5, <3>6
    <2>3. Chain(a, o) \subseteq kept \cup rejected
      <3>1. CASE o = 0
        BY <2>1, <3>1, ChainIs
      <3>2. CASE o # 0
        <4>1. Chain(a, o) \subseteq UNION {Chain(a, LastBefore(listed, b)) : b \in bodies}
          <5> HIDE DEF bodies, listed, o
          <5> QED  BY <1>8, <2>2, <3>2
        <4> QED  BY <4>1
      <3> QED  BY <3>1, <3>2
    <2>4. ASSUME NEW h \in Chain(a, o)
          PROVE  h \in out \cup bad
      <3>1. h \in Heads(a) /\ h \in 1 .. Len(a) /\ a[h].kind = "head"
        BY <1>4, <2>1, ChainIs DEF Heads
      <3>2. CASE h \in rejected
        <4>1. Unit(a, h) = {h}
          BY <3>1, UnitKinds
        <4> HIDE DEF rejected, bad
        <4> QED  BY <1>5, <3>1, <3>2, <4>1
      <3>3. CASE h \in kept
        <4> HIDE DEF kept, out
        <4> QED  BY <1>2, <3>1, <3>3
      <3> HIDE DEF kept, rejected, out, bad
      <3> QED  BY <2>3, <3>2, <3>3
    <2> HIDE DEF out, bad, o
    <2> QED  BY <2>1, <2>4
  <1>9. \A unit \in Units(a) :
            IF unit \cap bad # {} THEN unit \cap out = {}
            ELSE unit \subseteq Texts(a) =>
                     /\ unit \subseteq out
                     /\ \A t \in unit \cap Claims(a) : Contexts(a, t) \subseteq out \cup bad
    <2> HIDE DEF out, bad, bodies
    <2> QED  BY <1>6, <1>7, <1>8
  <1> QED  BY <1>9 DEF SafePartialIsExact

-----------------------------------------------------------------------------
(***************************************************************************)
(* What the ordinary guard accepts.                                        *)
(***************************************************************************)
RankIn(S, c) == Cardinality({d \in S : d <= c})
FirstOf(S, n) == {c \in S : RankIn(S, c) <= n}

LEMMA RankGrows ==
    ASSUME NEW S \in SUBSET Nat, IsFiniteSet(S), NEW b \in S, NEW c \in S
    PROVE  /\ RankIn(S, b) \in Nat /\ RankIn(S, b) > 0
           /\ b <= c => RankIn(S, b) <= RankIn(S, c)
           /\ b < c => RankIn(S, b) < RankIn(S, c)
  <1> DEFINE B == {d \in S : d <= b}
             C == {d \in S : d <= c}
  <1>0. b \in Nat /\ c \in Nat /\ \A d \in S : d \in Nat
    OBVIOUS
  <1>1. IsFiniteSet(B) /\ IsFiniteSet(C)
    BY FS_Subset
  <1>2. b \in B /\ c \in C
    OBVIOUS
  <1>3. Cardinality(B) \in Nat /\ Cardinality(C) \in Nat
    BY <1>1, FS_CardinalityType
  <1>4. Cardinality(B) # 0
    BY <1>1, <1>2, FS_EmptySet
  <1>5. ASSUME b <= c
        PROVE  Cardinality(B) <= Cardinality(C)
    <2>1. B \subseteq C
      <3> SUFFICES ASSUME NEW d \in S, d <= b
                   PROVE  d <= c
        OBVIOUS
      <3> QED  BY <1>0, <1>5
    <2> QED  BY <1>1, <2>1, FS_Subset
  <1>6. ASSUME b < c
        PROVE  Cardinality(B) < Cardinality(C)
    <2>1. B \subseteq C /\ B # C
      <3>1. c \notin B
        BY <1>0, <1>6
      <3>2. B \subseteq C
        <4> SUFFICES ASSUME NEW d \in S, d <= b
                     PROVE  d <= c
          OBVIOUS
        <4> QED  BY <1>0, <1>6
      <3> QED  BY <1>2, <3>1, <3>2
    <2> HIDE DEF B, C
    <2> QED  BY <1>1, <1>3, <2>1, FS_Subset
  <1> QED  BY <1>3, <1>4, <1>5, <1>6 DEF RankIn

LEMMA FirstOfIs ==
    ASSUME NEW S \in SUBSET Nat, IsFiniteSet(S), NEW n \in Nat, n <= Cardinality(S)
    PROVE  Cardinality(FirstOf(S, n)) = n
  <1> DEFINE G == {k \in Nat : k <= Cardinality(S) => Cardinality(FirstOf(S, k)) = k}
  <1>0. Cardinality(S) \in Nat
    BY FS_CardinalityType
  <1>1. 0 \in G
    <2>1. \A c \in S : ~(RankIn(S, c) <= 0)
      <3> SUFFICES ASSUME NEW c \in S
                   PROVE  ~(RankIn(S, c) <= 0)
        OBVIOUS
      <3>1. RankIn(S, c) \in Nat /\ RankIn(S, c) > 0
        BY RankGrows
      <3> QED  BY <3>1
    <2>2. FirstOf(S, 0) = {}
      BY <2>1 DEF FirstOf
    <2> QED  BY <2>2, FS_EmptySet
  <1>2. ASSUME NEW k \in G, k + 1 <= Cardinality(S)
        PROVE  Cardinality(FirstOf(S, k + 1)) = k + 1
    <2> DEFINE F == FirstOf(S, k)
               R == S \ F
               m == Min(R)
    <2>1. k \in Nat /\ F \subseteq S /\ IsFiniteSet(F) /\ Cardinality(F) = k
      BY <1>0, <1>2, FS_Subset DEF FirstOf
    <2>2. R # {}
      BY <1>0, <1>2, <2>1
    <2>3. m \in R /\ \A x \in R : m <= x
      <3>1. R \in SUBSET Nat
        OBVIOUS
      <3> HIDE DEF R
      <3> QED  BY <2>2, <3>1, LeastExists
    <2> HIDE DEF m
    <2>4. m \in S /\ m \in Nat /\ m \notin F
      BY <2>3
    <2>5. \A x \in S : x \in F <=> RankIn(S, x) <= k
      BY DEF FirstOf
    <2>6. ASSUME NEW x \in F
          PROVE  x < m
      <3>1. x \in S /\ x \in Nat /\ RankIn(S, x) <= k
        BY <2>1, <2>5
      <3>2. ~(RankIn(S, m) <= k)
        BY <2>4, <2>5
      <3>3. m <= x => RankIn(S, m) <= RankIn(S, x)
        BY <2>4, <3>1, RankGrows
      <3>4. RankIn(S, m) \in Nat /\ RankIn(S, x) \in Nat
        BY <2>4, <3>1, RankGrows
      <3> QED  BY <2>1, <2>4, <3>1, <3>2, <3>3, <3>4
    <2>7. {d \in S : d <= m} = F \cup {m}
      <3>1. \A d \in S : d \in Nat
        OBVIOUS
      <3>2. ASSUME NEW d \in S, d <= m
            PROVE  d \in F \cup {m}
        <4>1. CASE d \in F
          BY <4>1
        <4>2. CASE d \in R
          <5>1. m <= d
            BY <2>3, <4>2
          <5> HIDE DEF F, R
          <5> QED  BY <2>4, <3>1, <3>2, <5>1
        <4> QED  BY <4>1, <4>2
      <3> HIDE DEF F, R
      <3>3. \A d \in F : d \in S /\ d \in Nat /\ d <= m
        BY <2>1, <2>4, <2>6, <3>1
      <3>4. \A d \in S : d <= m <=> d \in F \cup {m}
        BY <2>4, <3>2, <3>3
      <3> QED  BY <2>1, <2>4, <3>4
    <2>8. RankIn(S, m) = k + 1
      <3> HIDE DEF F
      <3> QED  BY <2>1, <2>4, <2>7, FS_AddElement DEF RankIn
    <2>9. FirstOf(S, k + 1) = F \cup {m}
      <3>1. ASSUME NEW x \in S
            PROVE  RankIn(S, x) <= k + 1 <=> x \in F \cup {m}
        <4>1. CASE x \in F
          BY <2>1, <2>5, <4>1, RankGrows
        <4>2. CASE x = m
          BY <2>1, <2>8, <4>2
        <4>3. CASE x \in R /\ x # m
          <5>1. m < x
            BY <2>3, <2>4, <4>3
          <5>2. RankIn(S, m) < RankIn(S, x) /\ RankIn(S, x) \in Nat
            BY <2>4, <5>1, RankGrows
          <5> QED  BY <2>1, <2>8, <4>3, <5>2
        <4> QED  BY <4>1, <4>2, <4>3
      <3> HIDE DEF F, R
      <3> QED  BY <2>1, <2>4, <3>1 DEF FirstOf
    <2> HIDE DEF F
    <2> QED  BY <2>1, <2>4, <2>9, FS_AddElement
  <1>3. G = Nat
    <2>1. G \in SUBSET Nat /\ \A k \in G : k + 1 \in G
      BY <1>0, <1>2
    <2> HIDE DEF G
    <2> QED  BY <1>1, <2>1, Induction
  <1> QED  BY <1>3

\* Where a review lists every claim it can, and where it does not.
LEMMA ReviewListsAll ==
    ASSUME NEW a \in Answer, ~TailUnlisted(a)
    PROVE  Texts(a) \subseteq Claims(a)
  <1> SUFFICES ASSUME NEW t \in Texts(a), t \notin Claims(a)
               PROVE  FALSE
    OBVIOUS
  <1> DEFINE all == Texts(a) \cup Orphans(a)
  <1>1. /\ all \subseteq 1 .. Len(a) /\ t \in all /\ all \in SUBSET Nat
        /\ t \in DOMAIN a /\ a[t].kind # "foot"
    <2>1. /\ Heads(a) \subseteq 1 .. Len(a) /\ Texts(a) \subseteq 1 .. Len(a)
          /\ Orphans(a) \subseteq Heads(a) /\ DOMAIN a = 1 .. Len(a)
      BY AnswerIs DEF Orphans
    <2> QED  BY <2>1 DEF Texts
  <1>2. IsFiniteSet(all)
    <2>1. IsFiniteSet(1 .. Len(a))
      BY AnswerIs, FS_Interval
    <2> QED  BY <1>1, <2>1, FS_Subset
  <1>3. Claims(a) = FirstOf(all, MaxClaims)
    BY DEF Claims, FirstOf, RankIn
  <1> HIDE DEF all
  <1>4. MaxClaims \in Nat /\ ~(RankIn(all, t) <= MaxClaims) /\ RankIn(all, t) \in Nat
    BY <1>1, <1>2, <1>3, RankGrows, AnswerTextAssumption DEF FirstOf
  <1>5. MaxClaims <= Cardinality(all)
    <2>1. RankIn(all, t) <= Cardinality(all) /\ Cardinality(all) \in Nat
      BY <1>2, FS_Subset, FS_CardinalityType DEF RankIn
    <2> QED  BY <1>4, <2>1
  <1>6. Cardinality(Claims(a)) = MaxClaims
    BY <1>1, <1>2, <1>3, <1>4, <1>5, FirstOfIs
  <1>7. ASSUME NEW c \in Claims(a)
        PROVE  t > c
    <2>1. c \in all /\ c \in Nat /\ t \in Nat /\ RankIn(all, c) <= MaxClaims
      BY <1>1, <1>3 DEF FirstOf
    <2>2. RankIn(all, c) \in Nat /\ (t <= c => RankIn(all, t) <= RankIn(all, c))
      BY <1>1, <1>2, <2>1, RankGrows
    <2> QED  BY <1>4, <2>1, <2>2
  <1> QED  BY <1>1, <1>6, <1>7 DEF TailUnlisted

LEMMA CitedForIs ==
    ASSUME NEW a \in Answer, NEW i \in Equations(a),
           FormulaStatus(a, i) = "source_matched"
    PROVE  CitedFor(a, i) \subseteq Source
  <1>1. Unknown \notin CitedFor(a, i)
    BY DEF FormulaStatus, StatusBy
  <1>2. \A j \in 1 .. Len(a) : a[j].cites \subseteq Source \cup {Unknown}
    BY AnswerIs
  <1>3. i \in 1 .. Len(a) /\ Equations(a) \subseteq 1 .. Len(a) /\ Len(a) \in Nat
    BY AnswerIs DEF Equations
  <1>4. i .. FirstFrom(Equations(a), i + 1, Len(a) + 1) - 1 \subseteq 1 .. Len(a)
    <2>1. Equations(a) \in SUBSET Nat /\ i + 1 \in Nat /\ Len(a) + 1 \in Nat
      BY <1>3
    <2>2. FirstFrom(Equations(a), i + 1, Len(a) + 1) \in 1 .. Len(a) + 1
      BY <1>3, <2>1, FirstFromIs
    <2> QED  BY <1>3, <2>2
  <1>5. Max({1} \cup {j \in Equations(a) : j < i}) .. i - 1 \subseteq 1 .. Len(a)
    <2> DEFINE P == {1} \cup {j \in Equations(a) : j < i}
    <2>1. P \in SUBSET Nat /\ P # {} /\ i \in Nat /\ \A x \in P : x <= i /\ x >= 1
      BY <1>3
    <2> HIDE DEF P
    <2>2. Max(P) \in P
      BY <2>1, GreatestExists
    <2>3. Max(P) \in Nat /\ Max(P) >= 1
      BY <2>1, <2>2
    <2>4. Max(P) .. i - 1 \subseteq 1 .. Len(a)
      BY <1>3, <2>3
    <2> QED  BY <2>4 DEF P
  <1>6. CitedFor(a, i) \subseteq Source \cup {Unknown}
    <2>1. \A S \in SUBSET (1 .. Len(a)) : Cited(a, S) \subseteq Source \cup {Unknown}
      BY <1>2 DEF Cited
    <2> QED  BY <1>4, <1>5, <2>1 DEF CitedFor, CitedAfter, CitedBefore
  <1> QED  BY <1>1, <1>6

\* The checks an accepted draft has passed.
LEMMA AcceptedIs ==
    ASSUME NEW p, NEW d, NEW r, Accepted(p, d, r)
    PROVE  LET a == d.text IN
           /\ ~FormulaMissing(p, a) /\ ~p.limits
           /\ \/ IsCopy(p, d)
              \/ /\ ~TailUnlisted(a) /\ ~r.lost
                 /\ \A m \in DOMAIN p.members : MemberRowFits(p, a, r, m)
                 /\ \A c \in Claims(a) :
                        /\ ClaimStatus(a, c, r.rows[c], FALSE) = "judge_supported"
                        /\ r.rows[c].exact
                 /\ AttributionBound(a, r) /\ MembersCovered(p, r)
  <1> DEFINE a == d.text
  <1>1. Failure(p, d, r) = "none"
    BY DEF Accepted
  <1>2. ~FormulaMissing(p, a) /\ ~p.limits
    BY <1>1 DEF Failure
  <1>3. IsCopy(p, d) \/ (~TailUnlisted(a) /\ ~r.lost)
    BY <1>1 DEF Failure
  <1>4. ~IsCopy(p, d) => \A m \in DOMAIN p.members : MemberRowFits(p, a, r, m)
    BY <1>1 DEF Failure
  <1>5. ~IsCopy(p, d) => 
                 /\ \A c \in Claims(a) :
                        /\ ClaimStatus(a, c, r.rows[c], FALSE) = "judge_supported"
                        /\ r.rows[c].exact
                 /\ AttributionBound(a, r) /\ MembersCovered(p, r)
    BY <1>1 DEF Failure
  <1> QED  BY <1>2, <1>3, <1>4, <1>5

LEMMA SupportedRow ==
    ASSUME NEW a, NEW c, NEW row \in ClaimRow,
           ClaimStatus(a, c, row, FALSE) = "judge_supported"
    PROVE  row.support = "supported"
  <1>1. row.support \in {"supported", "unsupported", "contradicted", "uncertain"}
    BY DEF ClaimRow
  <1>2. RowValid(a, c, row, FALSE)
    BY DEF ClaimStatus
  <1> QED  BY <1>1, <1>2 DEF ClaimStatus

\* What the ordinary guard accepts has been declared, reviewed and completed.
LEMMA AcceptedIsProven ==
    ASSUME case.of = "verdict", case.draft \in Drafts,
           case.review \in GuardReviews(case.packet, case.draft.text),
           Accepted(case.packet, case.draft, case.review)
    PROVE  AcceptedIsDeclared /\ AcceptedIsReviewed /\ AcceptedIsComplete
  <1> DEFINE p == case.packet
             d == case.draft
             r == case.review
             a == d.text
             Reviewed ==
                 /\ ~TailUnlisted(a) /\ ~r.lost
                 /\ \A m \in DOMAIN p.members : MemberRowFits(p, a, r, m)
                 /\ \A c \in Claims(a) :
                        /\ ClaimStatus(a, c, r.rows[c], FALSE) = "judge_supported"
                        /\ r.rows[c].exact
                 /\ AttributionBound(a, r) /\ MembersCovered(p, r)
  <1>1. a \in Answer
    BY AlgorithmsAssumption
  <1>2. /\ ~FormulaMissing(p, a) /\ ~p.limits /\ (IsCopy(p, d) \/ Reviewed)
    BY AcceptedIs
  <1>3. ASSUME Reviewed, NEW c \in Claims(a)
        PROVE  r.rows[c].support = "supported"
    <2>1. PICK rows \in [Claims(a) -> ClaimRows] : r.rows = rows
      <3>1. ~r.lost
        BY <1>3
      <3>2. r \in GuardReviews(p, a)
        OBVIOUS
      <3> HIDE DEF p, a, r, d, Reviewed
      <3>3. \/ r = [rows |-> <<>>, members |-> <<>>, lost |-> TRUE]
            \/ \E rows \in [Claims(a) -> ClaimRows] : \E members :
                   r = [rows |-> rows, members |-> members, lost |-> FALSE]
        <4> DEFINE M == [DOMAIN p.members ->
                            [detailed : {TRUE}, claims : SUBSET Claims(a),
                             passages : SUBSET Source]]
                   G == {[rows |-> rows, members |-> members, lost |-> FALSE] :
                            rows \in [Claims(a) -> ClaimRows], members \in M}
        <4>1. GuardReviews(p, a) = {[rows |-> <<>>, members |-> <<>>, lost |-> TRUE]} \cup G
          BY DEF GuardReviews
        <4> HIDE DEF M
        <4>2. \A x \in G : \E rows \in [Claims(a) -> ClaimRows] : \E members :
                   x = [rows |-> rows, members |-> members, lost |-> FALSE]
          OBVIOUS
        <4> HIDE DEF G
        <4> QED  BY <3>2, <4>1, <4>2
      <3>4. r # [rows |-> <<>>, members |-> <<>>, lost |-> TRUE]
        BY <3>1
      <3> QED  BY <3>3, <3>4
    <2>2. r.rows[c] \in ClaimRow
      BY <1>3, <2>1, AlgorithmsAssumption
    <2> QED  BY <1>3, <2>2, SupportedRow
  <1>4. IsCopy(p, d) => d.copied /\ d.whole /\ DOMAIN p.members = {}
    BY DEF IsCopy
  <1> HIDE DEF Reviewed
  <1>5. AcceptedIsDeclared
    <2>1. CASE IsCopy(p, d)
      BY <1>4, <2>1 DEF AcceptedIsDeclared
    <2>2. CASE Reviewed
      <3>1. ASSUME NEW c \in Claims(a)
            PROVE  /\ r.rows[c].support = "supported" /\ r.rows[c].exact
                   /\ r.rows[c].passages # {} /\ r.rows[c].passages \subseteq Bound(a, c)
        BY <1>3, <2>2 DEF Reviewed, AttributionBound
      <3>2. ~r.lost
        BY <2>2 DEF Reviewed
      <3> HIDE DEF a, r
      <3>3. ~r.lost /\ \A c \in Claims(a) :
                   /\ r.rows[c].support = "supported" /\ r.rows[c].exact
                   /\ r.rows[c].passages # {} /\ r.rows[c].passages \subseteq Bound(a, c)
        BY <3>1, <3>2
      <3> QED  BY <3>3 DEF AcceptedIsDeclared, a, r, d
    <2> QED  BY <1>2, <2>1, <2>2
  <1>6. AcceptedIsReviewed
    <2>1. Reviewed => Texts(a) \subseteq Claims(a)
      BY <1>1, ReviewListsAll DEF Reviewed
    <2> QED  BY <1>2, <1>4, <2>1 DEF AcceptedIsReviewed
  <1>7. ASSUME p.requested
        PROVE  \E i \in Equations(a), s \in Source :
                   /\ Relation[s][a[i].eq] = "native"
                   /\ s \in CitedFor(a, i)
                   /\ p.rules # {} => \E rule \in p.rules :
                          \E j \in Equations(a) :
                              rule[1] = a[j].eq /\ rule[2] \in CitedFor(a, j)
    <2>1. \A x \in Supplied(a) : \E i \in Equations(a) : \E s \in CitedFor(a, i) :
              /\ FormulaStatus(a, i) = "source_matched"
              /\ x = <<a[i].eq, s>> /\ Relation[s][a[i].eq] = "native"
      BY DEF Supplied
    <2>2. Supplied(a) # {} /\ (p.rules # {} => Supplied(a) \cap p.rules # {})
      BY <1>2, <1>7 DEF FormulaMissing
    <2> HIDE DEF p, a
    <2>3. PICK i \in Equations(a) : \E s \in CitedFor(a, i) :
              FormulaStatus(a, i) = "source_matched" /\ Relation[s][a[i].eq] = "native"
      BY <2>1, <2>2
    <2> PICK s \in CitedFor(a, i) :
              FormulaStatus(a, i) = "source_matched" /\ Relation[s][a[i].eq] = "native"
      BY <2>3
    <2>4. s \in Source
      BY <1>1, <2>3, CitedForIs
    <2>5. ASSUME p.rules # {}
          PROVE  \E rule \in p.rules : \E j \in Equations(a) :
                     rule[1] = a[j].eq /\ rule[2] \in CitedFor(a, j)
      <3>1. PICK x \in Supplied(a) : x \in p.rules
        BY <2>2, <2>5
      <3>2. PICK j \in Equations(a) : \E t \in CitedFor(a, j) : x = <<a[j].eq, t>>
        BY <2>1
      <3>3. x[1] = a[j].eq /\ x[2] \in CitedFor(a, j)
        BY <3>2
      <3> QED  BY <3>1, <3>3
    <2> QED  BY <2>3, <2>4, <2>5
  <1>8. ASSUME NEW m \in DOMAIN p.members
        PROVE  \E c \in Claims(a) : /\ r.rows[c].support = "supported"
                                    /\ r.rows[c].passages \cap p.members[m] # {}
    <2>1. Reviewed
      BY <1>2, <1>4
    <2>2. MemberRowFits(p, a, r, m) /\ MembersCovered(p, r)
      BY <2>1 DEF Reviewed
    <2> HIDE DEF p, a, r
    <2>3. /\ r.members[m].claims \subseteq Claims(a)
          /\ r.members[m].passages \subseteq p.members[m]
      BY <2>2 DEF MemberRowFits, Eligible
    <2>4. PICK c \in r.members[m].claims : /\ r.rows[c].support = "supported"
                                           /\ r.rows[c].passages \cap r.members[m].passages # {}
      BY <2>2 DEF MembersCovered
    <2> QED  BY <2>3, <2>4
  <1>9. AcceptedIsComplete
    <2> HIDE DEF p, a, r, d
    <2>1. /\ ~p.limits
          /\ p.requested => \E i \in Equations(a), s \in Source :
                   /\ Relation[s][a[i].eq] = "native"
                   /\ s \in CitedFor(a, i)
                   /\ p.rules # {} => \E rule \in p.rules :
                          \E j \in Equations(a) :
                              rule[1] = a[j].eq /\ rule[2] \in CitedFor(a, j)
          /\ \A m \in DOMAIN p.members : \E c \in Claims(a) :
                 /\ r.rows[c].support = "supported"
                 /\ r.rows[c].passages \cap p.members[m] # {}
      BY <1>2, <1>7, <1>8
    <2> QED  BY <2>1 DEF AcceptedIsComplete, p, a, r, d
  <1> QED  BY <1>5, <1>6, <1>9

\* What each algorithm is run on.
AnswerShape ==
    /\ case.of \in {"answer", "report"} => case.answer \in Answers
    /\ case.of = "report" => case.review \in Reviews(case.answer)
DraftShape ==
    /\ case.of \in {"draft", "verdict"} => case.draft \in Drafts
    /\ case.of = "verdict" =>
           case.review \in GuardReviews(case.packet, case.draft.text)
NavShape == case.of = "navigation" => case = [of |-> "navigation", nav |-> case.nav]
Shape == AnswerShape /\ DraftShape /\ NavShape

LEMMA ShapeInit == NoCase => Shape
  BY DEF NoCase, Shape, AnswerShape, DraftShape, NavShape

\* A step of a navigation stays in it.
LEMMA NavStep ==
    ASSUME case.of = "navigation", NavShape, NEW trip,
           case' = [case EXCEPT !.nav = trip]
    PROVE  case' = [of |-> "navigation", nav |-> trip]
  <1>1. case = [of |-> "navigation", nav |-> case.nav]
    BY DEF NavShape
  <1> QED  BY <1>1

LEMMA ShapeStep == Shape /\ [Step]_case => Shape'
  <1> SUFFICES ASSUME Shape, [Step]_case
               PROVE  Shape'
    OBVIOUS
  <1> USE DEF Shape, AnswerShape, DraftShape, NavShape
  <1>1. CASE Write
    BY <1>1 DEF Write
  <1>2. CASE Verify
    BY <1>2 DEF Verify
  <1>3. CASE Promote \/ PromoteForCoverage
    BY <1>3 DEF Promote, PromoteForCoverage
  <1>4. CASE WriteDraft
    BY <1>4 DEF WriteDraft
  <1>5. CASE Assess
    BY <1>5 DEF Assess
  <1>6. CASE AskRepair
    BY <1>6 DEF AskRepair
  <1>7. CASE RepairDraft
    BY <1>7 DEF RepairDraft
  <1>8. CASE Navigate
    BY <1>8 DEF Navigate
  <1>9. CASE Browse \/ ReadRow \/ Finish \/ EndTurn \/ Break
    <2>1. /\ case.of = "navigation"
          /\ \E trip : case' = [case EXCEPT !.nav = trip]
      BY <1>9 DEF Browse, ReadRow, Finish, EndTurn, Break, Navigating
    <2>2. PICK trip : case' = [of |-> "navigation", nav |-> trip]
      BY <2>1, NavStep
    <2> QED  BY <2>2
  <1>10. CASE Converse
    BY <1>10 DEF Converse
  <1>11. CASE ReadEvidence
    BY <1>11 DEF ReadEvidence
  <1>12. CASE CutTable
    BY <1>12 DEF CutTable
  <1>13. CASE CutFile
    BY <1>13 DEF CutFile
  <1>14. CASE UNCHANGED case
    BY <1>14
  <1> QED  BY <1>1, <1>2, <1>3, <1>4, <1>5, <1>6, <1>7, <1>8, <1>9, <1>10, <1>11, <1>12,
              <1>13, <1>14 DEF Step

LEMMA ShapeIsKept == Cases => []Shape
  <1>1. NoCase => Shape
    BY ShapeInit
  <1>2. Shape /\ [Step]_case => Shape'
    BY ShapeStep
  <1> QED  BY <1>1, <1>2, PTL DEF Cases

(* What is published of a verified answer is what was proven, in whole       *)
(* units, under all its headings.                                            *)
THEOREM PublicationStaysProven == Cases => []PublicationIsProven
  <1>1. Shape => PublicationIsProven
    <2> SUFFICES ASSUME Shape
                 PROVE  PublicationIsProven
      OBVIOUS
    <2>1. AttributionIsDeclared
      <3> SUFFICES ASSUME case.of = "answer"
                   PROVE  AttributionIsDeclared
        BY DEF AttributionIsDeclared
      <3>1. case.answer \in Answer
        BY AlgorithmsAssumption DEF Shape, AnswerShape
      <3> QED  BY <3>1, BoundIsDeclared DEF AttributionIsDeclared
    <2> SUFFICES ASSUME case.of = "report"
                 PROVE  PublicationIsProven
      BY <2>1 DEF PublicationIsProven, CleanIsProven
    <2>2. case.answer \in Answer /\ case.review \in Reviews(case.answer)
      BY AlgorithmsAssumption DEF Shape, AnswerShape
    <2>3. CleanIsProven
      BY <2>2, CleanIs DEF CleanIsProven
    <2>4. /\ PublishedIsProven(case.answer, case.review, Published(case.answer, case.review))
          /\ UnitsAreWhole(case.answer, Published(case.answer, case.review))
      BY <2>2, TaskIsProven
    <2>5. SafePartialIsExact(case.answer, Actionable(case.answer, case.review),
                             Survivors(case.answer, case.review))
      BY <2>2, RestIsExact
    <2> QED  BY <2>1, <2>3, <2>4, <2>5 DEF PublicationIsProven
  <1> QED  BY <1>1, ShapeIsKept, PTL

(* What the ordinary guard lets pass was declared, reviewed and asked for.   *)
THEOREM AcceptanceStaysProven == Cases => []AcceptanceIsProven
  <1>1. Shape => AcceptanceIsProven
    BY AcceptedIsProven DEF Shape, DraftShape, AcceptanceIsProven, Passed
  <1> QED  BY <1>1, ShapeIsKept, PTL

-----------------------------------------------------------------------------
(***************************************************************************)
(* What was read in a navigation.                                          *)
(***************************************************************************)

\* One more at the end; named, so that the prover need not look inside.
More(s, r) == Append(s, r)

LEMMA OneLonger ==
    ASSUME NEW s \in Seq(Record), NEW r \in Record
    PROVE  /\ Len(More(s, r)) = Len(s) + 1 /\ Len(s) \in Nat
           /\ More(s, r)[Len(s) + 1] = r
           /\ \A i \in 1 .. Len(s) : More(s, r)[i] = s[i]
  BY DEF More

\* A record that fits and is new comes last of those kept.
LEMMA AdmitOneKeeps ==
    ASSUME NEW budget \in Nat, NEW known, NEW rec \in Record,
           NEW acc, IsGood(acc, budget, known)
    PROVE  LET now == Recs(acc.kept)
               next == Recs(AdmitOne(acc, rec, budget).kept)
           IN /\ next = now \/ next = More(now, rec)
              /\ /\ rec \notin Dead \cup Opaque \cup ToSet(now)
                 /\ acc.used + Size[rec] <= budget
                 => next = More(now, rec)
  BY AdmitOneGood DEF More

\* Records that fit together, come first and differ are kept in front, in
\* their order.
LEMMA FirstComeFirst ==
    ASSUME NEW items \in Seq(Record), NEW budget \in Nat,
           NEW known \in Seq(Record), NoTwice(known),
           NEW first \in Seq(Record), Len(first) <= Len(items),
           \A i \in 1 .. Len(first) : items[i] = first[i] /\ first[i] \notin Dead \cup Opaque,
           \A i, j \in 1 .. Len(first) : first[i] = first[j] => i = j,
           Total(first) <= budget
    PROVE  SubSeq(Recs(Admission(items, budget, known).kept), 1, Len(first)) = first
  <1> DEFINE L == Len(items)
             m == Len(first)
             f == Rounds(items, budget, known)
             K(k) == Recs(f[k].kept)
             S == {k \in Nat : k <= L =>
                      /\ \A i \in 1 .. m : i <= k => i <= Len(K(k)) /\ K(k)[i] = first[i]
                      /\ k <= m => Len(K(k)) = k}
  <1>1. /\ Admission(items, budget, known) = f[L]
        /\ f[0] = [kept |-> <<>>, used |-> 0, registry |-> known]
        /\ \A n \in 1 .. L : f[n] = AdmitOne(f[n - 1], items[n], budget)
        /\ \A n \in 0 .. L : IsGood(f[n], budget, known)
    BY RoundsDef
  <1>2. L \in Nat /\ m \in Nat /\ m <= L /\ \A n \in 1 .. L : items[n] \in Record
    OBVIOUS
  <1>3. \A k \in 0 .. L : K(k) \in Seq(Record) /\ f[k].used = Total(K(k))
    <2> SUFFICES ASSUME NEW k \in 0 .. L
                 PROVE  K(k) \in Seq(Record) /\ f[k].used = Total(K(k))
      OBVIOUS
    <2>1. IsGood(f[k], budget, known)
      BY <1>1
    <2> HIDE DEF f
    <2>2. f[k].kept \in Seq(Numbered)
      BY <2>1 DEF IsGood, Admissions
    <2> QED  BY <2>1, <2>2, RecsAreRecords DEF IsGood
  <1>4. ASSUME NEW k \in 0 .. m, k + 1 <= m, NEW s \in Seq(Record), Len(s) = k,
               \A i \in 1 .. k : s[i] = first[i]
        PROVE  Total(s) + Size[first[k + 1]] <= budget
    <2>1. /\ k \in Nat /\ k <= Len(s) /\ k <= Len(first) /\ k + 1 \in 0 .. m /\ k + 1 \in 1 .. m
          /\ (k + 1) - 1 = k /\ m \in 0 .. m
      BY <1>2, <1>4
    <2>2. Total(s) = Sums(s)[k] /\ Sums(s)[k] = Sums(first)[k]
      BY <1>4, <2>1, SumsDef, SumsOfPrefix
    <2>3. Sums(first)[k + 1] = Sums(first)[k] + Size[first[k + 1]]
      BY <2>1, SumsDef
    <2>4. Sums(first)[k + 1] <= Sums(first)[m] /\ Total(first) = Sums(first)[m]
      BY <2>1, SumsDef, SumsGrow
    <2>5. Sums(first)[k + 1] \in Nat /\ Sums(first)[m] \in Nat
      BY <2>1, SumsDef
    <2> HIDE DEF m
    <2> QED  BY <2>2, <2>3, <2>4, <2>5
  <1>5. /\ \A i \in 1 .. m : items[i] = first[i] /\ first[i] \notin Dead \cup Opaque
        /\ \A i, j \in 1 .. m : first[i] = first[j] => i = j
    OBVIOUS
  <1> HIDE DEF f, L, m
  <1>6. 0 \in S
    <2>1. K(0) = <<>>
      BY <1>1 DEF Recs
    <2>2. Len(K(0)) = 0 /\ \A i \in 1 .. m : ~(i <= 0)
      BY <2>1
    <2> HIDE DEF K
    <2> QED  BY <2>2
  <1>7. ASSUME NEW k \in S, k + 1 <= L
        PROVE  k + 1 \in S
    <2>1. /\ k \in 0 .. L /\ k + 1 \in 1 .. L /\ (k + 1) - 1 = k /\ k \in Nat /\ k + 1 \in 0 .. L
          /\ k <= L
      BY <1>2, <1>7
    <2>2. /\ f[k + 1] = AdmitOne(f[k], items[k + 1], budget)
          /\ IsGood(f[k], budget, known) /\ items[k + 1] \in Record
      BY <1>1, <1>2, <2>1
    <2>3. /\ K(k) \in Seq(Record) /\ f[k].used = Total(K(k))
          /\ \A i \in 1 .. m : i <= k => i <= Len(K(k)) /\ K(k)[i] = first[i]
          /\ k <= m => Len(K(k)) = k
      BY <1>3, <1>7, <2>1
    <2> HIDE DEF S
    <2>4. /\ \/ K(k + 1) = K(k)
             \/ K(k + 1) = More(K(k), items[k + 1])
          /\ /\ items[k + 1] \notin Dead \cup Opaque \cup ToSet(K(k))
             /\ f[k].used + Size[items[k + 1]] <= budget
             => K(k + 1) = More(K(k), items[k + 1])
      <3>1. /\ Recs(AdmitOne(f[k], items[k + 1], budget).kept) = Recs(f[k].kept)
               \/ Recs(AdmitOne(f[k], items[k + 1], budget).kept)
                      = More(Recs(f[k].kept), items[k + 1])
            /\ /\ items[k + 1] \notin Dead \cup Opaque \cup ToSet(Recs(f[k].kept))
               /\ f[k].used + Size[items[k + 1]] <= budget
               => Recs(AdmitOne(f[k], items[k + 1], budget).kept)
                      = More(Recs(f[k].kept), items[k + 1])
        <4> HIDE DEF K
        <4> QED  BY <2>2, AdmitOneKeeps
      <3> QED  BY <2>2, <3>1
    <2> HIDE DEF K
    <2>5. CASE k + 1 <= m
      <3>1. /\ k \in 0 .. m /\ k <= m /\ Len(K(k)) = k /\ k + 1 \in 1 .. m
            /\ \A i \in 1 .. k : K(k)[i] = first[i]
        BY <1>2, <2>1, <2>3, <2>5
      <3>2. Total(K(k)) + Size[first[k + 1]] <= budget
        BY <1>4, <2>3, <2>5, <3>1
      <3>3. items[k + 1] = first[k + 1] /\ first[k + 1] \notin Dead \cup Opaque
        BY <1>5, <3>1
      <3>4. first[k + 1] \notin ToSet(K(k))
        <4> SUFFICES ASSUME NEW i \in 1 .. k, first[k + 1] = K(k)[i]
                     PROVE  FALSE
          BY <2>3, <3>1 DEF ToSet
        <4>1. i \in 1 .. m /\ first[k + 1] = first[i]
          BY <1>2, <3>1
        <4> QED  BY <1>5, <3>1, <4>1
      <3>5. K(k + 1) = More(K(k), first[k + 1])
        BY <2>4, <2>3, <3>2, <3>3, <3>4
      <3>6. /\ Len(K(k + 1)) = k + 1 /\ K(k + 1)[k + 1] = first[k + 1]
            /\ \A i \in 1 .. k : K(k + 1)[i] = K(k)[i]
        <4> DEFINE s == K(k)
                   r == first[k + 1]
        <4>1. s \in Seq(Record) /\ r \in Record /\ Len(s) = k
          BY <2>2, <2>3, <3>1, <3>3
        <4> HIDE DEF s, r
        <4>2. /\ Len(More(s, r)) = k + 1 /\ More(s, r)[k + 1] = r
              /\ \A i \in 1 .. k : More(s, r)[i] = s[i]
          BY <4>1, OneLonger
        <4>3. K(k + 1) = More(s, r)
          BY <3>5 DEF s, r
        <4> QED  BY <4>2, <4>3 DEF s, r
      <3>7. \A i \in 1 .. m : i <= k + 1 => i \in 1 .. k \/ i = k + 1
        BY <2>1
      <3> QED  BY <2>1, <3>1, <3>6, <3>7 DEF S
    <2>6. CASE ~(k + 1 <= m)
      <3>1. \A i \in 1 .. m : i <= Len(K(k)) /\ K(k)[i] = first[i]
        BY <1>2, <2>1, <2>3, <2>6
      <3>2. items[k + 1] \in Record
        BY <2>2
      <3>3. \A i \in 1 .. m : i <= Len(K(k + 1)) /\ K(k + 1)[i] = first[i]
        <4>1. CASE K(k + 1) = K(k)
          BY <3>1, <4>1
        <4>2. CASE K(k + 1) = More(K(k), items[k + 1])
          <5>1. /\ Len(K(k + 1)) = Len(K(k)) + 1 /\ Len(K(k)) \in Nat
                /\ \A i \in 1 .. Len(K(k)) : K(k + 1)[i] = K(k)[i]
            BY <2>3, <3>2, <4>2, OneLonger
          <5> QED  BY <1>2, <3>1, <5>1
        <4> QED  BY <2>4, <4>1, <4>2
      <3> QED  BY <2>1, <2>6, <3>3 DEF S
    <2> QED  BY <2>5, <2>6
  <1>8. S = Nat
    <2>1. ASSUME NEW k \in S
          PROVE  k + 1 \in S
      <3>1. ~(k + 1 <= L) => k + 1 \in S
        OBVIOUS
      <3> HIDE DEF S
      <3> QED  BY <1>7, <3>1
    <2> HIDE DEF S
    <2>2. S \in SUBSET Nat
      BY DEF S
    <2> QED  BY <1>6, <2>1, <2>2, Induction
  <1>9. /\ K(L) \in Seq(Record)
        /\ \A i \in 1 .. m : i <= Len(K(L)) /\ K(L)[i] = first[i]
    <2>1. L \in S /\ L <= L /\ L \in 0 .. L
      <3> HIDE DEF S
      <3> QED  BY <1>2, <1>8
    <2>2. \A i \in 1 .. m : i <= L
      BY <1>2
    <2> HIDE DEF K
    <2> QED  BY <1>3, <2>1, <2>2
  <1>10. SubSeq(K(L), 1, m) = first
    <2> HIDE DEF K
    <2>1. m <= Len(K(L))
      BY <1>2, <1>9
    <2>2. /\ SubSeq(K(L), 1, m) \in Seq(Record) /\ Len(SubSeq(K(L), 1, m)) = m
          /\ \A i \in 1 .. m : SubSeq(K(L), 1, m)[i] = K(L)[i]
      BY <1>2, <1>9, <2>1
    <2> QED  BY <1>2, <1>9, <2>2 DEF m
  <1> QED  BY <1>1, <1>10 DEF m

-----------------------------------------------------------------------------
(***************************************************************************)
(* A navigation shows whole pages, and reads what fits.                    *)
(***************************************************************************)
Tools == {"list_documents", "outline", "search"}

LEMMA ArrangedIs ==
    ASSUME NEW S \in SUBSET Nodes, NEW before
    PROVE  /\ Cardinality(S) \in Nat
           /\ \E X : Arranged(S, before) \in Seq(X)
  <1>1. IsFiniteSet(S)
    <2>1. Nodes \subseteq 1 .. Len(Native) /\ Len(Native) \in Nat
      BY NavigationAssumption DEF Nodes
    <2>2. IsFiniteSet(1 .. Len(Native))
      BY <2>1, FS_Interval
    <2>3. S \subseteq 1 .. Len(Native)
      BY <2>1
    <2> QED  BY <2>2, <2>3, FS_Subset
  <1> DEFINE N == Cardinality(S)
             f == Arranged(S, before)
             e(k) == CHOOSE i \in S : Cardinality(S \cap before[i]) = k - 1
  <1>2. N \in Nat
    BY <1>1, FS_CardinalityType
  <1>3. f = [k \in 1 .. N |-> e(k)]
    BY DEF Arranged
  <1> HIDE DEF N, f, e
  <1>4. f \in Seq({e(k) : k \in 1 .. N})
    BY <1>2, <1>3
  <1> QED  BY <1>2, <1>4 DEF N, f

\* A page is cut from a list.
LEMMA PagesAreLists ==
    ASSUME NEW op, op.tool \in Tools
    PROVE  \E X : PageRows(op) \in Seq(X)
  <1>1. CASE op.tool = "list_documents"
    <2> DEFINE firsts == {i \in Nodes : \A j \in Earlier[i] : Native[j].doc # Native[i].doc}
               N == Cardinality(firsts)
               e(k) == Native[Arranged(firsts, Earlier)[k]].doc
    <2>1. N \in Nat
      BY ArrangedIs
    <2>2. Titles = [k \in 1 .. N |-> e(k)]
      BY DEF Titles
    <2> HIDE DEF N, e
    <2>3. Titles \in Seq({e(k) : k \in 1 .. N})
      BY <2>1, <2>2
    <2> QED  BY <1>1, <2>3 DEF PageRows
  <1>2. CASE op.tool = "outline"
    <2>1. Of(op.doc) \in SUBSET Nodes
      BY DEF Of
    <2>2. PageRows(op) = Arranged(Of(op.doc), Earlier)
      BY <1>2 DEF PageRows
    <2> QED  BY <2>1, <2>2, ArrangedIs
  <1>3. CASE op.tool = "search"
    <2> DEFINE S == {i \in Of(op.doc) : Terms[op.query][i] > 0}
    <2>1. S \in SUBSET Nodes
      BY DEF Of
    <2>2. PageRows(op) = Arranged(S, Better(Terms[op.query]))
      BY <1>3 DEF PageRows
    <2> HIDE DEF S
    <2> QED  BY <2>1, <2>2, ArrangedIs
  <1> QED  BY <1>1, <1>2, <1>3 DEF Tools

\* What a navigation is made of.
Plain(n) ==
    n = [known |-> n.known, fresh |-> n.fresh, shown |-> n.shown, ended |-> n.ended,
         records |-> n.records, budget |-> n.budget, step |-> n.step, acts |-> n.acts,
         stop |-> n.stop]

\* The rows before a cursor have been shown, and all rows of an ended call.
ShownTo(n, c) ==
    /\ c.offset \in Nat
    /\ \A k \in 1 .. c.offset : <<c.op, PageRows(c.op)[k]>> \in n.shown
PagesShown(n) ==
    /\ \A c \in n.known.cursors \cup n.fresh.cursors : ShownTo(n, c)
    /\ \A op \in n.ended : \A row \in ToSet(PageRows(op)) : <<op, row>> \in n.shown

\* What was read is native and fits, each record once.
ReadsFitIn(n) ==
    /\ n.records \in Seq(Record) /\ n.budget \in Nat
    /\ \A i \in 1 .. Len(n.records) : n.records[i] \notin Dead \cup Opaque
    /\ \A i, j \in 1 .. Len(n.records) : n.records[i] = n.records[j] => i = j
    /\ Len(n.records) <= MaxReads
    /\ Total(n.records) <= n.budget

NavigationFits(n) == Plain(n) /\ PagesShown(n) /\ ReadsFitIn(n)

LEMMA PageEndIs ==
    ASSUME NEW X, NEW all \in Seq(X), NEW from \in 0 .. Len(all), NEW limit \in Nat
    PROVE  /\ PageEnd(all, from, limit) \in from .. Len(all)
           /\ \A k \in from + 1 .. PageEnd(all, from, limit) :
                  all[k] \in ToSet(SubSeq(all, from + 1, PageEnd(all, from, limit)))
           /\ ToSet(all) = {all[k] : k \in 1 .. Len(all)}
  <1> DEFINE stop == PageEnd(all, from, limit)
             page == SubSeq(all, from + 1, stop)
  <1>1. stop \in from .. Len(all)
    BY DEF PageEnd
  <1> HIDE DEF stop
  <1>2. /\ DOMAIN page = 1 .. stop - from
        /\ \A i \in 1 .. stop - from : page[i] = all[from + i]
    BY <1>1
  <1> HIDE DEF page
  <1>3. ASSUME NEW k \in from + 1 .. stop
        PROVE  all[k] \in ToSet(page)
    <2>1. k - from \in DOMAIN page /\ page[k - from] = all[from + (k - from)]
      BY <1>1, <1>2
    <2>2. from + (k - from) = k
      BY <1>1
    <2> QED  BY <2>1, <2>2 DEF ToSet
  <1>4. ToSet(all) = {all[k] : k \in 1 .. Len(all)}
    BY DEF ToSet
  <1> QED  BY <1>1, <1>3, <1>4 DEF stop, page

LEMMA PagedKeeps ==
    ASSUME NEW n, NavigationFits(n), NEW op, op.tool \in Tools, NEW cursor,
           cursor.offset \in 0 .. Len(PageRows(op)),
           cursor.offset = 0 \/ (cursor \in n.known.cursors /\ cursor.op = op),
           NEW limit \in Nat
    PROVE  NavigationFits(Paged(n, op, cursor, limit))
  <1> DEFINE m == Paged(n, op, cursor, limit)
             all == PageRows(op)
             from == cursor.offset
             stop == PageEnd(all, from, limit)
             rows == ToSet(SubSeq(all, from + 1, stop))
             next == IF stop < Len(all) THEN {Cursor(op, stop)} ELSE {}
  <1>1. PICK X : all \in Seq(X)
    BY PagesAreLists
  <1>2. /\ stop \in from .. Len(all) /\ from \in Nat /\ Len(all) \in Nat
        /\ \A k \in from + 1 .. stop : all[k] \in rows
        /\ ToSet(all) = {all[k] : k \in 1 .. Len(all)}
    <2>1. Len(all) \in Nat
      BY <1>1
    <2> HIDE DEF all
    <2>2. from \in 0 .. Len(all)
      BY DEF all
    <2> HIDE DEF from
    <2>3. /\ PageEnd(all, from, limit) \in from .. Len(all)
          /\ \A k \in from + 1 .. PageEnd(all, from, limit) :
                 all[k] \in ToSet(SubSeq(all, from + 1, PageEnd(all, from, limit)))
          /\ ToSet(all) = {all[k] : k \in 1 .. Len(all)}
      BY <1>1, <2>2, PageEndIs, Zenon
    <2> HIDE DEF stop
    <2>4. stop \in from .. Len(all) /\ \A k \in from + 1 .. stop : all[k] \in rows
      BY <2>3 DEF stop
    <2> QED  BY <2>1, <2>2, <2>3, <2>4
  <1>3. /\ Plain(m)
        /\ m.known = n.known /\ m.fresh.cursors = n.fresh.cursors \cup next
        /\ m.shown = n.shown \cup {<<op, row>> : row \in rows}
        /\ m.ended = n.ended \cup (IF next = {} THEN {op} ELSE {})
        /\ m.records = n.records /\ m.budget = n.budget
    <2>1. m = Given(n, op, rows, next)
      BY DEF Paged, PageOf
    <2>2. Plain(n)
      BY DEF NavigationFits
    <2> HIDE DEF m, rows, next
    <2> QED  BY <2>1, <2>2, Zenon DEF Given, Both, Plain
  <1> HIDE DEF m, rows, stop, all
  <1>4. \A k \in 1 .. from : <<op, all[k]>> \in n.shown
    <2>1. CASE from = 0
      BY <2>1
    <2>2. CASE cursor \in n.known.cursors /\ cursor.op = op
      BY <2>2 DEF NavigationFits, PagesShown, ShownTo, all
    <2> QED  BY <2>1, <2>2
  <1> HIDE DEF from
  <1>5. \A k \in 1 .. stop : <<op, all[k]>> \in m.shown
    <2> SUFFICES ASSUME NEW k \in 1 .. stop
                 PROVE  <<op, all[k]>> \in m.shown
      OBVIOUS
    <2>1. CASE k \in 1 .. from
      BY <1>3, <1>4, <2>1
    <2>2. CASE k \in from + 1 .. stop
      BY <1>2, <1>3, <2>2
    <2> QED  BY <1>2, <2>1, <2>2
  <1>6. ASSUME NEW c, ShownTo(n, c)
        PROVE  ShownTo(m, c)
    BY <1>3, <1>6 DEF ShownTo
  <1>7. \A c \in next : ShownTo(m, c)
    BY <1>2, <1>5 DEF ShownTo, Cursor, all
  <1>8. \A c \in m.known.cursors \cup m.fresh.cursors : ShownTo(m, c)
    BY <1>3, <1>6, <1>7 DEF NavigationFits, PagesShown
  <1>9. ASSUME next = {}
        PROVE  \A row \in ToSet(all) : <<op, row>> \in m.shown
    <2>1. stop = Len(all)
      BY <1>2, <1>9
    <2> QED  BY <1>2, <1>5, <2>1
  <1>10. \A o \in m.ended : \A row \in ToSet(PageRows(o)) : <<o, row>> \in m.shown
    <2>1. ASSUME NEW o \in n.ended, NEW row \in ToSet(PageRows(o))
          PROVE  <<o, row>> \in m.shown
      BY <1>3, <2>1 DEF NavigationFits, PagesShown
    <2>2. ASSUME next = {}
          PROVE  \A row \in ToSet(PageRows(op)) : <<op, row>> \in m.shown
      BY <1>9, <2>2 DEF all
    <2> HIDE DEF next
    <2>3. \A o \in m.ended : o \in n.ended \/ (o = op /\ next = {})
      BY <1>3
    <2> QED  BY <2>1, <2>2, <2>3
  <1>11. ReadsFitIn(m)
    BY <1>3 DEF NavigationFits, ReadsFitIn
  <1> QED  BY <1>3, <1>8, <1>10, <1>11 DEF NavigationFits, PagesShown, m

\* A row that may be read is native, new and fits.
LEMMA ReadKeeps ==
    ASSUME NEW n, NavigationFits(n), NEW i
    PROVE  NavigationFits(Read(n, i))
  <1> DEFINE m == Read(n, i)
             r == Native[i].rec
  <1>0. Plain(n) /\ PagesShown(n) /\ ReadsFitIn(n)
    BY DEF NavigationFits
  <1>1. /\ Plain(m) /\ m.known = n.known /\ m.fresh = n.fresh /\ m.shown = n.shown
        /\ m.ended = n.ended /\ m.budget = n.budget
        /\ m.records = IF MayRead(n, i) THEN Append(n.records, r) ELSE n.records
    <2>1. CASE MayRead(n, i)
      <3>1. m = [[n EXCEPT !.records = Append(n.records, r)] EXCEPT !.acts = n.acts + 1]
        BY <2>1 DEF Read, Acted
      <3> HIDE DEF m
      <3> QED  BY <1>0, <2>1, <3>1, Zenon DEF Plain
    <2>2. CASE ~MayRead(n, i)
      <3>1. m = [n EXCEPT !.acts = n.acts + 1]
        BY <2>2 DEF Read, Acted
      <3> HIDE DEF m
      <3> QED  BY <1>0, <2>2, <3>1, Zenon DEF Plain
    <2> QED  BY <2>1, <2>2
  <1> HIDE DEF m
  <1>2. PagesShown(m)
    BY <1>0, <1>1 DEF PagesShown, ShownTo
  <1>3. ReadsFitIn(m)
    <2>1. CASE ~MayRead(n, i)
      BY <1>0, <1>1, <2>1 DEF ReadsFitIn
    <2>2. CASE MayRead(n, i)
      <3> DEFINE s == n.records
      <3>1. /\ r \in Record /\ r \notin Dead \cup Opaque /\ r \notin ToSet(s)
            /\ Len(s) < MaxReads /\ Total(s) + Size[r] <= n.budget
        <4>1. /\ i \in Nodes /\ r \notin Opaque /\ r \notin ToSet(s)
              /\ Len(s) < MaxReads /\ Total(s) + Size[r] <= n.budget
          BY <2>2 DEF MayRead
        <4>2. i \in 1 .. Len(Native) /\ r \notin Dead
          BY <4>1, NavigationAssumption DEF Nodes
        <4>3. r \in Record
          <5> DEFINE R == [rec : Record, doc : Nat \ {0}]
          <5>1. Native \in Seq(R) /\ \A x \in R : x.rec \in Record
            BY NavigationAssumption
          <5> HIDE DEF R
          <5> QED  BY <4>2, <5>1
        <4> QED  BY <4>1, <4>2, <4>3
      <3>2. /\ s \in Seq(Record) /\ n.budget \in Nat /\ Len(s) \in Nat /\ MaxReads \in Nat
            /\ \A k \in 1 .. Len(s) : s[k] \notin Dead \cup Opaque
            /\ \A k, l \in 1 .. Len(s) : s[k] = s[l] => k = l
        BY <1>0, NavigationAssumption DEF ReadsFitIn
      <3>3. m.records = More(s, r) /\ m.budget = n.budget
        BY <1>1, <2>2 DEF More
      <3> HIDE DEF s, r
      <3>4. /\ Len(More(s, r)) = Len(s) + 1 /\ More(s, r)[Len(s) + 1] = r
            /\ \A k \in 1 .. Len(s) : More(s, r)[k] = s[k]
        BY <3>1, <3>2, OneLonger
      <3>5. More(s, r) \in Seq(Record) /\ Total(More(s, r)) = Total(s) + Size[r]
        BY <3>1, <3>2, TotalOfMore DEF More
      <3>6. \A k \in 1 .. Len(s) : s[k] # r
        BY <3>1, <3>2 DEF ToSet
      <3>7. \A k \in 1 .. Len(s) + 1 : k \in 1 .. Len(s) \/ k = Len(s) + 1
        BY <3>2
      <3>8. \A k \in 1 .. Len(s) + 1 : More(s, r)[k] \notin Dead \cup Opaque
        BY <3>1, <3>2, <3>4, <3>7
      <3>9. \A k, l \in 1 .. Len(s) + 1 : More(s, r)[k] = More(s, r)[l] => k = l
        BY <3>2, <3>4, <3>6, <3>7
      <3>10. Len(s) + 1 <= MaxReads
        BY <3>1, <3>2
      <3> QED  BY <3>1, <3>2, <3>3, <3>4, <3>5, <3>8, <3>9, <3>10 DEF ReadsFitIn
    <2> QED  BY <2>1, <2>2
  <1> QED  BY <1>1, <1>2, <1>3 DEF NavigationFits, m

LEMMA LearnedKeeps ==
    ASSUME NEW n, NavigationFits(n)
    PROVE  NavigationFits(Learned(n))
  <1> DEFINE m == Learned(n)
  <1>1. /\ Plain(m) /\ m.known.cursors = n.known.cursors \cup n.fresh.cursors
        /\ m.fresh.cursors = {} /\ m.shown = n.shown /\ m.ended = n.ended
        /\ m.records = n.records /\ m.budget = n.budget
    <2>1. m = [[n EXCEPT !.known = Both(n.known, n.fresh)] EXCEPT !.fresh = NothingKnown]
      BY DEF Learned
    <2>2. Plain(n)
      BY DEF NavigationFits
    <2>3. /\ Both(n.known, n.fresh).cursors = n.known.cursors \cup n.fresh.cursors
          /\ NothingKnown.cursors = {}
      BY DEF Both, NothingKnown
    <2> HIDE DEF m
    <2> QED  BY <2>1, <2>2, <2>3, Zenon DEF Plain
  <1> HIDE DEF m
  <1>2. PagesShown(m)
    BY <1>1 DEF NavigationFits, PagesShown, ShownTo
  <1>3. ReadsFitIn(m)
    BY <1>1 DEF NavigationFits, ReadsFitIn
  <1> QED  BY <1>1, <1>2, <1>3 DEF NavigationFits, m

LEMMA ChangedIs ==
    ASSUME NEW n, Plain(n), NEW a, NEW b, NEW c,
           NEW m, m = [n EXCEPT !.stop = a] \/ m = [n EXCEPT !.acts = b] \/ m = [n EXCEPT !.step = c]
    PROVE  /\ Plain(m) /\ m.known = n.known /\ m.fresh = n.fresh /\ m.shown = n.shown
           /\ m.ended = n.ended /\ m.records = n.records /\ m.budget = n.budget
  BY Zenon DEF Plain

\* What is counted, and why a navigation ended, do not matter.
LEMMA CountedKeeps ==
    ASSUME NEW n, NavigationFits(n), NEW m, Plain(m),
           m.known = n.known, m.fresh = n.fresh, m.shown = n.shown, m.ended = n.ended,
           m.records = n.records, m.budget = n.budget
    PROVE  NavigationFits(m)
  BY DEF NavigationFits, PagesShown, ShownTo, ReadsFitIn

Stopped(n, why) == [n EXCEPT !.stop = why]

LEMMA StoppedKeeps ==
    ASSUME NEW n, Plain(n), NEW why, NEW m, m = Stopped(n, why)
    PROVE  /\ Plain(m) /\ m.known = n.known /\ m.fresh = n.fresh /\ m.shown = n.shown
           /\ m.ended = n.ended /\ m.records = n.records /\ m.budget = n.budget
  BY ChangedIs DEF Stopped

LEMMA OpenedFits ==
    ASSUME NEW query, NEW budget \in Nat
    PROVE  NavigationFits(Opened(query, budget))
  <1> DEFINE none == "none"
             why == "empty-scope-or-budget"
             blank == [known |-> NothingKnown, fresh |-> NothingKnown, shown |-> {},
                       ended |-> {}, records |-> <<>>, budget |-> budget,
                       step |-> 0, acts |-> 0, stop |-> none]
             shut == [blank EXCEPT !.stop = why]
             first == Paged(blank, Listing, NoCursor, FirstPage)
             second == Paged(first, Search(query, 0), NoCursor, FirstPage)
  <1>1. \/ Opened(query, budget) = shut
        \/ Opened(query, budget) = Learned(second)
    BY DEF Opened
  <1> HIDE DEF none, why
  <1>2. /\ Plain(blank) /\ Plain(shut)
        /\ blank.known = NothingKnown /\ blank.fresh = NothingKnown /\ blank.shown = {}
        /\ blank.ended = {} /\ blank.records = <<>> /\ blank.budget = budget
        /\ shut.known = blank.known /\ shut.fresh = blank.fresh /\ shut.shown = blank.shown
        /\ shut.ended = blank.ended /\ shut.records = blank.records /\ shut.budget = blank.budget
    <2>1. /\ Plain(blank)
          /\ blank.known = NothingKnown /\ blank.fresh = NothingKnown /\ blank.shown = {}
          /\ blank.ended = {} /\ blank.records = <<>> /\ blank.budget = budget
      BY DEF Plain
    <2>2. shut = Stopped(blank, why)
      BY DEF Stopped
    <2> HIDE DEF blank, shut
    <2>3. /\ Plain(shut) /\ shut.known = blank.known /\ shut.fresh = blank.fresh
          /\ shut.shown = blank.shown /\ shut.ended = blank.ended
          /\ shut.records = blank.records /\ shut.budget = blank.budget
      BY <2>1, <2>2, StoppedKeeps
    <2> QED  BY <2>1, <2>3
  <1> HIDE DEF blank, shut
  <1>3. NavigationFits(blank)
    <2>1. PagesShown(blank)
      BY <1>2 DEF PagesShown, NothingKnown
    <2>2. ReadsFitIn(blank)
      <3>1. /\ <<>> \in Seq(Record) /\ Len(<<>>) = 0 /\ MaxReads \in Nat
        BY NavigationAssumption
      <3>2. Total(<<>>) = 0
        BY TotalOfNone
      <3>3. \A i \in 1 .. 0 : FALSE
        OBVIOUS
      <3> QED  BY <1>2, <3>1, <3>2, <3>3 DEF ReadsFitIn
    <2> QED  BY <1>2, <2>1, <2>2 DEF NavigationFits
  <1>4. NavigationFits(shut)
    BY <1>2, <1>3, CountedKeeps
  <1>5. /\ Listing.tool \in Tools /\ Search(query, 0).tool \in Tools
        /\ NoCursor.offset = 0 /\ FirstPage \in Nat
    BY NavigationAssumption DEF Listing, Search, NoCursor, Cursor, Tools
  <1>6. ASSUME NEW op, op.tool \in Tools
        PROVE  0 \in 0 .. Len(PageRows(op))
    <2>1. PICK X : PageRows(op) \in Seq(X)
      BY <1>6, PagesAreLists
    <2>2. Len(PageRows(op)) \in Nat
      BY <2>1
    <2> QED  BY <2>2
  <1>7. NavigationFits(first)
    <2>1. NoCursor.offset \in 0 .. Len(PageRows(Listing))
      BY <1>5, <1>6
    <2> QED  BY <1>3, <1>5, <2>1, PagedKeeps
  <1> HIDE DEF first
  <1>8. NavigationFits(second)
    <2>1. NoCursor.offset \in 0 .. Len(PageRows(Search(query, 0)))
      BY <1>5, <1>6
    <2> QED  BY <1>5, <1>7, <2>1, PagedKeeps
  <1> HIDE DEF second
  <1> QED  BY <1>1, <1>4, <1>8, LearnedKeeps

LEMMA BrowsedFits ==
    ASSUME NEW n, NavigationFits(n), NEW asked, NEW op \in Callable(n, asked),
           NEW cursor \in {NoCursor} \cup n.known.cursors, NEW limit \in Nat
    PROVE  NavigationFits(Browsed(n, op, cursor, limit))
  <1> DEFINE p == IF Pageable(op, cursor) THEN Paged(n, op, cursor, limit) ELSE n
             m == Browsed(n, op, cursor, limit)
  <1>1. op.tool \in Tools
    BY DEF Callable, Listing, Outline, Search, Tools
  <1>2. NavigationFits(p)
    <2>1. CASE ~Pageable(op, cursor)
      BY <2>1
    <2>2. CASE Pageable(op, cursor)
      <3>1. PICK X : PageRows(op) \in Seq(X)
        BY <1>1, PagesAreLists
      <3>2. Len(PageRows(op)) \in Nat
        BY <3>1
      <3>3. CASE cursor = NoCursor
        <4>1. cursor.offset = 0
          BY <3>3 DEF NoCursor, Cursor
        <4>2. cursor.offset \in 0 .. Len(PageRows(op))
          BY <3>2, <4>1
        <4> QED  BY <1>1, <2>2, <4>1, <4>2, PagedKeeps
      <3>4. CASE cursor # NoCursor
        <4>1. /\ cursor \in n.known.cursors /\ cursor.op = op
              /\ 0 < cursor.offset /\ cursor.offset < Len(PageRows(op))
          BY <2>2, <3>4 DEF Pageable, CursorFits
        <4>2. cursor.offset \in Nat
          BY <4>1 DEF NavigationFits, PagesShown, ShownTo
        <4>3. cursor.offset \in 0 .. Len(PageRows(op))
          BY <3>2, <4>1, <4>2
        <4> QED  BY <1>1, <2>2, <4>1, <4>3, PagedKeeps
      <3> QED  BY <3>3, <3>4
    <2> QED  BY <2>1, <2>2
  <1>3. m = [p EXCEPT !.acts = n.acts + 1]
    BY DEF Browsed, Acted
  <1> HIDE DEF p, m
  <1>4. /\ Plain(m) /\ m.known = p.known /\ m.fresh = p.fresh /\ m.shown = p.shown
        /\ m.ended = p.ended /\ m.records = p.records /\ m.budget = p.budget
    <2>1. Plain(p)
      BY <1>2 DEF NavigationFits
    <2> QED  BY <1>3, <2>1, ChangedIs
  <1>5. NavigationFits(m)
    BY <1>2, <1>4, CountedKeeps
  <1> QED  BY <1>5 DEF m

LEMMA EndedFits ==
    ASSUME NEW n, NavigationFits(n)
    PROVE  NavigationFits(Finished(n)) /\ NavigationFits(Broken(n)) /\ NavigationFits(Turned(n))
  <1>1. ASSUME NEW l, NavigationFits(l), NEW v, NEW m,
               m = [l EXCEPT !.stop = v] \/ m = [l EXCEPT !.acts = v] \/ m = [l EXCEPT !.step = v]
        PROVE  NavigationFits(m)
    <2>1. Plain(l)
      BY <1>1 DEF NavigationFits
    <2>2. /\ Plain(m) /\ m.known = l.known /\ m.fresh = l.fresh /\ m.shown = l.shown
          /\ m.ended = l.ended /\ m.records = l.records /\ m.budget = l.budget
      BY <1>1, <2>1, ChangedIs
    <2> QED  BY <1>1, <2>2, CountedKeeps
  <1>2. NavigationFits(Finished(n)) /\ NavigationFits(Broken(n))
    BY <1>1 DEF Finished, Broken
  <1>3. NavigationFits(Turned(n))
    <2> DEFINE l == Learned(n)
               l1 == [l EXCEPT !.step = l.step + 1]
               l2 == [l1 EXCEPT !.acts = 0]
               v == IF n.step + 1 = MaxSteps THEN "step-limit" ELSE "none"
    <2>1. Turned(n) = [l2 EXCEPT !.stop = v]
      BY DEF Turned
    <2>2. NavigationFits(l)
      BY LearnedKeeps
    <2> HIDE DEF l, v
    <2>3. NavigationFits(l1)
      BY <1>1, <2>2
    <2> HIDE DEF l1
    <2>4. NavigationFits(l2)
      BY <1>1, <2>3
    <2> HIDE DEF l2
    <2> QED  BY <1>1, <2>1, <2>4
  <1> QED  BY <1>2, <1>3

\* What a navigation read stands in front of any candidates when packed.
LEMMA NavigationIs ==
    ASSUME NEW n, NavigationFits(n)
    PROVE  /\ Len(n.records) <= MaxReads
           /\ \A more \in Lists :
                  SubSeq(Recs(Admission(n.records \o more, n.budget, <<>>).kept), 1,
                         Len(n.records)) = n.records
           /\ \A op \in n.ended : \A row \in ToSet(PageRows(op)) : <<op, row>> \in n.shown
  <1> DEFINE s == n.records
  <1>1. /\ s \in Seq(Record) /\ n.budget \in Nat
        /\ \A i \in 1 .. Len(s) : s[i] \notin Dead \cup Opaque
        /\ \A i, j \in 1 .. Len(s) : s[i] = s[j] => i = j
        /\ Len(s) <= MaxReads /\ Total(s) <= n.budget
    BY DEF NavigationFits, ReadsFitIn
  <1> HIDE DEF s
  <1>2. ASSUME NEW more \in Lists
        PROVE  SubSeq(Recs(Admission(s \o more, n.budget, <<>>).kept), 1, Len(s)) = s
    <2> DEFINE items == s \o more
    <2>1. more \in Seq(Record)
      BY AlgorithmsAssumption
    <2>2. /\ items \in Seq(Record) /\ Len(s) <= Len(items)
          /\ \A i \in 1 .. Len(s) : items[i] = s[i]
      BY <1>1, <2>1
    <2>3. <<>> \in Seq(Record) /\ NoTwice(<<>>)
      BY DEF NoTwice
    <2> HIDE DEF items
    <2>4. SubSeq(Recs(Admission(items, n.budget, <<>>).kept), 1, Len(s)) = s
      BY <1>1, <2>2, <2>3, FirstComeFirst
    <2> QED  BY <2>4 DEF items
  <1>3. \A op \in n.ended : \A row \in ToSet(PageRows(op)) : <<op, row>> \in n.shown
    BY DEF NavigationFits, PagesShown
  <1> QED  BY <1>1, <1>2, <1>3 DEF s

\* A navigation has shown what its cursors and ended calls stand for, and
\* what it read fits.
Travelled == case.of = "navigation" => NavigationFits(case.nav)

\* The cases of the other algorithms are no navigations.
LEMMA Elsewhere ==
    ASSUME Step, ~Navigate, ~(Browse \/ ReadRow \/ Finish \/ EndTurn \/ Break)
    PROVE  case'.of # "navigation"
  <1>1. CASE Write
    BY <1>1 DEF Write
  <1>2. CASE Verify
    BY <1>2 DEF Verify
  <1>3. CASE Promote \/ PromoteForCoverage
    BY <1>3 DEF Promote, PromoteForCoverage
  <1>4. CASE WriteDraft \/ Assess
    BY <1>4 DEF WriteDraft, Assess
  <1>5. CASE AskRepair \/ RepairDraft
    BY <1>5 DEF AskRepair, RepairDraft
  <1>6. CASE Converse
    BY <1>6 DEF Converse
  <1>7. CASE ReadEvidence
    BY <1>7 DEF ReadEvidence
  <1>8. CASE CutTable
    BY <1>8 DEF CutTable
  <1>9. CASE CutFile
    BY <1>9 DEF CutFile
  <1> QED  BY <1>1, <1>2, <1>3, <1>4, <1>5, <1>6, <1>7, <1>8, <1>9 DEF Step

LEMMA TravelledStep ==
    ASSUME Shape, Travelled, [Step]_case
    PROVE  Travelled'
  <1>1. CASE Navigate
    <2>1. PICK query \in DOMAIN Terms, b \in Budgets :
              case' = [of |-> "navigation", nav |-> Opened(query, b)]
      BY <1>1 DEF Navigate
    <2>2. NavigationFits(Opened(query, b))
      BY OpenedFits, AlgorithmsAssumption
    <2>3. case'.nav = Opened(query, b)
      BY <2>1
    <2> QED  BY <2>2, <2>3 DEF Travelled
  <1>2. CASE Browse \/ ReadRow \/ Finish \/ EndTurn \/ Break
    <2>1. case.of = "navigation" /\ NavigationFits(case.nav)
      BY <1>2 DEF Browse, ReadRow, Finish, EndTurn, Break, Navigating, Travelled
    <2>2. \E trip : NavigationFits(trip) /\ case' = [case EXCEPT !.nav = trip]
      <3>1. CASE Browse
        <4>1. PICK op \in Callable(case.nav, DOMAIN Terms) :
                  \E limit \in Limits, cursor \in {NoCursor} \cup case.nav.known.cursors :
                      case' = [case EXCEPT !.nav = Browsed(case.nav, op, cursor, limit)]
          BY <3>1 DEF Browse
        <4>2. PICK limit \in Limits, cursor \in {NoCursor} \cup case.nav.known.cursors :
                  case' = [case EXCEPT !.nav = Browsed(case.nav, op, cursor, limit)]
          BY <4>1
        <4>3. limit \in Nat
          BY AlgorithmsAssumption
        <4>4. NavigationFits(Browsed(case.nav, op, cursor, limit))
          BY <2>1, <4>3, BrowsedFits
        <4> QED  BY <4>2, <4>4
      <3>2. CASE ReadRow
        <4>1. PICK i : case' = [case EXCEPT !.nav = Read(case.nav, i)]
          BY <3>2 DEF ReadRow
        <4>2. NavigationFits(Read(case.nav, i))
          BY <2>1, ReadKeeps
        <4> QED  BY <4>1, <4>2
      <3>3. CASE Finish
        BY <2>1, <3>3, EndedFits DEF Finish
      <3>4. CASE EndTurn
        BY <2>1, <3>4, EndedFits DEF EndTurn
      <3>5. CASE Break
        BY <2>1, <3>5, EndedFits DEF Break
      <3> QED  BY <1>2, <3>1, <3>2, <3>3, <3>4, <3>5
    <2>3. PICK trip : NavigationFits(trip) /\ case' = [case EXCEPT !.nav = trip]
      BY <2>2
    <2>4. case' = [of |-> "navigation", nav |-> trip]
      BY <2>1, <2>3, NavStep DEF Shape
    <2>5. case'.nav = trip
      BY <2>4
    <2> QED  BY <2>3, <2>5 DEF Travelled
  <1>3. CASE UNCHANGED case
    BY <1>3 DEF Travelled
  <1>4. CASE Step /\ ~Navigate /\ ~(Browse \/ ReadRow \/ Finish \/ EndTurn \/ Break)
    BY <1>4, Elsewhere DEF Travelled
  <1> QED  BY <1>1, <1>2, <1>3, <1>4

LEMMA TravelsFit ==
    Cases => [](Shape /\ Travelled)
  <1>1. NoCase => Travelled
    BY DEF NoCase, Travelled
  <1>2. Shape /\ Travelled /\ [Step]_case => Travelled'
    BY TravelledStep
  <1> QED  BY <1>1, <1>2, ShapeIsKept, PTL DEF Cases

\* A reading is made by one call of the reader, for evidence without limits.
ReadingShape ==
    case.of = "reading" =>
        \E items, asked, cards : \E none \in {FALSE} :
            case.made = ReadingOf(items, none,
                                  [snapshot |-> Snapshot(asked, none), cards |-> cards])

LEMMA ReadingShapeStep == Shape /\ ReadingShape /\ [Step]_case => ReadingShape'
  <1> SUFFICES ASSUME Shape, ReadingShape, [Step]_case
               PROVE  ReadingShape'
    OBVIOUS
  <1>1. CASE ReadEvidence
    <2>1. PICK items \in Bundles, asked \in Bundles, now \in Bundles, cards \in Cards,
               capped \in BOOLEAN :
              case' = [of |-> "reading", now |-> now, limits |-> capped,
                       made |-> ReadingOf(items, FALSE,
                                          [snapshot |-> Snapshot(asked, FALSE),
                                           cards |-> cards])]
      BY <1>1 DEF ReadEvidence
    <2>2. case'.made = ReadingOf(items, FALSE, [snapshot |-> Snapshot(asked, FALSE),
                                                cards |-> cards])
      BY <2>1
    <2> QED  BY <2>2 DEF ReadingShape
  <1>2. CASE UNCHANGED case
    BY <1>2 DEF ReadingShape
  <1>3. CASE Step /\ ~ReadEvidence
    <2>1. case'.of # "reading"
      <3>1. CASE Write \/ Verify
        BY <3>1 DEF Write, Verify
      <3>2. CASE Promote \/ PromoteForCoverage
        BY <3>2 DEF Promote, PromoteForCoverage
      <3>3. CASE WriteDraft \/ Assess
        BY <3>3 DEF WriteDraft, Assess
      <3>4. CASE AskRepair \/ RepairDraft
        BY <3>4 DEF AskRepair, RepairDraft
      <3>5. CASE Navigate
        BY <3>5 DEF Navigate
      <3>6. CASE Browse \/ ReadRow \/ Finish \/ EndTurn \/ Break
        <4>1. /\ case.of = "navigation"
              /\ \E trip : case' = [case EXCEPT !.nav = trip]
          BY <3>6 DEF Browse, ReadRow, Finish, EndTurn, Break, Navigating
        <4>2. PICK trip : case' = [of |-> "navigation", nav |-> trip]
          BY <4>1, NavStep DEF Shape
        <4> QED  BY <4>2
      <3>7. CASE Converse
        BY <3>7 DEF Converse
      <3>8. CASE CutTable
        BY <3>8 DEF CutTable
      <3>9. CASE CutFile
        BY <3>9 DEF CutFile
      <3> QED  BY <1>3, <3>1, <3>2, <3>3, <3>4, <3>5, <3>6, <3>7, <3>8, <3>9 DEF Step
    <2> QED  BY <2>1 DEF ReadingShape
  <1> QED  BY <1>1, <1>2, <1>3

\* What is quoted of evidence, by cards that fit it, and what follows for it.
Vetted(items, cards, quotes) ==
    /\ quotes = {<<id, Quote(items, id)>> : id \in Quoted(cards)}
    /\ \A n \in DOMAIN cards : CardFits(items, cards, n)
Truthful(items, cards, quotes) ==
    /\ \A q \in quotes : \E n \in ToSet(items) : n.eid = q[1][1] /\ n.rec = q[2][1]
    /\ \A card \in ToSet(cards) : \A g \in ToSet(card.groups) :
           Cardinality({Revision[q[2][1]] : q \in {x \in quotes : x[1] \in g}}) = 1

LEMMA AssessedIs ==
    ASSUME NEW items, NEW capped, NEW response, NEW made,
           made = ReadingOf(items, capped, response), made.assessed = TRUE
    PROVE  /\ response.snapshot = Snapshot(items, capped)
           /\ made.of = response.snapshot /\ made.cards = response.cards
           /\ Vetted(items, made.cards, made.quotes)
  BY DEF ReadingOf, NotRead, Vetted

LEMMA StandingIs ==
    ASSUME NEW items, NEW asked, NEW cards, NEW made, NEW none \in {FALSE},
           made = ReadingOf(items, none, [snapshot |-> Snapshot(asked, none),
                                           cards |-> cards]),
           NEW now, NEW capped, Stands(made, now, capped)
    PROVE  /\ capped = FALSE
           /\ Vetted(now, made.cards, made.quotes)
  <1>1. made.assessed = TRUE
    BY DEF Stands, ReadingOf, NotRead
  <1>2. made.of = Snapshot(asked, none)
    <2> DEFINE response == [snapshot |-> Snapshot(asked, none), cards |-> cards]
    <2>1. response.snapshot = Snapshot(asked, none)
      OBVIOUS
    <2>2. made = ReadingOf(items, none, response)
      OBVIOUS
    <2> HIDE DEF response
    <2> QED  BY <1>1, <2>1, <2>2, AssessedIs
  <1> DEFINE again == [snapshot |-> made.of, cards |-> made.cards]
  <1>3. again.snapshot = made.of /\ again.cards = made.cards
    OBVIOUS
  <1>4. made = ReadingOf(now, capped, again)
    BY DEF Stands
  <1> HIDE DEF again
  <1>5. /\ again.snapshot = Snapshot(now, capped)
        /\ Vetted(now, made.cards, made.quotes)
    BY <1>1, <1>4, AssessedIs
  <1>6. Snapshot(now, capped).limits = capped /\ Snapshot(asked, none).limits = none
    BY DEF Snapshot
  <1>7. capped = FALSE
    BY <1>2, <1>3, <1>5, <1>6
  <1> QED  BY <1>3, <1>5, <1>7

\* The quotes of a reading that stands are passages of the evidence given now.
LEMMA QuotesAreNow ==
    ASSUME NEW cards, NEW now, NEW quotes, Vetted(now, cards, quotes)
    PROVE  Truthful(now, cards, quotes)
  <1>0. /\ quotes = {<<id, Quote(now, id)>> : id \in Quoted(cards)}
        /\ \A n \in DOMAIN cards : CardFits(now, cards, n)
    BY DEF Vetted
  <1>1. \A card \in ToSet(cards) : \A g \in ToSet(card.groups) : GroupFits(now, g)
    <2>1. \A card \in ToSet(cards) : \E n \in DOMAIN cards : card = cards[n]
      BY DEF ToSet
    <2> QED  BY <1>0, <2>1 DEF CardFits
  <1>2. \A id \in Quoted(cards) : id \in Offered(now)
    <2>1. \A id \in Quoted(cards) : \E card \in ToSet(cards) : id \in UNION ToSet(card.groups)
      BY DEF Quoted
    <2>2. \A id \in Quoted(cards) : \E card \in ToSet(cards) : \E g \in ToSet(card.groups) : id \in g
      BY <2>1
    <2> QED  BY <1>1, <2>2 DEF GroupFits
  <1>3. ASSUME NEW id \in Quoted(cards)
        PROVE  \E n \in ToSet(now) : n.eid = id[1] /\ n.rec = RecordOf(now, id)
    <2>1. PICK n \in ToSet(now) : id \in {<<n.eid, p>> : p \in 1 .. Parts[n.rec]}
      BY <1>2 DEF Offered
    <2>2. n.eid = id[1]
      BY <2>1
    <2> DEFINE m == CHOOSE m \in ToSet(now) : m.eid = id[1]
    <2>3. m \in ToSet(now) /\ m.eid = id[1]
      BY <2>2
    <2>4. RecordOf(now, id) = m.rec
      BY DEF RecordOf
    <2> HIDE DEF m
    <2> QED  BY <2>3, <2>4
  <1>4. ASSUME NEW q \in quotes
        PROVE  \E id \in Quoted(cards) : q[1] = id /\ q[2][1] = RecordOf(now, id)
    <2>1. PICK id \in Quoted(cards) : q = <<id, Quote(now, id)>>
      BY <1>0
    <2>2. q[1] = id /\ q[2] = Quote(now, id)
      BY <2>1
    <2>3. Quote(now, id)[1] = RecordOf(now, id)
      BY DEF Quote
    <2> QED  BY <2>2, <2>3
  <1>5. \A q \in quotes : \E n \in ToSet(now) : n.eid = q[1][1] /\ n.rec = q[2][1]
    BY <1>3, <1>4
  <1>6. ASSUME NEW card \in ToSet(cards), NEW g \in ToSet(card.groups)
        PROVE  Cardinality({Revision[q[2][1]] : q \in {x \in quotes : x[1] \in g}}) = 1
    <2>1. g \subseteq Quoted(cards)
      BY DEF Quoted
    <2> DEFINE ours == {x \in quotes : x[1] \in g}
               revisions == {Revision[RecordOf(now, id)] : id \in g}
    <2>2. \A q \in ours : q[1] \in g /\ q[2][1] = RecordOf(now, q[1])
      BY <1>4
    <2>3. ASSUME NEW id \in g
          PROVE  \E q \in ours : q[2][1] = RecordOf(now, id)
      <3> DEFINE q == <<id, Quote(now, id)>>
      <3>1. q \in quotes
        BY <1>0, <2>1
      <3>2. q[1] = id /\ q[2] = Quote(now, id)
        OBVIOUS
      <3>3. Quote(now, id)[1] = RecordOf(now, id)
        BY DEF Quote
      <3> HIDE DEF q
      <3>4. q \in ours
        BY <3>1, <3>2
      <3> HIDE DEF ours
      <3> QED  BY <3>2, <3>3, <3>4
    <2> HIDE DEF ours
    <2>4. {Revision[q[2][1]] : q \in ours} = revisions
      <3>1. ASSUME NEW x \in {Revision[q[2][1]] : q \in ours}
            PROVE  x \in revisions
        <4>1. PICK q \in ours : x = Revision[q[2][1]]
          BY <3>1
        <4> QED  BY <2>2, <4>1
      <3>2. ASSUME NEW x \in revisions
            PROVE  x \in {Revision[q[2][1]] : q \in ours}
        <4>1. PICK id \in g : x = Revision[RecordOf(now, id)]
          BY <3>2
        <4>2. PICK q \in ours : q[2][1] = RecordOf(now, id)
          BY <2>3
        <4> QED  BY <4>1, <4>2
      <3> QED  BY <3>1, <3>2
    <2>5. Cardinality(revisions) = 1
      BY <1>1 DEF GroupFits
    <2> HIDE DEF revisions
    <2>6. Cardinality({Revision[q[2][1]] : q \in ours}) = 1
      BY <2>4, <2>5
    <2> QED  BY <2>6 DEF ours
  <1> QED  BY <1>5, <1>6 DEF Truthful

LEMMA ReadingIs == ReadingShape => ReadingIsOfEvidence
  <1> SUFFICES ASSUME ReadingShape, case.of = "reading"
               PROVE  ReadingIsOfEvidence
    BY DEF ReadingIsOfEvidence
  <1> DEFINE made == case.made
             now == case.now
             capped == case.limits
             led == Guide(made, now, capped)
             hints == Preferences(made, now, capped)
  <1>1. CASE ~Stands(made, now, capped)
    <2>1. led = {} /\ hints = {}
      BY <1>1 DEF Guide, Preferences
    <2> QED  BY <2>1 DEF ReadingIsOfEvidence
  <1>2. CASE Stands(made, now, capped)
    <2>1. led = made.quotes
      BY <1>2 DEF Guide
    <2>2. hints \subseteq made.quotes
      BY <1>2 DEF Preferences
    <2>3. PICK items, asked, cards : \E none \in {FALSE} :
              made = ReadingOf(items, none, [snapshot |-> Snapshot(asked, none),
                                             cards |-> cards])
      BY DEF ReadingShape
    <2> HIDE DEF made, now, capped, led, hints
    <2>4. /\ capped = FALSE
          /\ Vetted(now, made.cards, made.quotes)
      BY <1>2, <2>3, StandingIs, Zenon
    <2>5. Truthful(now, made.cards, led)
      BY <2>1, <2>4, QuotesAreNow
    <2>6. hints \subseteq led /\ ~capped
      BY <2>1, <2>2, <2>4
    <2> QED  BY <2>5, <2>6, Zenon DEF ReadingIsOfEvidence, Truthful, made, now, capped, led, hints
  <1> QED  BY <1>1, <1>2

(* Whatever a model proposes while it navigates, and whatever a reader of    *)
(* the evidence answers: all records read are kept in front of any others    *)
(* when the context is packed, a call shown to its end has shown all its     *)
(* rows, and a reading guides only with passages of the evidence given now.  *)
THEOREM ReadingStaysNative == Cases => []ReadingIsNative
  <1>1. Travelled => NavigationIsWhole
    BY NavigationIs DEF Travelled, NavigationIsWhole
  <1>2. NoCase => ReadingShape
    BY DEF NoCase, ReadingShape
  <1>3. Shape /\ ReadingShape /\ [Step]_case => ReadingShape'
    BY ReadingShapeStep
  <1>4. Shape /\ Travelled /\ ReadingShape => ReadingIsNative
    BY <1>1, ReadingIs DEF ReadingIsNative
  <1> QED  BY <1>2, <1>3, <1>4, TravelsFit, PTL DEF Cases

-----------------------------------------------------------------------------
(***************************************************************************)
(* What a question means in its chat.                                      *)
(***************************************************************************)

\* What can have been understood.
Meaning == [subject : Nat, constraints : SUBSET Nat, styles : SUBSET Nat,
            only : SUBSET Topic, without : SUBSET Topic]

\* The topics that a turn from s to k excluded and none since asked for again.
Barred(said, turns, s, k) ==
    {t \in Topic : \E i \in turns :
        /\ s <= i /\ i <= k /\ t \in said[i].without
        /\ \A j \in turns : i < j /\ j <= k => t \notin Reopened(said[j])}

Raised(said, turns, k) == {i \in turns : i <= k /\ ~said[i].follow}

\* After k places, the subject is the last one raised, and what is barred is
\* what was excluded since; no condition that is kept bars anything else.
Follows(acc, said, turns, k) ==
    \/ Raised(said, turns, k) = {} /\ acc.subject = 0
    \/ /\ acc.subject \in Raised(said, turns, k)
       /\ \A i \in Raised(said, turns, k) : i <= acc.subject
       /\ acc.without = Barred(said, turns, acc.subject, k)
       /\ \A c \in acc.constraints : said[c].without \subseteq acc.without

LEMMA ExtendedIs ==
    ASSUME NEW acc \in Meaning, NEW L \in Nat, NEW said \in [1 .. L -> Text],
           NEW k \in 1 .. L
    PROVE  /\ Extended(acc, said, k) \in Meaning
           /\ Extended(acc, said, k).subject = acc.subject
           /\ Extended(acc, said, k).without
                  = (acc.without \ Reopened(said[k])) \cup said[k].without
           /\ (\A c \in acc.constraints : said[c].without \subseteq acc.without) =>
                  \A c \in Extended(acc, said, k).constraints :
                      said[c].without \subseteq Extended(acc, said, k).without
  <1> DEFINE lifted == acc.without \cap Reopened(said[k])
             now == Updated(acc, said, k)
             m == Extended(acc, said, k)
             text == said[k]
  <1>1. text \in Text /\ text.only \subseteq Topic /\ text.without \subseteq Topic
    BY DEF Text
  <1>2. /\ now \in Meaning /\ now.subject = acc.subject
        /\ now.without = acc.without \ Reopened(text)
        /\ now.constraints \subseteq acc.constraints
        /\ \A c \in now.constraints : said[c].without \cap lifted = {}
    <2>1. CASE lifted = {} /\ text.only = {}
      <3>1. now = acc
        BY <2>1 DEF Updated
      <3>2. acc.without = acc.without \ Reopened(text)
        BY <2>1
      <3> QED  BY <2>1, <3>1, <3>2
    <2>2. CASE ~(lifted = {} /\ text.only = {})
      <3> DEFINE C == {c \in acc.constraints : /\ Mentions(said[c]) \cap lifted = {}
                                               /\ said[c].only = {}}
      <3>1. now = [acc EXCEPT !.constraints = C, !.only = {}, !.without = acc.without \ lifted]
        BY <2>2 DEF Updated
      <3>2. \A c \in C : said[c].without \cap lifted = {}
        BY DEF Mentions
      <3>3. C \subseteq acc.constraints
        OBVIOUS
      <3>4. acc.without \ lifted = acc.without \ Reopened(text)
        OBVIOUS
      <3> HIDE DEF C, now, lifted
      <3>5. /\ now.subject = acc.subject /\ now.constraints = C
            /\ now.without = acc.without \ lifted /\ now \in Meaning
        BY <3>1, <3>3 DEF Meaning
      <3> QED  BY <3>2, <3>3, <3>4, <3>5
    <2> QED  BY <2>1, <2>2
  <1> DEFINE styles == text.style /\ text.only \cup text.without = {}
  <1>3. /\ m \in Meaning /\ m.subject = now.subject
        /\ m.without = now.without \cup text.without
        /\ m.constraints \subseteq now.constraints \cup {k}
    <2> DEFINE C == IF styles THEN now.constraints ELSE now.constraints \cup {k}
               Y == IF styles THEN now.styles \cup {k} ELSE now.styles
    <2>1. m = [subject |-> now.subject, constraints |-> C, styles |-> Y,
               only |-> now.only \cup text.only, without |-> now.without \cup text.without]
      BY DEF Extended
    <2> HIDE DEF now
    <2>2. /\ now.subject \in Nat /\ now.constraints \subseteq Nat /\ now.styles \subseteq Nat
          /\ now.only \subseteq Topic /\ now.without \subseteq Topic
      BY <1>2 DEF Meaning
    <2>3. C \subseteq now.constraints \cup {k} /\ C \subseteq Nat /\ Y \subseteq Nat
      BY <2>2
    <2> HIDE DEF m, C, Y, text
    <2> QED  BY <1>1, <2>1, <2>2, <2>3 DEF Meaning
  <1> HIDE DEF now, m
  <1>4. ASSUME \A c \in acc.constraints : said[c].without \subseteq acc.without,
               NEW c \in m.constraints
        PROVE  said[c].without \subseteq m.without
    BY <1>2, <1>3, <1>4
  <1> QED  BY <1>2, <1>3, <1>4 DEF m

\* What is understood after each place.
Afters(said, turns) ==
    CHOOSE f : f = [k \in 0 .. Len(said) |->
        IF k = 0 THEN NoSubject
        ELSE IF k \in turns THEN HeardOne(f[k - 1], said, k)
        ELSE f[k - 1]]

LEMMA HeardOneIs ==
    ASSUME NEW acc \in Meaning, NEW L \in Nat, NEW said \in [1 .. L -> Text],
           NEW k \in 1 .. L
    PROVE  /\ HeardOne(acc, said, k) \in Meaning
           /\ ~said[k].follow => /\ HeardOne(acc, said, k).subject = k
                                 /\ HeardOne(acc, said, k).without = said[k].without
                                 /\ HeardOne(acc, said, k).constraints = {}
  <1>1. said[k].only \subseteq Topic /\ said[k].without \subseteq Topic
    BY DEF Text
  <1>2. CASE ~said[k].follow
    <2> DEFINE m == HeardOne(acc, said, k)
    <2>1. m = [subject |-> k, constraints |-> {}, styles |-> {},
               only |-> said[k].only, without |-> said[k].without]
      BY <1>2 DEF HeardOne, Begun
    <2> HIDE DEF m
    <2>3. m \in Meaning /\ m.subject = k /\ m.without = said[k].without /\ m.constraints = {}
      BY <1>1, <2>1 DEF Meaning
    <2> QED  BY <2>3 DEF m
  <1>3. CASE said[k].follow
    BY <1>3, ExtendedIs DEF HeardOne
  <1> QED  BY <1>2, <1>3

LEMMA AftersDef ==
    ASSUME NEW said \in Seq(Text), NEW turns
    PROVE  /\ Understood(said, turns) = Afters(said, turns)[Len(said)]
           /\ Afters(said, turns)[0] = NoSubject
           /\ \A k \in 1 .. Len(said) : Afters(said, turns)[k] =
                  IF k \in turns THEN HeardOne(Afters(said, turns)[k - 1], said, k)
                  ELSE Afters(said, turns)[k - 1]
           /\ \A k \in 0 .. Len(said) : Afters(said, turns)[k] \in Meaning
  <1> DEFINE L == Len(said)
             step == [x \in (1 .. L) \X Meaning |->
                         IF x[1] \in turns THEN HeardOne(x[2], said, x[1]) ELSE x[2]]
  <1>0. L \in Nat /\ said \in [1 .. L -> Text]
    OBVIOUS
  <1>1. NoSubject \in Meaning
    BY DEF NoSubject, Meaning
  <1>2. step \in [(1 .. L) \X Meaning -> Meaning]
    <2>1. \A k \in 1 .. L, acc \in Meaning : HeardOne(acc, said, k) \in Meaning
      BY <1>0, HeardOneIs
    <2> QED  BY <2>1
  <1>3. PICK f : IsLoop(f, Meaning, NoSubject, L, step)
    <2> HIDE DEF L, step
    <2> QED  BY <1>0, <1>1, <1>2, Recursion
  <1>4. ASSUME NEW k \in 1 .. L
        PROVE  f[k] = IF k \in turns THEN HeardOne(f[k - 1], said, k) ELSE f[k - 1]
    <2>1. f[k - 1] \in Meaning
      BY <1>3 DEF IsLoop
    <2>2. <<k, f[k - 1]>> \in (1 .. L) \X Meaning
      BY <2>1
    <2>3. f[k] = step[<<k, f[k - 1]>>]
      BY <1>3 DEF IsLoop
    <2> QED  BY <2>2, <2>3
  <1>5. f = [k \in 0 .. L |-> IF k = 0 THEN NoSubject
                              ELSE IF k \in turns THEN HeardOne(f[k - 1], said, k)
                              ELSE f[k - 1]]
    <2> HIDE DEF step
    <2>1. /\ f = [k \in 0 .. L |-> f[k]] /\ f[0] = NoSubject
      BY <1>3 DEF IsLoop
    <2>2. \A k \in 0 .. L : f[k] = IF k = 0 THEN NoSubject
                                   ELSE IF k \in turns THEN HeardOne(f[k - 1], said, k)
                                   ELSE f[k - 1]
      BY <1>4, <2>1
    <2> QED  BY <2>1, <2>2
  <1> DEFINE g == Afters(said, turns)
  <1>6. g = [k \in 0 .. L |-> IF k = 0 THEN NoSubject
                              ELSE IF k \in turns THEN HeardOne(g[k - 1], said, k)
                              ELSE g[k - 1]]
    BY <1>5, Zenon DEF Afters
  <1>7. Understood(said, turns) = g[Len(said)]
    BY DEF Understood, Afters
  <1> HIDE DEF g
  <1>8. /\ g[0] = NoSubject
        /\ \A k \in 1 .. L : g[k] = IF k \in turns THEN HeardOne(g[k - 1], said, k)
                                    ELSE g[k - 1]
    BY <1>0, <1>6
  <1>9. \A k \in 0 .. L : g[k] \in Meaning
    <2> DEFINE S == {k \in Nat : k <= L => g[k] \in Meaning}
    <2>1. 0 \in S
      BY <1>1, <1>8
    <2>2. ASSUME NEW k \in S
          PROVE  k + 1 \in S
      <3> SUFFICES ASSUME k + 1 <= L
                   PROVE  g[k + 1] \in Meaning
        OBVIOUS
      <3>1. k + 1 \in 1 .. L /\ (k + 1) - 1 = k /\ g[k] \in Meaning
        BY <1>0
      <3> HIDE DEF L
      <3>2. g[k + 1] = IF k + 1 \in turns THEN HeardOne(g[k], said, k + 1) ELSE g[k]
        BY <1>8, <3>1
      <3> QED  BY <1>0, <3>1, <3>2, HeardOneIs
    <2>3. S = Nat
      <3> HIDE DEF S
      <3>1. S \in SUBSET Nat
        BY DEF S
      <3> QED  BY <2>1, <2>2, <3>1, Induction
    <2> QED  BY <2>3
  <1> QED  BY <1>7, <1>8, <1>9 DEF g

LEMMA FollowsStep ==
    ASSUME NEW said \in Seq(Text), NEW turns \in SUBSET (1 .. Len(said)),
           NEW k \in 1 .. Len(said), NEW acc \in Meaning, Follows(acc, said, turns, k - 1),
           NEW next, next = IF k \in turns THEN HeardOne(acc, said, k) ELSE acc
    PROVE  Follows(next, said, turns, k)
  <1>0. Len(said) \in Nat /\ said \in [1 .. Len(said) -> Text] /\ turns \subseteq Nat
    OBVIOUS
  <1>1. CASE k \notin turns
    <2>1. next = acc /\ \A i \in turns : i <= k <=> i <= k - 1
      BY <1>0, <1>1
    <2>2. Raised(said, turns, k) = Raised(said, turns, k - 1)
      BY <2>1 DEF Raised
    <2>3. \A s : Barred(said, turns, s, k) = Barred(said, turns, s, k - 1)
      BY <2>1 DEF Barred
    <2> QED  BY <2>1, <2>2, <2>3 DEF Follows
  <1>2. CASE k \in turns /\ ~said[k].follow
    <2>1. /\ next.subject = k /\ next.without = said[k].without /\ next.constraints = {}
      BY <1>0, <1>2, HeardOneIs
    <2>2. k \in Raised(said, turns, k) /\ \A i \in Raised(said, turns, k) : i <= k
      BY <1>2 DEF Raised
    <2>3. said[k].without \subseteq Topic
      BY <1>0 DEF Text
    <2>4. Barred(said, turns, k, k) = said[k].without
      <3>1. \A i \in turns : i \in Nat /\ (k <= i /\ i <= k => i = k)
        BY <1>0
      <3>2. \A j \in turns : ~(k < j /\ j <= k)
        BY <3>1
      <3>3. \A t \in Barred(said, turns, k, k) : t \in said[k].without
        BY <3>1 DEF Barred
      <3>4. \A t \in said[k].without : t \in Barred(said, turns, k, k)
        BY <1>2, <2>3, <3>2 DEF Barred
      <3> QED  BY <3>3, <3>4
    <2> QED  BY <2>1, <2>2, <2>4 DEF Follows
  <1>3. CASE k \in turns /\ said[k].follow
    <2>1. Raised(said, turns, k) = Raised(said, turns, k - 1)
      <3>1. \A i \in turns : i <= k /\ ~said[i].follow <=> i <= k - 1 /\ ~said[i].follow
        BY <1>0, <1>3
      <3> QED  BY <3>1 DEF Raised
    <2>2. CASE acc.subject = 0
      <3>1. next = acc
        BY <1>3, <2>2 DEF HeardOne
      <3>2. 0 \notin Raised(said, turns, k - 1)
        BY DEF Raised
      <3> QED  BY <2>1, <2>2, <3>1, <3>2 DEF Follows
    <2>3. CASE acc.subject # 0
      <3> DEFINE s == acc.subject
      <3>1. /\ s \in Raised(said, turns, k - 1)
            /\ \A i \in Raised(said, turns, k - 1) : i <= s
            /\ acc.without = Barred(said, turns, s, k - 1)
            /\ \A c \in acc.constraints : said[c].without \subseteq acc.without
        BY <2>3 DEF Follows
      <3>2. next = Extended(acc, said, k)
        BY <1>3, <2>3 DEF HeardOne
      <3>3. /\ next.subject = s
            /\ next.without = (acc.without \ Reopened(said[k])) \cup said[k].without
            /\ \A c \in next.constraints : said[c].without \subseteq next.without
        BY <1>0, <3>1, <3>2, ExtendedIs
      <3>4. s \in turns /\ s <= k - 1
        BY <3>1 DEF Raised
      <3> HIDE DEF s
      <3>5. said[k].without \subseteq Topic
        BY <1>0 DEF Text
      <3>6. Barred(said, turns, s, k)
               = (Barred(said, turns, s, k - 1) \ Reopened(said[k])) \cup said[k].without
        <4> DEFINE B == Barred(said, turns, s, k)
                   A == Barred(said, turns, s, k - 1)
        <4>0. \A i \in turns : i \in Nat /\ (i <= k <=> i <= k - 1 \/ i = k)
          BY <1>0
        <4>1. ASSUME NEW t \in B
              PROVE  t \in (A \ Reopened(said[k])) \cup said[k].without
          <5>1. PICK i \in turns :
                    /\ s <= i /\ i <= k /\ t \in said[i].without
                    /\ \A j \in turns : i < j /\ j <= k => t \notin Reopened(said[j])
            BY <4>1 DEF Barred
          <5>2. CASE i = k
            BY <5>1, <5>2
          <5>3. CASE i # k
            <6>1. i < k /\ i <= k - 1
              BY <4>0, <5>1, <5>3
            <6>2. t \notin Reopened(said[k])
              BY <1>3, <5>1, <6>1
            <6>3. t \in A
              BY <4>0, <4>1, <5>1, <6>1 DEF Barred
            <6> QED  BY <6>2, <6>3
          <5> QED  BY <5>2, <5>3
        <4>2. ASSUME NEW t \in A, t \notin Reopened(said[k])
              PROVE  t \in B
          <5>1. PICK i \in turns :
                    /\ s <= i /\ i <= k - 1 /\ t \in said[i].without
                    /\ \A j \in turns : i < j /\ j <= k - 1 => t \notin Reopened(said[j])
            BY <4>2 DEF Barred
          <5>2. i <= k /\ \A j \in turns : i < j /\ j <= k => t \notin Reopened(said[j])
            BY <4>0, <4>2, <5>1
          <5>3. t \in Topic
            BY <4>2 DEF Barred
          <5> QED  BY <5>1, <5>2, <5>3 DEF Barred
        <4>3. ASSUME NEW t \in said[k].without
              PROVE  t \in B
          <5>1. s <= k /\ \A j \in turns : k < j /\ j <= k => t \notin Reopened(said[j])
            BY <1>0, <3>4
          <5>2. t \in Topic
            BY <3>5
          <5> QED  BY <1>3, <5>1, <5>2 DEF Barred
        <4> HIDE DEF A, B
        <4>4. B = (A \ Reopened(said[k])) \cup said[k].without
          BY <4>1, <4>2, <4>3
        <4> QED  BY <4>4 DEF A, B
      <3>7. next.without = Barred(said, turns, s, k)
        BY <3>1, <3>3, <3>6
      <3> QED  BY <2>1, <3>1, <3>3, <3>7 DEF Follows
    <2> QED  BY <2>2, <2>3
  <1> QED  BY <1>1, <1>2, <1>3

LEMMA UnderstoodFollows ==
    ASSUME NEW said \in Seq(Text), NEW turns \in SUBSET (1 .. Len(said))
    PROVE  /\ Understood(said, turns) \in Meaning
           /\ Follows(Understood(said, turns), said, turns, Len(said))
  <1> DEFINE L == Len(said)
             g == Afters(said, turns)
             S == {k \in Nat : k <= L => Follows(g[k], said, turns, k)}
  <1>0. L \in Nat
    OBVIOUS
  <1>1. 0 \in S
    <2>1. Raised(said, turns, 0) = {}
      <3>1. \A i \in turns : ~(i <= 0)
        OBVIOUS
      <3> QED  BY <3>1 DEF Raised
    <2>2. g[0].subject = 0
      BY AftersDef DEF NoSubject
    <2> QED  BY <2>1, <2>2 DEF Follows
  <1>2. ASSUME NEW k \in S
        PROVE  k + 1 \in S
    <2> SUFFICES ASSUME k + 1 <= L
                 PROVE  Follows(g[k + 1], said, turns, k + 1)
      OBVIOUS
    <2>1. k + 1 \in 1 .. L /\ (k + 1) - 1 = k /\ k \in 0 .. L /\ Follows(g[k], said, turns, k)
      BY <1>0
    <2>2. /\ g[k + 1] = IF k + 1 \in turns THEN HeardOne(g[(k + 1) - 1], said, k + 1)
                        ELSE g[(k + 1) - 1]
          /\ g[k] \in Meaning
      BY <2>1, AftersDef
    <2> HIDE DEF g
    <2>3. g[k + 1] = IF k + 1 \in turns THEN HeardOne(g[k], said, k + 1) ELSE g[k]
      BY <2>1, <2>2
    <2>4. Follows(g[k], said, turns, (k + 1) - 1)
      BY <2>1
    <2> QED  BY <2>1, <2>2, <2>3, <2>4, FollowsStep
  <1>3. S = Nat
    <2> HIDE DEF S
    <2>1. S \in SUBSET Nat
      BY DEF S
    <2> QED  BY <1>1, <1>2, <2>1, Induction
  <1>4. Follows(g[L], said, turns, L)
    BY <1>0, <1>3
  <1>5. Understood(said, turns) = g[L] /\ g[L] \in Meaning
    BY <1>0, AftersDef
  <1> QED  BY <1>4, <1>5

\* The turns that count for a question are the last ones before it.
LEMMA TurnsAre ==
    ASSUME NEW h \in Seq(Message), NEW place \in DOMAIN h,
           h[place].role = "user", h[place].complete,
           NEW mine, mine = Own(h, h[place].chat), \A i \in mine : i <= place
    PROVE  /\ Turns(h, h[place].chat, h[place].text) = Recent(mine \ {place})
           /\ mine \subseteq 1 .. Len(h)
  <1> DEFINE heard == Heard(h, h[place].chat)
             After(i) == {j \in mine : j > i}
             Before(i) == {j \in mine \ {place} : j > i}
  <1>1. place \in mine /\ mine \subseteq 1 .. Len(h) /\ Len(h) \in Nat /\ Window \in Nat \ {0}
    BY ConversationAssumption DEF Own
  <1>2. IsFiniteSet(mine)
    <2>1. 1 \in Int /\ Len(h) \in Int
      BY <1>1
    <2>2. IsFiniteSet(1 .. Len(h))
      BY <2>1, FS_Interval
    <2> QED  BY <1>1, <2>2, FS_Subset
  <1>3. heard = {i \in mine : Cardinality(After(i)) < Window}
    BY DEF Heard, Latest
  <1>4. place \in heard
    <2>1. After(place) = {}
      BY <1>1
    <2>2. Cardinality(After(place)) = 0
      BY <2>1, FS_EmptySet
    <2> HIDE DEF After, heard
    <2> QED  BY <1>1, <1>3, <2>2
  <1>5. Turns(h, h[place].chat, h[place].text) = heard \ {place}
    <2>1. Turns(h, h[place].chat, h[place].text)
             = {i \in heard : h[i].text = h[place].text => \E j \in heard : j > i}
      BY DEF Turns
    <2>2. \A i \in heard : i \in mine /\ i \in Nat /\ i <= place
      BY <1>1, <1>3
    <2> HIDE DEF heard
    <2>3. ~\E j \in heard : j > place
      BY <1>1, <2>2
    <2>4. \A i \in heard \ {place} : place > i
      BY <1>1, <2>2
    <2> QED  BY <1>4, <2>1, <2>3, <2>4
  <1>6. ASSUME NEW i \in mine \ {place}
        PROVE  Cardinality(After(i)) < Window <=> Cardinality(Before(i)) < Window - 1
    <2>1. After(i) = Before(i) \cup {place} /\ place \notin Before(i)
      BY <1>1
    <2>2. IsFiniteSet(Before(i))
      BY <1>2, FS_Subset
    <2> HIDE DEF After, Before
    <2>3. Cardinality(After(i)) = Cardinality(Before(i)) + 1 /\ Cardinality(Before(i)) \in Nat
      BY <2>1, <2>2, FS_AddElement, FS_CardinalityType
    <2> QED  BY <1>1, <2>3
  <1>7. Recent(mine \ {place}) = {i \in mine \ {place} : Cardinality(Before(i)) < Window - 1}
    BY DEF Recent
  <1>8. heard \ {place} = Recent(mine \ {place})
    <2> HIDE DEF After, Before, heard
    <2> QED  BY <1>3, <1>6, <1>7
  <1> QED  BY <1>1, <1>5, <1>8

\* The subject, the exclusions and the conditions of a question that follows up.
LEMMA ResolutionIs ==
    ASSUME NEW h \in Seq(Message), NEW place \in DOMAIN h,
           h[place].role = "user", h[place].complete, h[place].text.follow,
           NEW mine, mine = Own(h, h[place].chat), \A i \in mine : i <= place
    PROVE  FollowsUp(h, place, Recent(mine \ {place}),
                     Resolution(h, h[place].chat, h[place].text))
  <1> DEFINE question == h[place].text
             chat == h[place].chat
             L == Len(h) + 1
             said == [i \in 1 .. L |-> IF i \in DOMAIN h THEN h[i].text ELSE question]
             turns == Turns(h, chat, question)
             recent == Recent(mine \ {place})
             past == Understood(said, turns)
             now == Extended(past, said, L)
             r == Resolution(h, chat, question)
             raised == {i \in recent : ~h[i].text.follow}
             kept == Latest(Distinct(said, now.constraints), MaxConstraints)
  <1>1. /\ Len(h) \in Nat /\ L \in Nat /\ L \in 1 .. L /\ DOMAIN h = 1 .. Len(h)
        /\ \A i \in DOMAIN h : h[i].text \in Text
    <2>1. Len(h) \in Nat /\ DOMAIN h = 1 .. Len(h) /\ \A i \in DOMAIN h : h[i] \in Message
      OBVIOUS
    <2>2. L \in Nat /\ L \in 1 .. L
      BY <2>1
    <2>3. \A i \in DOMAIN h : h[i].text \in Text
      BY <2>1 DEF Message
    <2> HIDE DEF L
    <2> QED  BY <2>1, <2>2, <2>3
  <1>2. said \in Seq(Text) /\ Len(said) = L /\ said \in [1 .. L -> Text]
    BY <1>1
  <1>3. said[L] = question /\ \A i \in 1 .. Len(h) : said[i] = h[i].text
    BY <1>1
  <1>4. turns = recent /\ mine \subseteq 1 .. Len(h)
    BY TurnsAre
  <1>5. recent \subseteq mine \ {place}
    BY DEF Recent
  <1>6. r = IF past.subject = 0
            THEN [[mode |-> "standalone", subject |-> {question}, constraints |-> {},
                   only |-> question.only, without |-> question.without]
                      EXCEPT !.mode = "unresolved", !.subject = {}]
            ELSE [mode |-> "follow_up", subject |-> {said[past.subject]},
                  constraints |-> {said[c] : c \in kept},
                  only |-> now.only, without |-> now.without]
    <2>1. Len(said) = L
      BY <1>2
    <2>2. r = LET last == Len(said) IN
              IF past.subject = 0
              THEN [[mode |-> "standalone", subject |-> {question}, constraints |-> {},
                     only |-> question.only, without |-> question.without]
                        EXCEPT !.mode = "unresolved", !.subject = {}]
              ELSE [mode |-> "follow_up", subject |-> {said[past.subject]},
                    constraints |-> {said[c] : c \in Latest(Distinct(said,
                        Extended(past, said, last).constraints), MaxConstraints)},
                    only |-> Extended(past, said, last).only,
                    without |-> Extended(past, said, last).without]
      BY DEF Resolution
    <2> HIDE DEF past, said, turns, L, question
    <2> QED  BY <2>1, <2>2
  <1> HIDE DEF r, past, said, L, turns, recent
  <1>7. turns \in SUBSET (1 .. L)
    BY <1>1, <1>4, <1>5 DEF L
  <1>8. past \in Meaning /\ Follows(past, said, turns, L)
    BY <1>2, <1>7, UnderstoodFollows DEF past
  <1>9. /\ \A i \in recent : /\ i \in 1 .. Len(h) /\ i < place /\ i <= L /\ i < L
                             /\ said[i] = h[i].text
        /\ place \in Nat
    BY <1>1, <1>3, <1>4, <1>5 DEF L
  <1>10. Raised(said, turns, L) = raised
    BY <1>4, <1>9 DEF Raised
  <1>11. CASE raised = {}
    <2>1. past.subject = 0
      <3>1. past.subject \notin raised
        BY <1>11
      <3> QED  BY <1>8, <1>10, <3>1 DEF Follows
    <2>2. r.mode = "unresolved"
      BY <1>6, <2>1
    <2> QED  BY <1>11, <2>2 DEF FollowsUp, r, recent, chat, question
  <1>12. CASE raised # {}
    <2> DEFINE s == past.subject
               since == {i \in recent : i >= s} \cup {place}
               Again(i, t) == \/ t \in h[i].text.only
                              \/ h[i].text.only = {} /\ t \in h[i].text.also
               excluded == {t \in Topic : \E i \in since :
                              /\ t \in h[i].text.without
                              /\ \A j \in since : j > i => ~Again(j, t)}
    <2>1. /\ s \in raised /\ \A i \in raised : i <= s
          /\ past.without = Barred(said, turns, s, L)
          /\ \A c \in past.constraints : said[c].without \subseteq past.without
      BY <1>8, <1>10, <1>12 DEF Follows
    <2>2. s = Max(raised)
      <3> DEFINE m == Max(raised)
      <3>1. m \in raised /\ \A i \in raised : i <= m
        BY <2>1 DEF Max
      <3>2. s \in Nat /\ m \in Nat /\ s <= m /\ m <= s
        BY <1>9, <2>1, <3>1
      <3> HIDE DEF m, s
      <3>3. s = m
        BY <3>2
      <3> QED  BY <3>3 DEF m
    <2>3. s \in recent /\ s # 0 /\ said[s] = h[s].text /\ s \in Nat
      BY <1>9, <2>1
    <2>4. /\ r.mode = "follow_up" /\ r.subject = {h[s].text}
          /\ r.without = now.without /\ r.constraints = {said[c] : c \in kept}
      <3> HIDE DEF now, kept
      <3> QED  BY <1>6, <2>3
    <2>5. /\ now.without = (past.without \ Reopened(question)) \cup question.without
          /\ \A c \in now.constraints : said[c].without \subseteq now.without
      <3>1. L \in Nat /\ said \in [1 .. L -> Text] /\ L \in 1 .. L
        BY <1>1, <1>2
      <3> HIDE DEF question
      <3> QED  BY <1>3, <1>8, <2>1, <3>1, ExtendedIs
    <2>6. kept \subseteq now.constraints
      BY DEF Latest, Distinct
    <2> HIDE DEF now, kept
    <2>7. \A c \in r.constraints : c.without \subseteq r.without
      BY <2>4, <2>5, <2>6
    <2>8. \A i, t : Again(i, t) <=> t \in Reopened(h[i].text)
      BY DEF Reopened
    <2>9. question.without \subseteq Topic
      BY <1>1 DEF Text
    <2>10. now.without = excluded
      <3> HIDE DEF s
      <3>1. \A t : t \in past.without <=>
                /\ t \in Topic
                /\ \E i \in recent : /\ s <= i /\ t \in h[i].text.without
                                     /\ \A j \in recent : i < j => t \notin Reopened(h[j].text)
        <4>1. \A t : t \in past.without <=>
                /\ t \in Topic
                /\ \E i \in recent : /\ s <= i /\ i <= L /\ t \in said[i].without
                                     /\ \A j \in recent : i < j /\ j <= L =>
                                            t \notin Reopened(said[j])
          BY <1>4, <2>1 DEF Barred
        <4> QED  BY <1>9, <4>1
      <3>2. ASSUME NEW t \in excluded
            PROVE  t \in now.without
        <4>1. PICK i \in since : /\ t \in h[i].text.without
                                 /\ \A j \in since : j > i => ~Again(j, t)
          BY <3>2
        <4>2. CASE i = place
          BY <2>5, <4>1, <4>2
        <4>3. CASE i # place
          <5>1. i \in recent /\ i >= s /\ i < place
            BY <1>9, <4>1, <4>3
          <5>2. t \notin Reopened(question)
            BY <2>8, <4>1, <5>1
          <5>3. \A j \in recent : i < j => t \notin Reopened(h[j].text)
            <6>1. ASSUME NEW j \in recent, i < j
                  PROVE  j \in since
              <7>1. j \in Nat /\ i \in Nat /\ s \in Nat
                BY <1>9, <2>3, <5>1
              <7>2. j >= s
                BY <5>1, <6>1, <7>1
              <7> QED  BY <6>1, <7>2
            <6> QED  BY <1>9, <2>8, <4>1, <5>1, <6>1
          <5>4. s <= i
            BY <1>9, <2>3, <5>1
          <5>5. t \in past.without
            BY <3>1, <3>2, <4>1, <5>1, <5>3, <5>4
          <5> QED  BY <2>5, <5>2, <5>5
        <4> QED  BY <4>2, <4>3
      <3>3. ASSUME NEW t \in now.without
            PROVE  t \in excluded
        <4>1. CASE t \in question.without
          <5>1. \A j \in since : ~(j > place)
            BY <1>9
          <5>2. place \in since /\ t \in Topic
            BY <2>9, <4>1
          <5> QED  BY <4>1, <5>1, <5>2
        <4>2. CASE t \in past.without /\ t \notin Reopened(question)
          <5>1. PICK i \in recent :
                    /\ s <= i /\ t \in h[i].text.without
                    /\ \A j \in recent : i < j => t \notin Reopened(h[j].text)
            BY <3>1, <4>2
          <5>2. i \in since
            BY <1>9, <2>3, <5>1
          <5>3. \A j \in since : j > i => ~Again(j, t)
            <6>1. \A j \in since : j > i => t \notin Reopened(h[j].text)
              <7>1. \A j \in recent : j > i => i < j
                BY <1>9, <5>1
              <7> QED  BY <4>2, <5>1, <7>1
            <6> QED  BY <2>8, <6>1
          <5>4. t \in Topic
            BY <3>1, <4>2
          <5> QED  BY <5>1, <5>2, <5>3, <5>4
        <4> QED  BY <2>5, <3>3, <4>1, <4>2
      <3> HIDE DEF excluded
      <3> QED  BY <3>2, <3>3
    <2>11. AboutTurn(h, s, since, r)
      <3>1. r.subject = {h[s].text} /\ r.without = excluded
            /\ \A c \in r.constraints : c.without \subseteq excluded
        BY <2>4, <2>7, <2>10
      <3> HIDE DEF s, since
      <3> QED  BY <3>1 DEF AboutTurn
    <2>12. r.mode = "follow_up" /\ raised # {}
      BY <1>12, <2>4
    <2>13. AboutTurn(h, Max(raised), {i \in recent : i >= Max(raised)} \cup {place}, r)
      <3> HIDE DEF s, raised
      <3> QED  BY <2>2, <2>11
    <2> QED  BY <2>12, <2>13 DEF FollowsUp, r, recent, chat, question
  <1> QED  BY <1>11, <1>12

\* The question of a conversation is a finished message of its user.
ConversationShape ==
    case.of = "conversation" =>
        /\ case.history \in Histories /\ case.at \in DOMAIN case.history
        /\ case.history[case.at].role = "user" /\ case.history[case.at].complete

LEMMA ConversationShapeStep ==
    Shape /\ ConversationShape /\ [Step]_case => ConversationShape'
  <1> SUFFICES ASSUME Shape, ConversationShape, [Step]_case
               PROVE  ConversationShape'
    OBVIOUS
  <1>1. CASE Converse
    BY <1>1 DEF Converse, ConversationShape
  <1>2. CASE UNCHANGED case
    BY <1>2 DEF ConversationShape
  <1>3. CASE Step /\ ~Converse
    <2>1. case'.of # "conversation"
      <3>1. CASE Write \/ Verify
        BY <3>1 DEF Write, Verify
      <3>2. CASE Promote \/ PromoteForCoverage
        BY <3>2 DEF Promote, PromoteForCoverage
      <3>3. CASE WriteDraft \/ Assess
        BY <3>3 DEF WriteDraft, Assess
      <3>4. CASE AskRepair \/ RepairDraft
        BY <3>4 DEF AskRepair, RepairDraft
      <3>5. CASE Navigate
        BY <3>5 DEF Navigate
      <3>6. CASE Browse \/ ReadRow \/ Finish \/ EndTurn \/ Break
        <4>1. /\ case.of = "navigation"
              /\ \E trip : case' = [case EXCEPT !.nav = trip]
          BY <3>6 DEF Browse, ReadRow, Finish, EndTurn, Break, Navigating
        <4>2. PICK trip : case' = [of |-> "navigation", nav |-> trip]
          BY <4>1, NavStep DEF Shape
        <4> QED  BY <4>2
      <3>7. CASE ReadEvidence
        BY <3>7 DEF ReadEvidence
      <3>8. CASE CutTable
        BY <3>8 DEF CutTable
      <3>9. CASE CutFile
        BY <3>9 DEF CutFile
      <3> QED  BY <1>3, <3>1, <3>2, <3>3, <3>4, <3>5, <3>6, <3>7, <3>8, <3>9 DEF Step
    <2> QED  BY <2>1 DEF ConversationShape
  <1> QED  BY <1>1, <1>2, <1>3

(* The subject of a question that follows up is the last one the user raised *)
(* in this chat, and a topic is excluded exactly when a turn since excluded  *)
(* it and none after that asked for it again, whatever else the project's    *)
(* chats heard in between.                                                   *)
THEOREM ResolutionStaysCurrent == Cases => []ResolutionIsCurrent
  <1>1. ConversationShape => ResolutionIsCurrent
    <2> SUFFICES ASSUME ConversationShape, case.of = "conversation",
                        case.history[case.at].text.follow,
                        NEW mine, mine = Own(case.history, case.history[case.at].chat),
                        \A i \in mine : i <= case.at
                 PROVE  FollowsUp(case.history, case.at, Recent(mine \ {case.at}),
                                  Resolution(case.history, case.history[case.at].chat,
                                             case.history[case.at].text))
      BY DEF ResolutionIsCurrent, Own
    <2>1. case.history \in Seq(Message)
      BY AlgorithmsAssumption DEF ConversationShape
    <2>2. /\ case.at \in DOMAIN case.history /\ case.history[case.at].role = "user"
          /\ case.history[case.at].complete
      BY DEF ConversationShape
    <2> QED  BY <2>1, <2>2, ResolutionIs
  <1>2. NoCase => ConversationShape
    BY DEF NoCase, ConversationShape
  <1>3. Shape /\ ConversationShape /\ [Step]_case => ConversationShape'
    BY ConversationShapeStep
  <1> QED  BY <1>1, <1>2, <1>3, ShapeIsKept, PTL DEF Cases

-----------------------------------------------------------------------------
(***************************************************************************)
(* What is promoted comes first.                                           *)
(***************************************************************************)
Occurs(s, r) == {i \in DOMAIN s : s[i] = r}

LEMMA OccursOfMore ==
    ASSUME NEW s \in Seq(Record), NEW x \in Record, NEW r
    PROVE  /\ IsFiniteSet(Occurs(s, r)) /\ Cardinality(Occurs(s, r)) \in Nat
           /\ Cardinality(Occurs(More(s, x), r))
                  = IF x = r THEN Cardinality(Occurs(s, r)) + 1
                    ELSE Cardinality(Occurs(s, r))
  <1>1. /\ Len(More(s, x)) = Len(s) + 1 /\ Len(s) \in Nat
        /\ More(s, x)[Len(s) + 1] = x /\ \A i \in 1 .. Len(s) : More(s, x)[i] = s[i]
        /\ DOMAIN s = 1 .. Len(s) /\ DOMAIN More(s, x) = 1 .. Len(s) + 1
    BY OneLonger DEF More
  <1>2. IsFiniteSet(Occurs(s, r)) /\ Cardinality(Occurs(s, r)) \in Nat
    <2>1. IsFiniteSet(1 .. Len(s))
      BY <1>1, FS_Interval
    <2>2. Occurs(s, r) \in SUBSET (1 .. Len(s))
      BY <1>1 DEF Occurs
    <2>3. IsFiniteSet(Occurs(s, r))
      BY <2>1, <2>2, FS_Subset
    <2> QED  BY <2>3, FS_CardinalityType
  <1>3. Occurs(More(s, x), r) = IF x = r THEN Occurs(s, r) \cup {Len(s) + 1}
                                ELSE Occurs(s, r)
    <2>1. \A i \in 1 .. Len(s) + 1 : i \in 1 .. Len(s) \/ i = Len(s) + 1
      BY <1>1
    <2>2. 1 .. Len(s) \subseteq 1 .. Len(s) + 1 /\ Len(s) + 1 \in 1 .. Len(s) + 1
      BY <1>1
    <2> QED  BY <1>1, <2>1, <2>2 DEF Occurs
  <1>4. Len(s) + 1 \notin Occurs(s, r)
    BY <1>1 DEF Occurs
  <1>5. Cardinality(Occurs(s, r) \cup {Len(s) + 1}) = Cardinality(Occurs(s, r)) + 1
    BY <1>2, <1>4, FS_AddElement
  <1> QED  BY <1>2, <1>3, <1>5

\* The order after each of the items has been looked at.
Fronts(items, chosen) ==
    CHOOSE f : f = [n \in 0 .. Len(items) |->
                       IF n = 0 THEN [k \in DOMAIN chosen |-> items[chosen[k]]]
                       ELSE IF n \in ToSet(chosen) THEN f[n - 1]
                       ELSE Append(f[n - 1], items[n])]

LEMMA FrontsDef ==
    ASSUME NEW items \in Seq(Record), NEW chosen \in Seq(DOMAIN items)
    PROVE  /\ SelectedFirst(items, chosen) = Fronts(items, chosen)[Len(items)]
           /\ Fronts(items, chosen)[0] = [k \in DOMAIN chosen |-> items[chosen[k]]]
           /\ \A n \in 0 .. Len(items) : Fronts(items, chosen)[n] \in Seq(Record)
           /\ \A n \in 1 .. Len(items) :
                  Fronts(items, chosen)[n] =
                      IF n \in ToSet(chosen) THEN Fronts(items, chosen)[n - 1]
                      ELSE More(Fronts(items, chosen)[n - 1], items[n])
  <1> DEFINE L == Len(items)
             front == [k \in DOMAIN chosen |-> items[chosen[k]]]
             g == Fronts(items, chosen)
             step == [x \in (1 .. L) \X Seq(Record) |->
                         IF x[1] \in ToSet(chosen) THEN x[2] ELSE More(x[2], items[x[1]])]
  <1>1. L \in Nat /\ DOMAIN items = 1 .. L /\ \A n \in 1 .. L : items[n] \in Record
    OBVIOUS
  <1>2. front \in Seq(Record)
    <2>1. \A k \in 1 .. Len(chosen) : items[chosen[k]] \in Record
      OBVIOUS
    <2> QED  BY <2>1
  <1>3. step \in [(1 .. L) \X Seq(Record) -> Seq(Record)]
    <2>1. \A n \in 1 .. L, s \in Seq(Record) : More(s, items[n]) \in Seq(Record)
      BY <1>1 DEF More
    <2> QED  BY <2>1
  <1>4. PICK f : IsLoop(f, Seq(Record), front, L, step)
    <2> HIDE DEF L, step, front
    <2> QED  BY <1>1, <1>2, <1>3, Recursion
  <1>5. /\ f \in [0 .. L -> Seq(Record)] /\ f[0] = front
        /\ \A n \in 1 .. L : f[n] = IF n \in ToSet(chosen) THEN f[n - 1]
                                    ELSE More(f[n - 1], items[n])
    <2>1. ASSUME NEW n \in 1 .. L
          PROVE  /\ f[n - 1] \in Seq(Record)
                 /\ f[n] = step[<<n, f[n - 1]>>]
      <3>1. n - 1 \in 0 .. L
        BY <1>1
      <3> HIDE DEF L, step, front
      <3> QED  BY <1>4, <3>1 DEF IsLoop
    <2>2. ASSUME NEW n \in 1 .. L
          PROVE  step[<<n, f[n - 1]>>] = IF n \in ToSet(chosen) THEN f[n - 1]
                                         ELSE More(f[n - 1], items[n])
      <3>1. <<n, f[n - 1]>> \in (1 .. L) \X Seq(Record)
        BY <2>1
      <3> QED  BY <3>1
    <2> HIDE DEF step, front, L
    <2> QED  BY <1>4, <2>1, <2>2 DEF IsLoop
  <1>6. f = [n \in 0 .. L |-> IF n = 0 THEN front
                              ELSE IF n \in ToSet(chosen) THEN f[n - 1]
                              ELSE Append(f[n - 1], items[n])]
    <2> HIDE DEF front, L
    <2>1. \A n \in 0 .. L : f[n] = IF n = 0 THEN front
                              ELSE IF n \in ToSet(chosen) THEN f[n - 1]
                              ELSE Append(f[n - 1], items[n])
      <3>1. \A n \in 0 .. L : n = 0 \/ (n \in 1 .. L /\ n # 0)
        BY <1>1
      <3> QED  BY <1>5, <3>1, Zenon DEF More
    <2>2. f = [n \in 0 .. L |-> f[n]]
      BY <1>5
    <2> QED  BY <2>1, <2>2
  <1>7. g = [n \in 0 .. L |-> IF n = 0 THEN front
                              ELSE IF n \in ToSet(chosen) THEN g[n - 1]
                              ELSE Append(g[n - 1], items[n])]
    BY <1>6, Zenon DEF Fronts
  <1>8. SelectedFirst(items, chosen) = g[L]
    BY DEF SelectedFirst, Fronts
  <1> HIDE DEF front, L, g
  <1>9. g[0] = front /\ \A n \in 1 .. L : g[n] = IF n \in ToSet(chosen) THEN g[n - 1]
                                                  ELSE More(g[n - 1], items[n])
    <2>1. 0 \in 0 .. L /\ \A n \in 1 .. L : n \in 0 .. L /\ n # 0
      BY <1>1
    <2>2. \A n \in 0 .. L : g[n] = IF n = 0 THEN front
                              ELSE IF n \in ToSet(chosen) THEN g[n - 1]
                              ELSE Append(g[n - 1], items[n])
      BY <1>7
    <2> QED  BY <2>1, <2>2, Zenon DEF More
  <1>10. \A n \in 0 .. L : g[n] \in Seq(Record)
    <2> DEFINE S == {n \in Nat : n <= L => g[n] \in Seq(Record)}
    <2>1. 0 \in S
      BY <1>2, <1>9
    <2>2. ASSUME NEW n \in S
          PROVE  n + 1 \in S
      <3> SUFFICES ASSUME n + 1 <= L
                   PROVE  g[n + 1] \in Seq(Record)
        OBVIOUS
      <3>1. n + 1 \in 1 .. L /\ (n + 1) - 1 = n /\ g[n] \in Seq(Record)
        BY <1>1
      <3>2. items[n + 1] \in Record
        BY <1>1, <3>1
      <3>3. g[n + 1] = IF n + 1 \in ToSet(chosen) THEN g[n] ELSE More(g[n], items[n + 1])
        BY <1>9, <3>1
      <3>4. More(g[n], items[n + 1]) \in Seq(Record)
        BY <3>1, <3>2 DEF More
      <3> QED  BY <3>1, <3>3, <3>4
    <2> HIDE DEF S
    <2>3. S = Nat
      <3>1. S \in SUBSET Nat
        BY DEF S
      <3> QED  BY <2>1, <2>2, <3>1, Induction
    <2> QED  BY <1>1, <2>3 DEF S
  <1> QED  BY <1>8, <1>9, <1>10 DEF front, L, g
\* Positions that differ, and what stands there.
Picked(items, chosen, taken) ==
    /\ chosen \in Seq(DOMAIN items) /\ taken \in Seq(Record)
    /\ Len(taken) = Len(chosen)
    /\ \A k \in DOMAIN taken : taken[k] = items[chosen[k]]
    /\ \A j, k \in DOMAIN taken : taken[j] = taken[k] => j = k

\* The items that have their place once those up to n have been looked at.
Placed(items, chosen, r, n) ==
    {i \in DOMAIN items : items[i] = r /\ (i \in ToSet(chosen) \/ i <= n)}

LEMMA PlacedFirst ==
    ASSUME NEW items \in Seq(Record), NEW chosen, NEW taken,
           Picked(items, chosen, taken), NEW r
    PROVE  /\ IsFiniteSet(Placed(items, chosen, r, 0))
           /\ Cardinality(Occurs(taken, r)) = Cardinality(Placed(items, chosen, r, 0))
  <1> DEFINE K == Occurs(taken, r)
             P == Placed(items, chosen, r, 0)
             f == [k \in K |-> chosen[k]]
  <1>1. /\ DOMAIN items = 1 .. Len(items) /\ Len(items) \in Nat
        /\ DOMAIN taken = 1 .. Len(taken) /\ Len(taken) \in Nat
        /\ DOMAIN chosen = DOMAIN taken
        /\ \A k \in DOMAIN taken : chosen[k] \in DOMAIN items
    BY DEF Picked
  <1>2. IsFiniteSet(K) /\ IsFiniteSet(P)
    <2>1. IsFiniteSet(1 .. Len(taken)) /\ IsFiniteSet(1 .. Len(items))
      BY <1>1, FS_Interval
    <2>2. K \in SUBSET (1 .. Len(taken)) /\ P \in SUBSET (1 .. Len(items))
      BY <1>1 DEF Occurs, Placed
    <2> QED  BY <2>1, <2>2, FS_Subset
  <1>3. P = {i \in DOMAIN items : items[i] = r /\ i \in ToSet(chosen)}
    BY <1>1 DEF Placed
  <1>4. f \in Bijection(K, P)
    <2>1. f \in [K -> P]
      BY <1>1, <1>3 DEF Occurs, Picked, ToSet
    <2>2. \A j, k \in K : f[j] = f[k] => j = k
      BY DEF Occurs, Picked
    <2>3. \A i \in P : \E k \in K : f[k] = i
      <3> SUFFICES ASSUME NEW i \in P
                   PROVE  \E k \in K : chosen[k] = i
        OBVIOUS
      <3>1. PICK k \in DOMAIN chosen : chosen[k] = i
        BY <1>3 DEF ToSet
      <3>2. k \in K
        BY <1>1, <1>3, <3>1 DEF Occurs, Picked
      <3> QED  BY <3>1, <3>2
    <2> QED  BY <2>1, <2>2, <2>3 DEF Bijection, Injection, Surjection, IsInjective
  <1> HIDE DEF f, K, P
  <1>5. Cardinality(P) = Cardinality(K)
    BY <1>2, <1>4, FS_Bijection DEF ExistsBijection
  <1> QED  BY <1>2, <1>5 DEF K, P

LEMMA PlacedNext ==
    ASSUME NEW items \in Seq(Record), NEW chosen, NEW r, NEW n \in Nat, n + 1 <= Len(items)
    PROVE  /\ IsFiniteSet(Placed(items, chosen, r, n))
           /\ Cardinality(Placed(items, chosen, r, n + 1))
                  = IF items[n + 1] = r /\ n + 1 \notin ToSet(chosen)
                    THEN Cardinality(Placed(items, chosen, r, n)) + 1
                    ELSE Cardinality(Placed(items, chosen, r, n))
  <1> DEFINE P == Placed(items, chosen, r, n)
  <1>1. DOMAIN items = 1 .. Len(items) /\ Len(items) \in Nat /\ n + 1 \in 1 .. Len(items)
    OBVIOUS
  <1>2. IsFiniteSet(P)
    <2>1. IsFiniteSet(1 .. Len(items))
      BY <1>1, FS_Interval
    <2>2. P \in SUBSET (1 .. Len(items))
      BY <1>1 DEF Placed
    <2> QED  BY <2>1, <2>2, FS_Subset
  <1>3. \A i \in DOMAIN items : i <= n + 1 <=> i <= n \/ i = n + 1
    BY <1>1
  <1>4. Placed(items, chosen, r, n + 1) =
            IF items[n + 1] = r THEN P \cup {n + 1} ELSE P
    BY <1>1, <1>3 DEF Placed
  <1>5. n + 1 \in P <=> items[n + 1] = r /\ n + 1 \in ToSet(chosen)
    BY <1>1 DEF Placed
  <1>6. Cardinality(P \cup {n + 1}) = IF n + 1 \in P THEN Cardinality(P) ELSE Cardinality(P) + 1
    BY <1>2, FS_AddElement
  <1> HIDE DEF P
  <1>7. CASE items[n + 1] = r
    BY <1>2, <1>4, <1>5, <1>6, <1>7 DEF P
  <1>8. CASE items[n + 1] # r
    BY <1>2, <1>4, <1>8 DEF P
  <1> QED  BY <1>7, <1>8

LEMMA FrontsKeep ==
    ASSUME NEW items \in Seq(Record), NEW chosen, NEW taken,
           Picked(items, chosen, taken)
    PROVE  /\ SelectedFirst(items, chosen) \in Seq(Record)
           /\ Len(taken) <= Len(SelectedFirst(items, chosen))
           /\ \A k \in 1 .. Len(taken) : SelectedFirst(items, chosen)[k] = taken[k]
           /\ \A r : Cardinality(Occurs(SelectedFirst(items, chosen), r))
                         = Cardinality(Occurs(items, r))
  <1> DEFINE L == Len(items)
             g == Fronts(items, chosen)
             Keeps(s, n) == /\ Len(taken) <= Len(s)
                            /\ \A k \in 1 .. Len(taken) : s[k] = taken[k]
                            /\ \A r : Cardinality(Occurs(s, r))
                                          = Cardinality(Placed(items, chosen, r, n))
             S == {n \in Nat : n <= L => Keeps(g[n], n)}
  <1>1. L \in Nat /\ DOMAIN items = 1 .. L /\ \A n \in 1 .. L : items[n] \in Record
    OBVIOUS
  <1>2. /\ chosen \in Seq(DOMAIN items) /\ taken \in Seq(Record) /\ Len(taken) \in Nat
        /\ taken = [k \in DOMAIN chosen |-> items[chosen[k]]]
    <2>1. /\ chosen \in Seq(DOMAIN items) /\ taken \in Seq(Record) /\ Len(taken) = Len(chosen)
          /\ \A k \in DOMAIN taken : taken[k] = items[chosen[k]]
      BY DEF Picked
    <2>2. DOMAIN taken = DOMAIN chosen /\ taken = [k \in DOMAIN taken |-> taken[k]]
      BY <2>1
    <2> QED  BY <2>1, <2>2
  <1>3. /\ SelectedFirst(items, chosen) = g[L] /\ g[0] = taken
        /\ \A n \in 0 .. L : g[n] \in Seq(Record)
        /\ \A n \in 1 .. L : g[n] = IF n \in ToSet(chosen) THEN g[n - 1]
                                    ELSE More(g[n - 1], items[n])
    BY <1>2, FrontsDef
  <1> HIDE DEF g, L
  <1>4. Keeps(g[0], 0)
    BY <1>2, <1>3, PlacedFirst
  <1>5. ASSUME NEW n \in Nat, n + 1 <= L, Keeps(g[n], n)
        PROVE  Keeps(g[n + 1], n + 1)
    <2> DEFINE s == g[n]
               x == items[n + 1]
    <2>1. /\ n + 1 \in 1 .. L /\ (n + 1) - 1 = n /\ n \in 0 .. L
          /\ s \in Seq(Record) /\ x \in Record
      BY <1>1, <1>3, <1>5
    <2>2. g[n + 1] = IF n + 1 \in ToSet(chosen) THEN s ELSE More(s, x)
      BY <1>3, <2>1
    <2>3. \A r : /\ Cardinality(Placed(items, chosen, r, n)) \in Nat
                 /\ Cardinality(Placed(items, chosen, r, n + 1))
                      = IF x = r /\ n + 1 \notin ToSet(chosen)
                        THEN Cardinality(Placed(items, chosen, r, n)) + 1
                        ELSE Cardinality(Placed(items, chosen, r, n))
      <3> SUFFICES ASSUME NEW r
                   PROVE  /\ Cardinality(Placed(items, chosen, r, n)) \in Nat
                          /\ Cardinality(Placed(items, chosen, r, n + 1))
                               = IF x = r /\ n + 1 \notin ToSet(chosen)
                                 THEN Cardinality(Placed(items, chosen, r, n)) + 1
                                 ELSE Cardinality(Placed(items, chosen, r, n))
        OBVIOUS
      <3>1. n + 1 <= Len(items)
        BY <1>5 DEF L
      <3> QED  BY <3>1, PlacedNext, FS_CardinalityType
    <2>4. CASE n + 1 \in ToSet(chosen)
      BY <1>5, <2>2, <2>3, <2>4
    <2>5. CASE n + 1 \notin ToSet(chosen)
      <3> HIDE DEF s, x
      <3>1. /\ Len(More(s, x)) = Len(s) + 1 /\ Len(s) \in Nat
            /\ \A i \in 1 .. Len(s) : More(s, x)[i] = s[i]
        BY <2>1, OneLonger
      <3>2. \A r : Cardinality(Occurs(More(s, x), r))
                       = IF x = r THEN Cardinality(Occurs(s, r)) + 1
                         ELSE Cardinality(Occurs(s, r))
        BY <2>1, OccursOfMore
      <3>3. Keeps(s, n)
        BY <1>5 DEF s
      <3>4. Keeps(More(s, x), n + 1)
        <4>1. Len(taken) <= Len(More(s, x))
          BY <1>2, <3>1, <3>3
        <4>2. \A k \in 1 .. Len(taken) : More(s, x)[k] = taken[k]
          <5>1. \A k \in 1 .. Len(taken) : k \in 1 .. Len(s) /\ s[k] = taken[k]
            BY <1>2, <3>1, <3>3
          <5> QED  BY <3>1, <5>1
        <4>3. \A r : Cardinality(Occurs(More(s, x), r))
                         = Cardinality(Placed(items, chosen, r, n + 1))
          BY <2>3, <2>5, <3>2, <3>3
        <4> QED  BY <4>1, <4>2, <4>3
      <3> HIDE DEF Keeps
      <3> QED  BY <2>2, <2>5, <3>4
    <2> QED  BY <2>4, <2>5
  <1>6. Keeps(g[L], L)
    <2> HIDE DEF Keeps
    <2>1. 0 \in S /\ S \in SUBSET Nat
      BY <1>4
    <2>2. \A n \in S : n + 1 \in S
      BY <1>1, <1>5
    <2>3. S = Nat
      <3> HIDE DEF S
      <3> QED  BY <2>1, <2>2, Induction
    <2> QED  BY <1>1, <2>3
  <1>7. \A r : Placed(items, chosen, r, L) = Occurs(items, r)
    BY <1>1 DEF Placed, Occurs
  <1>8. g[L] \in Seq(Record)
    BY <1>1, <1>3
  <1> QED  BY <1>3, <1>6, <1>7, <1>8

\* Records that fit together are kept when they are put first.
LEMMA PromotedAreKept ==
    ASSUME NEW items \in Seq(Record), NEW chosen, NEW taken, NEW budget \in Nat,
           Picked(items, chosen, taken), Total(taken) <= budget,
           \A k \in DOMAIN taken : taken[k] \notin Dead \cup Opaque
    PROVE  KeepsInFront(items, SelectedFirst(items, chosen), budget, taken)
  <1> DEFINE after == SelectedFirst(items, chosen)
  <1>1. /\ after \in Seq(Record) /\ Len(taken) <= Len(after)
        /\ \A k \in 1 .. Len(taken) : after[k] = taken[k]
        /\ \A r : Cardinality(Occurs(after, r)) = Cardinality(Occurs(items, r))
    BY FrontsKeep
  <1> HIDE DEF after
  <1>2. /\ taken \in Seq(Record) /\ DOMAIN taken = 1 .. Len(taken)
        /\ \A i, j \in 1 .. Len(taken) : taken[i] = taken[j] => i = j
    BY DEF Picked
  <1>3. <<>> \in Seq(Record) /\ NoTwice(<<>>)
    BY DEF NoTwice
  <1>4. SubSeq(Recs(Admission(after, budget, <<>>).kept), 1, Len(taken)) = taken
    BY <1>1, <1>2, <1>3, FirstComeFirst
  <1> QED  BY <1>1, <1>4 DEF KeepsInFront, Occurs, after
-----------------------------------------------------------------------------
(***************************************************************************)
(* The turns of the frontiers.                                             *)
(***************************************************************************)
Frontier == [raw : BOOLEAN, channels : Seq(Seq(Record))]

Finds(f) == UNION {ToSet(f.channels[c]) : c \in DOMAIN f.channels}

LEMMA OffersAre ==
    ASSUME NEW f \in Frontier, NEW offered \in SUBSET Record
    PROVE  /\ \A o \in Offers(f, offered) :
                  /\ Hit(f, o) \in offered \cap Finds(f)
                  /\ o[1] \in Nat /\ Depth(f, o, offered) \in Nat
           /\ \A r \in offered \cap Finds(f) : \E o \in Offers(f, offered) : Hit(f, o) = r
  <1>1. /\ f.channels \in Seq(Seq(Record))
        /\ \A c \in DOMAIN f.channels : c \in Nat /\ f.channels[c] \in Seq(Record)
        /\ \A c \in DOMAIN f.channels : \A i \in DOMAIN f.channels[c] : i \in Nat
    <2>1. f.channels \in Seq(Seq(Record))
      BY DEF Frontier
    <2>2. ASSUME NEW c \in DOMAIN f.channels
          PROVE  c \in Nat /\ f.channels[c] \in Seq(Record)
      BY <2>1
    <2>3. ASSUME NEW c \in DOMAIN f.channels, NEW i \in DOMAIN f.channels[c]
          PROVE  i \in Nat
      BY <2>2
    <2> QED  BY <2>1, <2>2, <2>3
  <1>2. ASSUME NEW o \in Offers(f, offered)
        PROVE  /\ Hit(f, o) \in offered \cap Finds(f)
               /\ o[1] \in Nat /\ Depth(f, o, offered) \in Nat
    <2>1. PICK c \in DOMAIN f.channels : \E i \in DOMAIN f.channels[c] :
              o = <<c, i>> /\ f.channels[c][i] \in offered
      BY DEF Offers
    <2>2. PICK i \in DOMAIN f.channels[c] : o = <<c, i>> /\ f.channels[c][i] \in offered
      BY <2>1
    <2>3. Hit(f, o) = f.channels[c][i] /\ o[1] = c /\ o[2] = i
      BY <2>2 DEF Hit
    <2>4. Hit(f, o) \in Finds(f)
      <3>1. f.channels[c][i] \in ToSet(f.channels[c])
        BY <2>2 DEF ToSet
      <3> QED  BY <2>3, <3>1 DEF Finds
    <2>5. Depth(f, o, offered) \in Nat
      <3> DEFINE D == {j \in 1 .. o[2] : f.channels[o[1]][j] \in offered}
      <3>1. IsFiniteSet(1 .. o[2])
        BY <1>1, <2>3, FS_Interval
      <3>2. D \in SUBSET (1 .. o[2])
        OBVIOUS
      <3>3. IsFiniteSet(D)
        BY <3>1, <3>2, FS_Subset
      <3> HIDE DEF D
      <3>4. Cardinality(D) \in Nat
        BY <3>3, FS_CardinalityType
      <3> QED  BY <3>4 DEF Depth, D
    <2> QED  BY <1>1, <2>2, <2>3, <2>4, <2>5
  <1>3. ASSUME NEW r \in offered \cap Finds(f)
        PROVE  \E o \in Offers(f, offered) : Hit(f, o) = r
    <2>1. PICK c \in DOMAIN f.channels : r \in ToSet(f.channels[c])
      BY DEF Finds
    <2>2. PICK i \in DOMAIN f.channels[c] : f.channels[c][i] = r
      BY <2>1 DEF ToSet
    <2>3. <<c, i>> \in Offers(f, offered) /\ Hit(f, <<c, i>>) = r
      BY <2>2 DEF Offers, Hit
    <2> QED  BY <2>3
  <1> QED  BY <1>2, <1>3

LEMMA Least ==
    ASSUME NEW S \in SUBSET Nat, S # {}
    PROVE  \E m \in S : \A n \in S : m <= n
  <1>1. PICK m \in S : \A y \in S : ~(<<y, m>> \in OpToRel(<, Nat))
    BY NatLessThanWellFounded, WFMin, Zenon
  <1>2. \A y \in S : ~(y < m)
    BY <1>1 DEF OpToRel
  <1> QED  BY <1>2

LEMMA EarliestIs ==
    ASSUME NEW f \in Frontier, NEW offered \in SUBSET Record,
           NEW open \in SUBSET Offers(f, offered), open # {}
    PROVE  Earliest(f, open, offered) \in open
  <1> DEFINE D == {Depth(f, o, offered) : o \in open}
  <1>1. \A o \in open : o[1] \in Nat /\ Depth(f, o, offered) \in Nat
    BY OffersAre
  <1>2. PICK d \in D : \A e \in D : d <= e
    <2>1. D \in SUBSET Nat /\ D # {}
      BY <1>1
    <2> HIDE DEF D
    <2> QED  BY <2>1, Least
  <1> DEFINE C == {o[1] : o \in {o \in open : Depth(f, o, offered) = d}}
  <1>3. PICK c \in C : \A e \in C : c <= e
    <2>1. C \in SUBSET Nat /\ C # {}
      BY <1>1, <1>2
    <2> HIDE DEF C
    <2> QED  BY <2>1, Least
  <1>4. PICK o \in open : Depth(f, o, offered) = d /\ o[1] = c
    BY <1>3
  <1>5. \A p \in open : \/ Depth(f, o, offered) < Depth(f, p, offered)
                        \/ Depth(f, o, offered) = Depth(f, p, offered) /\ o[1] <= p[1]
    <2> SUFFICES ASSUME NEW p \in open, ~(Depth(f, o, offered) < Depth(f, p, offered))
                 PROVE  Depth(f, o, offered) = Depth(f, p, offered) /\ o[1] <= p[1]
      OBVIOUS
    <2>1. d <= Depth(f, p, offered) /\ d \in Nat
      BY <1>1, <1>2
    <2>2. Depth(f, p, offered) = d
      BY <1>1, <1>4, <2>1
    <2>3. p[1] \in C
      BY <2>2
    <2> QED  BY <1>3, <1>4, <2>2, <2>3
  <1> QED  BY <1>4, <1>5 DEF Earliest

\* What may have been taken at any time.
IsTaken(t, offered, budget, slots) ==
    /\ t \in Seq(Record) /\ ToSet(t) \subseteq offered
    /\ \A j, k \in DOMAIN t : t[j] = t[k] => j = k
    /\ Total(t) <= budget /\ Len(t) <= slots

\* A record that is new and fits.
Waits(r, t, budget) == r \notin ToSet(t) /\ Total(t) + Size[r] <= budget

\* One more has been taken.
Adds(s, t, h) == /\ ToSet(t) = ToSet(s) \cup {h}
                 /\ Total(t) = Total(s) + Size[h] /\ Len(t) = Len(s) + 1

LEMMA MoreIsTaken ==
    ASSUME NEW offered \in SUBSET Record, NEW budget \in Nat, NEW slots \in Nat,
           NEW t, IsTaken(t, offered, budget, slots),
           NEW h \in offered, Waits(h, t, budget), Len(t) < slots
    PROVE  /\ IsTaken(More(t, h), offered, budget, slots)
           /\ Adds(t, More(t, h), h)
  <1>1. t \in Seq(Record) /\ h \in Record
    BY DEF IsTaken
  <1>2. /\ Len(More(t, h)) = Len(t) + 1 /\ Len(t) \in Nat
        /\ More(t, h)[Len(t) + 1] = h /\ \A i \in 1 .. Len(t) : More(t, h)[i] = t[i]
        /\ DOMAIN t = 1 .. Len(t) /\ DOMAIN More(t, h) = 1 .. Len(t) + 1
        /\ More(t, h) \in Seq(Record)
    BY <1>1, OneLonger DEF More
  <1>3. Total(More(t, h)) = Total(t) + Size[h]
    BY <1>1, TotalOfMore DEF More
  <1>4. \A i \in DOMAIN More(t, h) : i \in DOMAIN t \/ i = Len(t) + 1
    BY <1>2
  <1>5. \A i \in DOMAIN t : i \in DOMAIN More(t, h) /\ i # Len(t) + 1
    BY <1>2
  <1>6. Len(t) + 1 \in DOMAIN More(t, h)
    BY <1>2
  <1>7. \A s : ToSet(s) = {s[i] : i \in DOMAIN s}
    BY DEF ToSet
  <1>8. ToSet(More(t, h)) = ToSet(t) \cup {h}
    BY <1>2, <1>4, <1>5, <1>6, <1>7
  <1>9. \A j, k \in DOMAIN More(t, h) : More(t, h)[j] = More(t, h)[k] => j = k
    <2>1. \A i \in DOMAIN t : t[i] # h
      BY <1>7 DEF Waits
    <2>2. \A j, k \in DOMAIN t : t[j] = t[k] => j = k
      BY DEF IsTaken
    <2> QED  BY <1>2, <1>4, <2>1, <2>2
  <1>10. ToSet(More(t, h)) \subseteq offered
    BY <1>8 DEF IsTaken
  <1>11. Total(More(t, h)) <= budget
    BY <1>3 DEF Waits
  <1>12. Len(More(t, h)) <= slots
    BY <1>2
  <1> QED  BY <1>2, <1>3, <1>8, <1>9, <1>10, <1>11, <1>12 DEF IsTaken, Adds

\* A frontier whose turn it is takes one of its records, if one waits.
LEMMA TurnIs ==
    ASSUME NEW offered \in SUBSET Record, NEW f \in Frontier,
           NEW budget \in Nat, NEW slots \in Nat,
           NEW t, IsTaken(t, offered, budget, slots)
    PROVE  \/ /\ Turn(t, f, offered, budget, slots) = t
              /\ \/ Len(t) = slots
                 \/ \A r \in offered \cap Finds(f) : ~Waits(r, t, budget)
           \/ \E h \in offered \cap Finds(f) :
                  /\ Waits(h, t, budget) /\ Len(t) < slots
                  /\ Turn(t, f, offered, budget, slots) = More(t, h)
  <1> DEFINE open == Open(t, f, offered, budget)
  <1>1. Len(t) \in Nat /\ Len(t) <= slots
    BY DEF IsTaken
  <1>2. /\ open \in SUBSET Offers(f, offered)
        /\ \A o \in open : Hit(f, o) \in offered \cap Finds(f) /\ Waits(Hit(f, o), t, budget)
        /\ \A r \in offered \cap Finds(f) : Waits(r, t, budget) => open # {}
    <2>1. \A o \in open : o \in Offers(f, offered) /\ Waits(Hit(f, o), t, budget)
      BY DEF Open, Waits
    <2>2. ASSUME NEW r \in offered \cap Finds(f), Waits(r, t, budget)
          PROVE  open # {}
      <3>1. PICK o \in Offers(f, offered) : Hit(f, o) = r
        BY OffersAre
      <3>2. o \in open
        BY <2>2, <3>1 DEF Open, Waits
      <3> QED  BY <3>2
    <2> HIDE DEF open
    <2> QED  BY <2>1, <2>2, OffersAre
  <1>3. Turn(t, f, offered, budget, slots) =
            IF Len(t) >= slots \/ open = {} THEN t
            ELSE More(t, Hit(f, Earliest(f, open, offered)))
    BY DEF Turn, More
  <1> HIDE DEF open
  <1>4. CASE Len(t) >= slots \/ open = {}
    BY <1>1, <1>2, <1>3, <1>4
  <1>5. CASE ~(Len(t) >= slots) /\ open # {}
    <2>1. Earliest(f, open, offered) \in open
      BY <1>2, <1>5, EarliestIs
    <2>2. Len(t) < slots
      BY <1>1, <1>5
    <2> QED  BY <1>2, <1>3, <1>5, <2>1, <2>2
  <1> QED  BY <1>4, <1>5

\* What was taken stays taken.
Later(s, t) == /\ ToSet(s) \subseteq ToSet(t)
               /\ Total(s) <= Total(t) /\ Len(s) <= Len(t)

LEMMA StillWaits ==
    ASSUME NEW offered \in SUBSET Record, NEW budget \in Nat, NEW slots \in Nat,
           NEW s, IsTaken(s, offered, budget, slots),
           NEW t, IsTaken(t, offered, budget, slots), Later(s, t),
           NEW r \in offered, Waits(r, t, budget)
    PROVE  Waits(r, s, budget)
  <1>1. r \in Record /\ s \in Seq(Record) /\ t \in Seq(Record)
    BY DEF IsTaken
  <1>2. Total(s) \in Nat /\ Total(t) \in Nat /\ Size[r] \in Nat
    BY <1>1, TotalOfMore
  <1> QED  BY <1>2 DEF Waits, Later

\* One turn of those who found some records, and whether it was of use.
Took(s, t, found, offered, budget, slots) ==
    /\ IsTaken(t, offered, budget, slots) /\ Later(s, t)
    /\ \/ t = s
       \/ \E h \in offered \cap found :
              Waits(h, s, budget) /\ Adds(s, t, h)
    /\ \A r \in offered \cap found : Waits(r, s, budget) /\ t = s => Len(s) = slots

LEMMA OneTakes ==
    ASSUME NEW offered \in SUBSET Record, NEW budget \in Nat, NEW slots \in Nat,
           NEW s, IsTaken(s, offered, budget, slots),
           NEW h \in offered, Waits(h, s, budget), Len(s) < slots,
           NEW found, h \in found
    PROVE  Took(s, More(s, h), found, offered, budget, slots)
  <1>1. IsTaken(More(s, h), offered, budget, slots)
    BY MoreIsTaken
  <1>2. Adds(s, More(s, h), h)
    BY MoreIsTaken
  <1>3. /\ ToSet(s) \subseteq ToSet(More(s, h))
        /\ Total(More(s, h)) = Total(s) + Size[h] /\ Len(More(s, h)) = Len(s) + 1
    BY <1>2 DEF Adds
  <1>5. Size[h] \in Nat
    BY EvidenceAssumption
  <1>6. s \in Seq(Record)
    BY DEF IsTaken
  <1>7. Len(s) \in Nat /\ Total(s) \in Nat
    <2>1. Len(s) \in 0 .. Len(s)
      BY <1>6
    <2> QED  BY <1>6, <2>1, SumsDef
  <1>8. Later(s, More(s, h)) /\ More(s, h) # s
    BY <1>3, <1>5, <1>7 DEF Later
  <1>9. \E x \in offered \cap found : Waits(x, s, budget) /\ Adds(s, More(s, h), x)
    BY <1>2
  <1> QED  BY <1>1, <1>8, <1>9 DEF Took

LEMMA TurnTakes ==
    ASSUME NEW offered \in SUBSET Record, NEW f \in Frontier,
           NEW budget \in Nat, NEW slots \in Nat,
           NEW s, IsTaken(s, offered, budget, slots),
           NEW t, t = Turn(s, f, offered, budget, slots)
    PROVE  Took(s, t, Finds(f), offered, budget, slots)
  <1>1. s \in Seq(Record) /\ Len(s) \in Nat /\ Total(s) \in Nat
    <2>1. s \in Seq(Record)
      BY DEF IsTaken
    <2>2. Len(s) \in 0 .. Len(s)
      BY <2>1
    <2> QED  BY <2>1, <2>2, SumsDef
  <1>3. \/ /\ t = s
           /\ \/ Len(s) = slots
              \/ \A r \in offered \cap Finds(f) : ~Waits(r, s, budget)
        \/ \E h \in offered \cap Finds(f) :
               Waits(h, s, budget) /\ Len(s) < slots /\ t = More(s, h)
    BY TurnIs
  <1>4. Later(s, s)
    BY <1>1 DEF Later
  <1>5. ASSUME NEW h \in offered \cap Finds(f), Waits(h, s, budget), Len(s) < slots,
               t = More(s, h)
        PROVE  Took(s, t, Finds(f), offered, budget, slots)
    <2>1. h \in offered /\ h \in Finds(f)
      OBVIOUS
    <2> QED  BY <1>5, <2>1, OneTakes
  <1>6. CASE /\ t = s
             /\ \/ Len(s) = slots
                \/ \A r \in offered \cap Finds(f) : ~Waits(r, s, budget)
    <2>1. \A r \in offered \cap Finds(f) : Waits(r, s, budget) => Len(s) = slots
      BY <1>6
    <2>2. Took(s, s, Finds(f), offered, budget, slots)
      BY <1>4, <2>1 DEF Took
    <2> QED  BY <1>6, <2>2
  <1>7. Took(s, t, Finds(f), offered, budget, slots)
    BY <1>3, <1>5, <1>6
  <1> QED  BY <1>7

LEMMA LaterThan ==
    ASSUME NEW offered, NEW budget, NEW slots, NEW a, NEW b, NEW c,
           IsTaken(a, offered, budget, slots), IsTaken(b, offered, budget, slots),
           IsTaken(c, offered, budget, slots)
    PROVE  /\ Later(a, a)
           /\ Later(a, b) /\ Later(b, c) => Later(a, c)
  <1>1. \A s \in {a, b, c} : Len(s) \in Nat /\ Total(s) \in Nat
    <2> SUFFICES ASSUME NEW s \in {a, b, c}
                 PROVE  Len(s) \in Nat /\ Total(s) \in Nat
      OBVIOUS
    <2>1. s \in Seq(Record)
      BY DEF IsTaken
    <2>2. Len(s) \in 0 .. Len(s)
      BY <2>1
    <2> QED  BY <2>1, <2>2, SumsDef
  <1> QED  BY <1>1 DEF Later

\* Records of own have half of what is taken while one of them waits.
Balanced(t, own, offered, budget) ==
    \A r \in offered \cap own :
        Waits(r, t, budget) => 2 * Cardinality(ToSet(t) \cap own) >= Len(t)

LEMMA OwnIsFinite ==
    ASSUME NEW offered, NEW budget, NEW slots, NEW s, IsTaken(s, offered, budget, slots),
           NEW own
    PROVE  /\ IsFiniteSet(ToSet(s)) /\ Cardinality(ToSet(s)) = Len(s)
           /\ IsFiniteSet(ToSet(s) \cap own) /\ Cardinality(ToSet(s) \cap own) \in Nat
  <1>1. s \in Seq(Record) /\ DOMAIN s = 1 .. Len(s) /\ Len(s) \in Nat
    BY DEF IsTaken
  <1>2. IsFiniteSet(DOMAIN s) /\ Cardinality(DOMAIN s) = Len(s)
    BY <1>1, FS_Interval
  <1>3. s \in Bijection(DOMAIN s, ToSet(s))
    <2>1. ToSet(s) = {s[i] : i \in DOMAIN s} /\ s = [i \in DOMAIN s |-> s[i]]
      BY <1>1 DEF ToSet
    <2> QED  BY <2>1 DEF IsTaken, Bijection, Injection, Surjection, IsInjective
  <1>4. IsFiniteSet(ToSet(s)) /\ Cardinality(ToSet(s)) = Len(s)
    BY <1>2, <1>3, FS_Bijection DEF ExistsBijection
  <1>5. IsFiniteSet(ToSet(s) \cap own)
    BY <1>4, FS_Subset
  <1> QED  BY <1>4, <1>5, FS_CardinalityType

LEMMA CountOwn ==
    ASSUME NEW offered, NEW budget, NEW slots,
           NEW s, IsTaken(s, offered, budget, slots), NEW own, NEW h, NEW t,
           h \notin ToSet(s), Adds(s, t, h)
    PROVE  /\ Cardinality(ToSet(s) \cap own) \in Nat
           /\ Cardinality(ToSet(t) \cap own) = IF h \in own THEN Cardinality(ToSet(s) \cap own) + 1
                                               ELSE Cardinality(ToSet(s) \cap own)
  <1> DEFINE S == ToSet(s) \cap own
  <1>1. IsFiniteSet(S) /\ Cardinality(S) \in Nat
    BY OwnIsFinite
  <1>2. Cardinality(S \cup {h}) = Cardinality(S) + 1
    BY <1>1, FS_AddElement
  <1>3. ToSet(t) \cap own = IF h \in own THEN S \cup {h} ELSE S
    BY DEF Adds
  <1> HIDE DEF S
  <1> QED  BY <1>1, <1>2, <1>3 DEF S

FrontierList(fs) == /\ fs \in Seq(Frontier)
                    /\ \A n, m \in DOMAIN fs : fs[n].raw /\ fs[m].raw => n = m

OwnFinds(fs) == UNION {Finds(f) : f \in {f \in ToSet(fs) : f.raw}}

LEMMA RawIs ==
    ASSUME NEW offered \in SUBSET Record, NEW fs, FrontierList(fs)
    PROVE  /\ \A n \in DOMAIN fs : /\ fs[n] \in Frontier /\ n \in Nat
                                   /\ offered \cap Finds(fs[n]) # {} => n \in Asked(fs, offered)
           /\ \A n \in RawOf(fs, offered) : Finds(fs[n]) = OwnFinds(fs)
           /\ RawOf(fs, offered) # {} => Min(RawOf(fs, offered)) \in RawOf(fs, offered)
           /\ RawOf(fs, offered) = {} => offered \cap OwnFinds(fs) = {}
           /\ RawOf(fs, offered) \subseteq Asked(fs, offered)
           /\ Asked(fs, offered) \subseteq DOMAIN fs
           /\ \A n, m \in RawOf(fs, offered) : n = m
  <1> DEFINE own == RawOf(fs, offered)
  <1>1. ASSUME NEW n \in DOMAIN fs
        PROVE  /\ fs[n] \in Frontier /\ n \in Nat
               /\ offered \cap Finds(fs[n]) # {} => n \in Asked(fs, offered)
    <2>1. fs[n] \in Frontier /\ n \in Nat
      BY DEF FrontierList
    <2>2. offered \cap Finds(fs[n]) # {} => Offers(fs[n], offered) # {}
      BY <2>1, OffersAre
    <2> QED  BY <2>1, <2>2 DEF Asked
  <1>2. own \subseteq Asked(fs, offered) /\ Asked(fs, offered) \subseteq DOMAIN fs
        /\ \A n \in own : fs[n].raw
    BY DEF RawOf, Asked
  <1>3. ASSUME NEW n \in DOMAIN fs, fs[n].raw
        PROVE  Finds(fs[n]) = OwnFinds(fs)
    <2>1. \A f \in ToSet(fs) : f.raw => f = fs[n]
      BY <1>3 DEF FrontierList, ToSet
    <2>2. fs[n] \in ToSet(fs)
      BY DEF ToSet
    <2>3. {f \in ToSet(fs) : f.raw} = {fs[n]}
      BY <1>3, <2>1, <2>2
    <2> QED  BY <2>3 DEF OwnFinds
  <1>4. own # {} => Min(own) \in own
    <2>1. own \in SUBSET Nat
      BY <1>1, <1>2
    <2>2. own # {} => \E m \in own : \A n \in own : m <= n
      BY <2>1, Least
    <2> HIDE DEF own
    <2> QED  BY <2>2 DEF Min
  <1>5. own = {} => offered \cap OwnFinds(fs) = {}
    <2> SUFFICES ASSUME own = {}, NEW r \in offered \cap OwnFinds(fs)
                 PROVE  FALSE
      OBVIOUS
    <2>1. PICK f \in ToSet(fs) : f.raw /\ r \in Finds(f)
      BY DEF OwnFinds
    <2>2. PICK n \in DOMAIN fs : f = fs[n]
      BY DEF ToSet
    <2>3. n \in Asked(fs, offered)
      BY <1>1, <2>1, <2>2
    <2>4. n \in own
      BY <2>1, <2>2, <2>3 DEF RawOf
    <2> QED  BY <2>4
  <1>6. \A n, m \in own : n = m
    BY <1>2 DEF FrontierList
  <1> QED  BY <1>1, <1>2, <1>3, <1>4, <1>5, <1>6

\* More has been taken, if a slot was free.
Grew(s, t, slots) == Len(t) = slots \/ Len(t) >= Len(s) + 1

\* Those who found some records were served: all of them have waited in vain
\* only if no slot is left.
Serves(s, t, own, found, offered, budget, slots) ==
    /\ IsTaken(t, offered, budget, slots) /\ Later(s, t)
    /\ Balanced(s, own, offered, budget) => Balanced(t, own, offered, budget)
    /\ \A r \in offered \cap found : Waits(r, t, budget) => Grew(s, t, slots)

\* The turn of the user's own words before that of another frontier.
LEMMA BothTurns ==
    ASSUME NEW offered \in SUBSET Record, NEW budget \in Nat, NEW slots \in Nat,
           NEW own, NEW f \in Frontier, Finds(f) = own, NEW g \in Frontier,
           NEW s, IsTaken(s, offered, budget, slots),
           NEW mid, mid = Turn(s, f, offered, budget, slots),
           NEW t, t = Turn(mid, g, offered, budget, slots)
    PROVE  Serves(s, t, own, own \cup Finds(g), offered, budget, slots)
  <1>1. Took(s, mid, own, offered, budget, slots)
    BY TurnTakes
  <1>2. IsTaken(mid, offered, budget, slots)
    BY <1>1 DEF Took
  <1>3. Took(mid, t, Finds(g), offered, budget, slots)
    BY <1>2, TurnTakes
  <1>4. IsTaken(t, offered, budget, slots) /\ Later(s, mid) /\ Later(mid, t)
    BY <1>1, <1>3 DEF Took
  <1>5. Later(s, t)
    BY <1>2, <1>4, LaterThan
  <1>6. /\ Len(s) \in Nat /\ Len(mid) \in Nat /\ Len(t) \in Nat
        /\ Len(t) <= slots /\ Len(mid) <= slots
    BY <1>2, <1>4 DEF IsTaken
  <1>7. \A r \in offered : Waits(r, t, budget) => Waits(r, mid, budget) /\ Waits(r, s, budget)
    BY <1>2, <1>4, <1>5, StillWaits
  <1>8. \/ mid = s
        \/ \E h \in offered \cap own :
               Waits(h, s, budget) /\ Adds(s, mid, h)
    BY <1>1 DEF Took
  <1>9. \/ t = mid
        \/ \E h \in offered \cap Finds(g) :
               Waits(h, mid, budget) /\ Adds(mid, t, h)
    BY <1>3 DEF Took
  <1>10. \A r \in offered \cap own : Waits(r, s, budget) /\ mid = s => Len(s) = slots
    BY <1>1 DEF Took
  <1>11. \A r \in offered \cap Finds(g) : Waits(r, mid, budget) /\ t = mid => Len(mid) = slots
    BY <1>3 DEF Took
  <1>12. ASSUME NEW r \in offered \cap (own \cup Finds(g)), Waits(r, t, budget)
         PROVE  Len(t) = slots \/ Len(t) >= Len(s) + 1
    <2>1. Len(s) <= Len(mid) /\ Len(mid) <= Len(t)
      BY <1>4 DEF Later
    <2>2. Waits(r, mid, budget) /\ Waits(r, s, budget)
      BY <1>7, <1>12
    <2>3. CASE r \in own
      <3>1. mid = s => Len(s) = slots
        BY <1>10, <2>2, <2>3
      <3>2. mid # s => Len(mid) = Len(s) + 1
        BY <1>8 DEF Adds
      <3> QED  BY <1>6, <2>1, <3>1, <3>2
    <2>4. CASE r \in Finds(g)
      <3>1. t = mid => Len(mid) = slots
        BY <1>11, <2>2, <2>4
      <3>2. t # mid => Len(t) = Len(mid) + 1
        BY <1>9 DEF Adds
      <3> QED  BY <1>6, <2>1, <3>1, <3>2
    <2> QED  BY <2>3, <2>4
  <1>13. ASSUME Balanced(s, own, offered, budget), NEW r \in offered \cap own,
                Waits(r, t, budget)
         PROVE  2 * Cardinality(ToSet(t) \cap own) >= Len(t)
    <2> DEFINE N(x) == Cardinality(ToSet(x) \cap own)
    <2>1. Waits(r, s, budget)
      BY <1>7, <1>13
    <2>2. 2 * N(s) >= Len(s)
      BY <1>13, <2>1 DEF Balanced
    <2>3. N(s) \in Nat /\ N(mid) \in Nat /\ N(t) \in Nat
      BY <1>2, <1>4, OwnIsFinite
    <2>4. \/ N(mid) = N(s) /\ Len(mid) = Len(s) /\ Len(s) = slots
          \/ N(mid) = N(s) + 1 /\ Len(mid) = Len(s) + 1
      <3>1. CASE mid = s
        BY <1>10, <2>1, <3>1
      <3>2. ASSUME NEW h \in offered \cap own, Waits(h, s, budget), Adds(s, mid, h)
            PROVE  N(mid) = N(s) + 1 /\ Len(mid) = Len(s) + 1
        <4>1. h \notin ToSet(s) /\ h \in own
          BY <3>2 DEF Waits
        <4>2. Cardinality(ToSet(mid) \cap own) = IF h \in own
                  THEN Cardinality(ToSet(s) \cap own) + 1 ELSE Cardinality(ToSet(s) \cap own)
          BY <3>2, <4>1, CountOwn
        <4>3. Len(mid) = Len(s) + 1
          BY <3>2 DEF Adds
        <4> QED  BY <4>1, <4>2, <4>3
      <3> HIDE DEF N
      <3> QED  BY <1>8, <3>1, <3>2
    <2>5. N(t) >= N(mid) /\ Len(t) <= Len(mid) + 1
      <3>1. ASSUME NEW h \in offered \cap Finds(g), Waits(h, mid, budget), Adds(mid, t, h)
            PROVE  N(t) >= N(mid) /\ Len(t) = Len(mid) + 1
        <4>1. h \notin ToSet(mid)
          BY <3>1 DEF Waits
        <4>2. Cardinality(ToSet(t) \cap own) = IF h \in own
                  THEN Cardinality(ToSet(mid) \cap own) + 1 ELSE Cardinality(ToSet(mid) \cap own)
          BY <1>2, <3>1, <4>1, CountOwn
        <4>3. N(t) = IF h \in own THEN N(mid) + 1 ELSE N(mid)
          BY <4>2
        <4>4. Len(t) = Len(mid) + 1
          BY <3>1 DEF Adds
        <4> HIDE DEF N
        <4> QED  BY <2>3, <4>3, <4>4
      <3>2. t = mid => N(t) = N(mid)
        OBVIOUS
      <3> HIDE DEF N
      <3> QED  BY <1>6, <1>9, <2>3, <3>1, <3>2
    <2>6. 2 * N(t) >= Len(t)
      <3>1. Len(t) <= slots
        BY <1>6
      <3> HIDE DEF N
      <3> QED  BY <1>6, <2>2, <2>3, <2>4, <2>5
    <2> QED  BY <2>6
  <1>14. Balanced(s, own, offered, budget) => Balanced(t, own, offered, budget)
    BY <1>13 DEF Balanced
  <1> QED  BY <1>4, <1>5, <1>12, <1>14 DEF Serves, Grew

\* The records some frontier waits for when its turn comes.
Reach(fs, n, offered) ==
    IF n \in Asked(fs, offered) \ RawOf(fs, offered)
    THEN OwnFinds(fs) \cup Finds(fs[n]) ELSE {}

LEMMA TakeTurnsIs ==
    ASSUME NEW offered \in SUBSET Record, NEW budget \in Nat, NEW slots \in Nat,
           NEW fs, FrontierList(fs), NEW n \in DOMAIN fs,
           NEW s, IsTaken(s, offered, budget, slots),
           NEW t, t = TakeTurns(s, fs, n, offered, budget, slots)
    PROVE  Serves(s, t, OwnFinds(fs), Reach(fs, n, offered), offered, budget, slots)
  <1> DEFINE own == RawOf(fs, offered)
             others == Asked(fs, offered) \ own
             mid == Turn(s, fs[Min(own)], offered, budget, slots)
  <1>1. fs[n] \in Frontier
    BY RawIs
  <1>2. t = IF n \notin others THEN s
            ELSE IF own = {} THEN Turn(s, fs[n], offered, budget, slots)
            ELSE Turn(mid, fs[n], offered, budget, slots)
    BY DEF TakeTurns
  <1>3. CASE n \notin others
    <2>1. t = s
      BY <1>2, <1>3
    <2>2. Later(s, s)
      BY LaterThan
    <2>3. Reach(fs, n, offered) = {}
      BY <1>3 DEF Reach
    <2> QED  BY <2>1, <2>2, <2>3 DEF Serves
  <1>4. CASE n \in others /\ own = {}
    <2>1. Took(s, t, Finds(fs[n]), offered, budget, slots)
      <3>1. t = Turn(s, fs[n], offered, budget, slots)
        BY <1>2, <1>4
      <3> QED  BY <1>1, <3>1, TurnTakes
    <2>2. IsTaken(t, offered, budget, slots) /\ Later(s, t)
      BY <2>1 DEF Took
    <2>3. offered \cap OwnFinds(fs) = {}
      BY <1>4, RawIs
    <2>4. Balanced(t, OwnFinds(fs), offered, budget)
      BY <2>3 DEF Balanced
    <2>5. ASSUME NEW r \in offered \cap Reach(fs, n, offered), Waits(r, t, budget)
          PROVE  Grew(s, t, slots)
      <3>1. r \in offered \cap Finds(fs[n])
        BY <1>4, <2>3 DEF Reach
      <3>2. Waits(r, s, budget)
        BY <2>2, <2>5, StillWaits
      <3>3. t = s => Len(s) = slots
        BY <2>1, <3>1, <3>2 DEF Took
      <3>4. t # s => Len(t) = Len(s) + 1
        BY <2>1 DEF Took, Adds
      <3>5. Len(s) \in Nat
        BY DEF IsTaken
      <3> QED  BY <3>3, <3>4, <3>5 DEF Grew
    <2> QED  BY <2>2, <2>4, <2>5 DEF Serves
  <1>5. CASE n \in others /\ own # {}
    <2> DEFINE f == fs[Min(own)]
    <2>1. Min(own) \in own /\ own \subseteq Asked(fs, offered)
          /\ Asked(fs, offered) \subseteq DOMAIN fs
      BY <1>5, RawIs
    <2>2. f \in Frontier /\ Finds(f) = OwnFinds(fs)
      BY <2>1, RawIs
    <2>3. mid = Turn(s, f, offered, budget, slots)
          /\ t = Turn(mid, fs[n], offered, budget, slots)
      BY <1>2, <1>5
    <2>4. Reach(fs, n, offered) = OwnFinds(fs) \cup Finds(fs[n])
      BY <1>5 DEF Reach
    <2> HIDE DEF mid, f, own, others
    <2>5. Serves(s, t, OwnFinds(fs), OwnFinds(fs) \cup Finds(fs[n]), offered, budget, slots)
      BY <1>1, <2>2, <2>3, BothTurns
    <2> QED  BY <2>4, <2>5
  <1> QED  BY <1>3, <1>4, <1>5

\* The records waited for by those of the first n frontiers.
Reached(fs, n, offered) == UNION {Reach(fs, m, offered) : m \in 1 .. n}

LEMMA ServesThen ==
    ASSUME NEW offered \in SUBSET Record, NEW budget \in Nat, NEW slots \in Nat,
           NEW s, IsTaken(s, offered, budget, slots), NEW own, NEW found, NEW more,
           NEW u, Serves(s, u, own, found, offered, budget, slots),
           NEW t, Serves(u, t, own, more, offered, budget, slots)
    PROVE  Serves(s, t, own, found \cup more, offered, budget, slots)
  <1>1. IsTaken(u, offered, budget, slots) /\ Later(s, u)
        /\ IsTaken(t, offered, budget, slots) /\ Later(u, t)
    BY DEF Serves
  <1>2. Balanced(s, own, offered, budget) => Balanced(t, own, offered, budget)
    BY DEF Serves
  <1>3. Later(s, t)
    BY <1>1, LaterThan
  <1>4. /\ Len(s) \in Nat /\ Len(u) \in Nat /\ Len(t) \in Nat /\ Len(t) <= slots
        /\ Len(s) <= Len(u) /\ Len(u) <= Len(t)
    BY <1>1 DEF IsTaken, Later
  <1>5. /\ Grew(s, u, slots) => Grew(s, t, slots)
        /\ Grew(u, t, slots) => Grew(s, t, slots)
    BY <1>4 DEF Grew
  <1>6. ASSUME NEW r \in offered \cap (found \cup more), Waits(r, t, budget)
        PROVE  Grew(s, t, slots)
    <2>1. CASE r \in more
      BY <1>5, <1>6, <2>1 DEF Serves
    <2>2. CASE r \in found
      <3>1. Waits(r, u, budget)
        BY <1>1, <1>6, StillWaits
      <3> QED  BY <1>5, <2>2, <3>1 DEF Serves
    <2> QED  BY <2>1, <2>2
  <1> QED  BY <1>1, <1>2, <1>3, <1>6 DEF Serves

LEMMA ReachedNext ==
    ASSUME NEW fs, NEW offered
    PROVE  /\ Reached(fs, 0, offered) = {}
           /\ \A n \in Nat : Reached(fs, n + 1, offered)
                                 = Reached(fs, n, offered) \cup Reach(fs, n + 1, offered)
  <1>1. \A n \in Nat : \A m : m \in 1 .. n + 1 <=> m \in 1 .. n \/ m = n + 1
    OBVIOUS
  <1>2. ASSUME NEW n \in Nat
        PROVE  Reached(fs, n + 1, offered) = Reached(fs, n, offered) \cup Reach(fs, n + 1, offered)
    <2>1. \A k \in Nat : \A r : r \in Reached(fs, k, offered)
                                 <=> \E m \in 1 .. k : r \in Reach(fs, m, offered)
      BY DEF Reached
    <2>2. n + 1 \in Nat
      OBVIOUS
    <2>3. \A r : r \in Reached(fs, n + 1, offered)
                    <=> r \in Reached(fs, n, offered) \/ r \in Reach(fs, n + 1, offered)
      BY <1>1, <2>1, <2>2, Zenon
    <2> QED  BY <2>3
  <1>3. Reached(fs, 0, offered) = {}
    BY DEF Reached
  <1> QED  BY <1>2, <1>3

LEMMA RoundIs ==
    ASSUME NEW offered \in SUBSET Record, NEW budget \in Nat, NEW slots \in Nat,
           NEW fs, FrontierList(fs),
           NEW s, IsTaken(s, offered, budget, slots)
    PROVE  Serves(s, Round(s, fs, offered, budget, slots), OwnFinds(fs),
                  Reached(fs, Len(fs), offered), offered, budget, slots)
  <1> DEFINE L == Len(fs)
             V == {t \in Seq(Record) : IsTaken(t, offered, budget, slots)}
             Move(n, t) == TakeTurns(t, fs, n, offered, budget, slots)
             Sub(t, n) == Serves(s, t, OwnFinds(fs), Reached(fs, n, offered),
                                 offered, budget, slots)
             step == [x \in (1 .. L) \X V |-> Move(x[1], x[2])]
             g == CHOOSE f : f = [n \in 0 .. L |-> IF n = 0 THEN s ELSE Move(n, f[n - 1])]
             S == {n \in Nat : n <= L => Sub(g[n], n)}
  <1>1. L \in Nat /\ DOMAIN fs = 1 .. L
    BY DEF FrontierList
  <1>2. s \in V /\ \A t \in V : IsTaken(t, offered, budget, slots)
    BY DEF IsTaken
  <1>3. ASSUME NEW n \in 1 .. L, NEW t \in V
        PROVE  /\ Move(n, t) \in V
               /\ Serves(t, Move(n, t), OwnFinds(fs), Reach(fs, n, offered),
                         offered, budget, slots)
    <2>1. Serves(t, Move(n, t), OwnFinds(fs), Reach(fs, n, offered), offered, budget, slots)
      BY <1>1, <1>2, TakeTurnsIs
    <2>2. IsTaken(Move(n, t), offered, budget, slots)
      BY <2>1 DEF Serves
    <2>3. Move(n, t) \in Seq(Record)
      BY <2>2 DEF IsTaken
    <2> QED  BY <2>1, <2>2, <2>3
  <1> HIDE DEF L, V, Move
  <1>4. step \in [(1 .. L) \X V -> V]
    BY <1>3
  <1>5. PICK f : IsLoop(f, V, s, L, step)
    <2> HIDE DEF step
    <2> QED  BY <1>1, <1>2, <1>4, Recursion
  <1>6. \A n \in 1 .. L : f[n - 1] \in V /\ f[n] = Move(n, f[n - 1])
    <2> SUFFICES ASSUME NEW n \in 1 .. L
                 PROVE  f[n - 1] \in V /\ f[n] = Move(n, f[n - 1])
      OBVIOUS
    <2>1. n - 1 \in 0 .. L
      BY <1>1
    <2>2. f[n - 1] \in V /\ f[n] = step[<<n, f[n - 1]>>]
      <3> HIDE DEF step
      <3> QED  BY <1>5, <2>1 DEF IsLoop
    <2>3. <<n, f[n - 1]>> \in (1 .. L) \X V
      BY <2>2
    <2> QED  BY <2>2, <2>3
  <1>7. f = [n \in 0 .. L |-> IF n = 0 THEN s ELSE Move(n, f[n - 1])]
    <2> HIDE DEF step
    <2>1. f = [n \in 0 .. L |-> f[n]] /\ f[0] = s
      BY <1>5 DEF IsLoop
    <2>2. \A n \in 0 .. L : n = 0 \/ n \in 1 .. L
      BY <1>1
    <2>3. \A n \in 0 .. L : f[n] = IF n = 0 THEN s ELSE Move(n, f[n - 1])
      BY <1>6, <2>1, <2>2
    <2> QED  BY <2>1, <2>3
  <1>8. g = [n \in 0 .. L |-> IF n = 0 THEN s ELSE Move(n, g[n - 1])]
    BY <1>7
  <1>9. Round(s, fs, offered, budget, slots) = g[L]
    BY DEF Round, Move, L
  <1> HIDE DEF g
  <1>10. g[0] = s /\ \A n \in Nat : n + 1 <= L => g[n + 1] = Move(n + 1, g[n])
    <2>1. 0 \in 0 .. L /\ \A n \in Nat : n + 1 <= L =>
              n + 1 \in 0 .. L /\ n + 1 # 0 /\ (n + 1) - 1 = n
      BY <1>1
    <2>2. \A n \in 0 .. L : g[n] = IF n = 0 THEN s ELSE Move(n, g[n - 1])
      BY <1>8
    <2> QED  BY <2>1, <2>2
  <1>11. Sub(s, 0)
    <2>1. Later(s, s)
      BY LaterThan
    <2>2. Reached(fs, 0, offered) = {}
      BY ReachedNext
    <2> QED  BY <2>1, <2>2 DEF Serves
  <1>12. ASSUME NEW n \in Nat, n + 1 <= L, Sub(g[n], n)
         PROVE  Sub(g[n + 1], n + 1)
    <2>1. IsTaken(g[n], offered, budget, slots)
      BY <1>12 DEF Serves
    <2>2. g[n] \in V
      <3>1. g[n] \in Seq(Record)
        BY <2>1 DEF IsTaken
      <3> QED  BY <2>1, <3>1 DEF V
    <2>3. n + 1 \in 1 .. L
      BY <1>1, <1>12
    <2>4. Serves(g[n], g[n + 1], OwnFinds(fs), Reach(fs, n + 1, offered),
                 offered, budget, slots)
      BY <1>3, <1>10, <1>12, <2>2, <2>3
    <2>5. Reached(fs, n + 1, offered) = Reached(fs, n, offered) \cup Reach(fs, n + 1, offered)
      BY ReachedNext
    <2>6. Serves(s, g[n + 1], OwnFinds(fs), Reached(fs, n, offered) \cup Reach(fs, n + 1, offered),
                 offered, budget, slots)
      BY <1>12, <2>4, ServesThen
    <2> QED  BY <2>5, <2>6
  <1> HIDE DEF Sub
  <1>13. Sub(g[L], L)
    <2>1. 0 \in S /\ S \in SUBSET Nat
      BY <1>10, <1>11
    <2>2. ASSUME NEW n \in S
          PROVE  n + 1 \in S
      BY <1>1, <1>12
    <2> HIDE DEF S
    <2>3. S = Nat
      BY <2>1, <2>2, Induction
    <2> QED  BY <1>1, <2>3 DEF S
  <1> QED  BY <1>9, <1>13 DEF Sub, L

\* What any of the queries found.
AllFinds(fs) == UNION {Finds(f) : f \in ToSet(fs)}

LEMMA AllAreReached ==
    ASSUME NEW offered \in SUBSET Record, NEW fs, FrontierList(fs),
           Cardinality(Asked(fs, offered)) >= 2
    PROVE  offered \cap AllFinds(fs) \subseteq Reached(fs, Len(fs), offered)
  <1>1. DOMAIN fs = 1 .. Len(fs) /\ Len(fs) \in Nat
    BY DEF FrontierList
  <1>2. PICK n \in DOMAIN fs : n \in Asked(fs, offered) \ RawOf(fs, offered)
    <2> SUFFICES ASSUME Asked(fs, offered) \subseteq RawOf(fs, offered)
                 PROVE  FALSE
      BY RawIs
    <2>1. \A n, m \in Asked(fs, offered) : n = m
      BY RawIs
    <2>2. Asked(fs, offered) = {} \/ \E n : Asked(fs, offered) = {n}
      BY <2>1
    <2>3. Cardinality(Asked(fs, offered)) \in {0, 1}
      BY <2>2, FS_EmptySet, FS_Singleton
    <2> QED  BY <2>3
  <1>3. ASSUME NEW r \in offered \cap AllFinds(fs)
        PROVE  r \in Reached(fs, Len(fs), offered)
    <2>1. PICK f \in ToSet(fs) : r \in Finds(f)
      BY DEF AllFinds
    <2>2. PICK m \in DOMAIN fs : fs[m] = f
      BY DEF ToSet
    <2>3. m \in Asked(fs, offered)
      BY <2>1, <2>2, RawIs
    <2>4. CASE m \in RawOf(fs, offered)
      <3>1. r \in OwnFinds(fs)
        BY <2>1, <2>2, <2>4, RawIs
      <3>2. r \in Reach(fs, n, offered)
        BY <1>2, <3>1 DEF Reach
      <3> QED  BY <1>1, <1>2, <3>2 DEF Reached
    <2>5. CASE m \notin RawOf(fs, offered)
      <3>1. r \in Reach(fs, m, offered)
        BY <2>1, <2>2, <2>3, <2>5 DEF Reach
      <3> QED  BY <1>1, <2>2, <3>1 DEF Reached
    <2> QED  BY <2>4, <2>5
  <1> QED  BY <1>3

\* As many have been taken as there were rounds, while one of found waits.
Lasts(t, k, own, found, offered, budget, slots) ==
    /\ IsTaken(t, offered, budget, slots)
    /\ Balanced(t, own, offered, budget)
    /\ \A r \in offered \cap found : Waits(r, t, budget) => Len(t) = slots \/ Len(t) >= k

LEMMA LastsFirst ==
    ASSUME NEW offered, NEW budget \in Nat, NEW slots \in Nat, NEW own, NEW found
    PROVE  Lasts(<<>>, 0, own, found, offered, budget, slots)
  <1>1. Len(<<>>) = 0 /\ DOMAIN <<>> = {} /\ ToSet(<<>>) = {} /\ <<>> \in Seq(Record)
    BY DEF ToSet
  <1>2. IsTaken(<<>>, offered, budget, slots)
    BY <1>1, TotalOfNone DEF IsTaken
  <1>3. Cardinality(ToSet(<<>>) \cap own) \in Nat
    BY <1>2, OwnIsFinite
  <1>4. Balanced(<<>>, own, offered, budget)
    BY <1>1, <1>3 DEF Balanced
  <1> QED  BY <1>1, <1>2, <1>4 DEF Lasts

LEMMA LastsNext ==
    ASSUME NEW offered \in SUBSET Record, NEW budget \in Nat, NEW slots \in Nat,
           NEW own, NEW found, NEW k \in Nat,
           NEW s, Lasts(s, k, own, found, offered, budget, slots),
           NEW more, offered \cap found \subseteq more,
           NEW t, Serves(s, t, own, more, offered, budget, slots)
    PROVE  Lasts(t, k + 1, own, found, offered, budget, slots)
  <1>1. IsTaken(s, offered, budget, slots) /\ IsTaken(t, offered, budget, slots) /\ Later(s, t)
    BY DEF Lasts, Serves
  <1>2. Balanced(t, own, offered, budget)
    BY DEF Lasts, Serves
  <1>3. /\ Len(s) \in Nat /\ Len(t) \in Nat /\ Len(t) <= slots /\ Len(s) <= Len(t)
    BY <1>1 DEF IsTaken, Later
  <1>4. ASSUME NEW r \in offered \cap found, Waits(r, t, budget)
        PROVE  Len(t) = slots \/ Len(t) >= k + 1
    <2>1. r \in offered \cap more
      OBVIOUS
    <2>2. Grew(s, t, slots)
      BY <1>4, <2>1 DEF Serves
    <2>3. Waits(r, s, budget)
      BY <1>1, <1>4, StillWaits
    <2>4. Len(s) = slots \/ Len(s) >= k
      BY <2>3 DEF Lasts
    <2> QED  BY <1>3, <2>2, <2>4 DEF Grew
  <1> QED  BY <1>1, <1>2, <1>4 DEF Lasts

LEMMA ChosenIs ==
    ASSUME NEW items \in Seq(Record), NEW budget \in Nat, NEW slots \in Nat,
           NEW fs, FrontierList(fs)
    PROVE  /\ IsTaken(Chosen(items, budget, fs, slots), Pool(items), budget, slots)
           /\ \/ Chosen(items, budget, fs, slots) = <<>>
              \/ Lasts(Chosen(items, budget, fs, slots), Len(items), OwnFinds(fs),
                       AllFinds(fs), Pool(items), budget, slots)
  <1> DEFINE offered == Pool(items)
             L == Len(items)
             V == {t \in Seq(Record) : IsTaken(t, offered, budget, slots)}
             Move(t) == Round(t, fs, offered, budget, slots)
             Sub(t, k) == Lasts(t, k, OwnFinds(fs), AllFinds(fs), offered, budget, slots)
             step == [x \in (1 .. L) \X V |-> Move(x[2])]
             g == CHOOSE f : f = [k \in 0 .. L |-> IF k = 0 THEN <<>> ELSE Move(f[k - 1])]
             S == {k \in Nat : k <= L => Sub(g[k], k)}
  <1>1. L \in Nat /\ offered \in SUBSET Record
    BY DEF Pool, ToSet
  <1> HIDE DEF offered
  <1>2. Sub(<<>>, 0)
    BY LastsFirst
  <1>3. \A t : t \in V <=> IsTaken(t, offered, budget, slots)
    BY DEF IsTaken
  <1>4. <<>> \in V
    BY <1>2, <1>3 DEF Lasts
  <1>5. ASSUME NEW t \in V
        PROVE  /\ Move(t) \in V
               /\ Serves(t, Move(t), OwnFinds(fs), Reached(fs, Len(fs), offered),
                         offered, budget, slots)
    <2>1. IsTaken(t, offered, budget, slots)
      BY <1>3
    <2>2. Serves(t, Move(t), OwnFinds(fs), Reached(fs, Len(fs), offered),
                 offered, budget, slots)
      BY <1>1, <2>1, RoundIs
    <2> QED  BY <1>3, <2>2 DEF Serves
  <1> HIDE DEF L, V, Move
  <1>6. step \in [(1 .. L) \X V -> V]
    BY <1>5
  <1>7. PICK f : IsLoop(f, V, <<>>, L, step)
    <2> HIDE DEF step
    <2> QED  BY <1>1, <1>4, <1>6, Recursion
  <1>8. \A k \in 1 .. L : f[k - 1] \in V /\ f[k] = Move(f[k - 1])
    <2> SUFFICES ASSUME NEW k \in 1 .. L
                 PROVE  f[k - 1] \in V /\ f[k] = Move(f[k - 1])
      OBVIOUS
    <2>1. k - 1 \in 0 .. L
      BY <1>1
    <2>2. f[k - 1] \in V /\ f[k] = step[<<k, f[k - 1]>>]
      <3> HIDE DEF step
      <3> QED  BY <1>7, <2>1 DEF IsLoop
    <2>3. <<k, f[k - 1]>> \in (1 .. L) \X V
      BY <2>2
    <2> QED  BY <2>2, <2>3
  <1>9. f = [k \in 0 .. L |-> IF k = 0 THEN <<>> ELSE Move(f[k - 1])]
    <2> HIDE DEF step
    <2>1. f = [k \in 0 .. L |-> f[k]] /\ f[0] = <<>>
      BY <1>7 DEF IsLoop
    <2>2. \A k \in 0 .. L : k = 0 \/ k \in 1 .. L
      BY <1>1
    <2>3. \A k \in 0 .. L : f[k] = IF k = 0 THEN <<>> ELSE Move(f[k - 1])
      BY <1>8, <2>1, <2>2
    <2> QED  BY <2>1, <2>3
  <1>10. g = [k \in 0 .. L |-> IF k = 0 THEN <<>> ELSE Move(g[k - 1])]
    BY <1>9
  <1>11. Chosen(items, budget, fs, slots) =
             IF budget = 0 \/ Cardinality(Asked(fs, offered)) < 2 THEN <<>> ELSE g[L]
    BY DEF Chosen, Move, L, offered
  <1> HIDE DEF g, Sub
  <1>12. CASE budget = 0 \/ Cardinality(Asked(fs, offered)) < 2
    <2>1. Chosen(items, budget, fs, slots) = <<>>
      BY <1>11, <1>12
    <2>2. IsTaken(<<>>, offered, budget, slots)
      BY <1>3, <1>4
    <2> QED  BY <2>1, <2>2 DEF offered
  <1>13. CASE ~(budget = 0 \/ Cardinality(Asked(fs, offered)) < 2)
    <2>1. g[0] = <<>> /\ \A k \in Nat : k + 1 <= L => g[k + 1] = Move(g[k])
      <3>1. 0 \in 0 .. L /\ \A k \in Nat : k + 1 <= L =>
                k + 1 \in 0 .. L /\ k + 1 # 0 /\ (k + 1) - 1 = k
        BY <1>1
      <3>2. \A k \in 0 .. L : g[k] = IF k = 0 THEN <<>> ELSE Move(g[k - 1])
        BY <1>10
      <3> QED  BY <3>1, <3>2
    <2>2. offered \cap AllFinds(fs) \subseteq Reached(fs, Len(fs), offered)
      <3>1. Cardinality(Asked(fs, offered)) >= 2
        <4>1. IsFiniteSet(Asked(fs, offered))
          <5>1. DOMAIN fs = 1 .. Len(fs) /\ Len(fs) \in Nat
            BY DEF FrontierList
          <5>2. IsFiniteSet(DOMAIN fs)
            BY <5>1, FS_Interval
          <5>3. Asked(fs, offered) \in SUBSET (DOMAIN fs)
            BY DEF Asked
          <5> QED  BY <5>2, <5>3, FS_Subset
        <4>2. Cardinality(Asked(fs, offered)) \in Nat
          BY <4>1, FS_CardinalityType
        <4> QED  BY <1>13, <4>2
      <3> QED  BY <1>1, <3>1, AllAreReached
    <2>3. ASSUME NEW k \in Nat, k + 1 <= L, Sub(g[k], k)
          PROVE  Sub(g[k + 1], k + 1)
      <3>1. g[k] \in V
        BY <1>3, <2>3 DEF Sub, Lasts
      <3>2. Serves(g[k], g[k + 1], OwnFinds(fs), Reached(fs, Len(fs), offered),
                   offered, budget, slots)
        BY <1>5, <2>1, <2>3, <3>1
      <3>3. Lasts(g[k], k, OwnFinds(fs), AllFinds(fs), offered, budget, slots)
        BY <2>3 DEF Sub
      <3>4. Lasts(g[k + 1], k + 1, OwnFinds(fs), AllFinds(fs), offered, budget, slots)
        BY <1>1, <2>2, <3>2, <3>3, LastsNext
      <3> QED  BY <3>4 DEF Sub
    <2>4. Sub(g[L], L)
      <3>1. 0 \in S /\ S \in SUBSET Nat
        BY <1>2, <2>1
      <3>2. ASSUME NEW k \in S
            PROVE  k + 1 \in S
        BY <1>1, <2>3
      <3> HIDE DEF S
      <3>3. S = Nat
        BY <3>1, <3>2, Induction
      <3> QED  BY <1>1, <3>3 DEF S
    <2>5. Lasts(Chosen(items, budget, fs, slots), L, OwnFinds(fs), AllFinds(fs),
                offered, budget, slots)
      BY <1>11, <1>13, <2>4 DEF Sub
    <2>6. IsTaken(Chosen(items, budget, fs, slots), offered, budget, slots)
      BY <2>5 DEF Lasts
    <2> QED  BY <2>5, <2>6 DEF offered, L
  <1> QED  BY <1>12, <1>13

\* Nothing waits in the end, unless for a slot.
LEMMA LastsLong ==
    ASSUME NEW items \in Seq(Record), NEW budget \in Nat, NEW slots \in Nat,
           NEW own, NEW found,
           NEW t, Lasts(t, Len(items), own, found, Pool(items), budget, slots),
           NEW r \in Pool(items) \cap found, Waits(r, t, budget)
    PROVE  Len(t) = slots
  <1>1. Len(items) \in Nat /\ DOMAIN items = 1 .. Len(items)
    OBVIOUS
  <1>2. IsTaken(t, Pool(items), budget, slots)
    BY DEF Lasts
  <1>3. Len(t) = slots \/ Len(t) >= Len(items)
    BY DEF Lasts
  <1>4. IsFiniteSet(ToSet(t)) /\ Cardinality(ToSet(t)) = Len(t) /\ Len(t) \in Nat
    <2>1. Len(t) \in Nat
      BY <1>2 DEF IsTaken
    <2> QED  BY <1>2, <2>1, OwnIsFinite
  <1>5. r \notin ToSet(t) /\ ToSet(t) \cup {r} \subseteq ToSet(items)
    BY <1>2 DEF Waits, IsTaken, Pool
  <1>6. Cardinality(ToSet(t) \cup {r}) = Len(t) + 1
    BY <1>4, <1>5, FS_AddElement
  <1>7. IsFiniteSet(ToSet(items)) /\ Cardinality(ToSet(items)) <= Len(items)
    <2>1. IsFiniteSet(DOMAIN items) /\ Cardinality(DOMAIN items) = Len(items)
      <3>1. \A n \in Nat : IsFiniteSet(1 .. n) /\ Cardinality(1 .. n) = n
        BY FS_Interval
      <3>2. IsFiniteSet(1 .. Len(items)) /\ Cardinality(1 .. Len(items)) = Len(items)
        BY <1>1, <3>1
      <3> QED  BY <1>1, <3>2
    <2>2. ToSet(items) = {items[i] : i \in DOMAIN items}
      BY DEF ToSet
    <2>3. items \in Surjection(DOMAIN items, ToSet(items))
      BY <1>1, <2>2 DEF Surjection
    <2> QED  BY <2>1, <2>3, FS_Surjection
  <1>8. Cardinality(ToSet(t) \cup {r}) <= Cardinality(ToSet(items))
    BY <1>5, <1>7, FS_Subset
  <1>9. Cardinality(ToSet(items)) \in Nat
    BY <1>7, FS_CardinalityType
  <1> QED  BY <1>1, <1>3, <1>4, <1>6, <1>7, <1>8, <1>9

-----------------------------------------------------------------------------
(***************************************************************************)
(* Fair promotion: by frontiers, and by coverage.                          *)
(***************************************************************************)
LEMMA FirstAtIs ==
    ASSUME NEW items \in Seq(Record), NEW r \in ToSet(items)
    PROVE  FirstAt(items, r) \in DOMAIN items /\ items[FirstAt(items, r)] = r
  <1> DEFINE P == {i \in DOMAIN items : items[i] = r}
  <1>1. DOMAIN items = 1 .. Len(items) /\ Len(items) \in Nat
    OBVIOUS
  <1>2. P \in SUBSET Nat /\ P # {}
    BY <1>1 DEF ToSet
  <1>3. PICK m \in P : \A n \in P : m <= n
    <2> HIDE DEF P
    <2> QED  BY <1>2, Least
  <1>4. \A j \in 1 .. m - 1 : items[j] # r
    <2> SUFFICES ASSUME NEW j \in 1 .. m - 1, items[j] = r
                 PROVE  FALSE
      OBVIOUS
    <2>1. m \in 1 .. Len(items) /\ j \in 1 .. Len(items) /\ j < m
      BY <1>1
    <2>2. j \in P
      BY <1>1, <2>1
    <2>3. m <= j
      BY <1>3, <2>2
    <2> QED  BY <2>1, <2>3
  <1>5. m \in DOMAIN items /\ items[m] = r
    OBVIOUS
  <1> QED  BY <1>4, <1>5 DEF FirstAt

LEMMA FrontiersKept ==
    ASSUME NEW items \in Seq(Record), NEW budget \in Nat, NEW slots \in Nat,
           NEW fs, FrontierList(fs)
    PROVE  KeepsInFront(items, ByFrontiers(items, budget, fs, slots), budget,
                        Chosen(items, budget, fs, slots))
  <1> DEFINE taken == Chosen(items, budget, fs, slots)
             chosen == [k \in DOMAIN taken |-> FirstAt(items, taken[k])]
  <1>1. IsTaken(taken, Pool(items), budget, slots)
    BY ChosenIs
  <1>2. ByFrontiers(items, budget, fs, slots) = SelectedFirst(items, chosen)
    BY DEF ByFrontiers
  <1> HIDE DEF taken
  <1>3. taken \in Seq(Record) /\ DOMAIN taken = 1 .. Len(taken) /\ Len(taken) \in Nat
    BY <1>1 DEF IsTaken
  <1>4. \A k \in DOMAIN taken : /\ taken[k] \in ToSet(items)
                                /\ taken[k] \notin Dead \cup Opaque
    BY <1>1 DEF IsTaken, Pool, ToSet
  <1>5. \A k \in DOMAIN taken : /\ FirstAt(items, taken[k]) \in DOMAIN items
                                /\ items[FirstAt(items, taken[k])] = taken[k]
    BY <1>4, FirstAtIs
  <1>6. chosen \in Seq(DOMAIN items) /\ Len(chosen) = Len(taken)
    <2>1. chosen \in [1 .. Len(taken) -> DOMAIN items]
      BY <1>3, <1>5
    <2> QED  BY <1>3, <2>1
  <1>7. Picked(items, chosen, taken)
    BY <1>1, <1>3, <1>5, <1>6 DEF Picked, IsTaken
  <1>8. Total(taken) <= budget
    BY <1>1 DEF IsTaken
  <1> HIDE DEF chosen
  <1> QED  BY <1>2, <1>4, <1>7, <1>8, PromotedAreKept DEF taken

LEMMA OwnHaveHalf ==
    ASSUME NEW items \in Seq(Record), NEW budget \in Nat, NEW slots \in Nat,
           NEW fs, FrontierList(fs)
    PROVE  OwnWordsHaveHalf(items, budget, fs, slots, Chosen(items, budget, fs, slots))
  <1> DEFINE t == Chosen(items, budget, fs, slots)
             Found(f) == UNION {ToSet(f.channels[c]) : c \in DOMAIN f.channels}
             raw == {f \in ToSet(fs) : f.raw}
             Waiting(some) == \E f \in some : \E r \in Found(f) :
                 /\ r \in ToSet(items) \ (ToSet(t) \cup Dead \cup Opaque)
                 /\ Total(t) + Size[r] <= budget
  <1> HIDE DEF t
  <1>1. t = <<>> \/ Lasts(t, Len(items), OwnFinds(fs), AllFinds(fs), Pool(items), budget, slots)
    BY ChosenIs DEF t
  <1>2. \A f : Found(f) = Finds(f)
    BY DEF Finds
  <1>3. UNION {Found(f) : f \in raw} = OwnFinds(fs)
    BY DEF OwnFinds, Finds
  <1> HIDE DEF Found
  <1>4. ASSUME Waiting(raw)
        PROVE  \E r \in Pool(items) \cap OwnFinds(fs) : Waits(r, t, budget)
    <2>1. PICK f \in raw : \E r \in Found(f) :
              /\ r \in ToSet(items) \ (ToSet(t) \cup Dead \cup Opaque)
              /\ Total(t) + Size[r] <= budget
      BY <1>4
    <2>2. PICK r \in Found(f) :
              /\ r \in ToSet(items) \ (ToSet(t) \cup Dead \cup Opaque)
              /\ Total(t) + Size[r] <= budget
      BY <2>1
    <2>3. r \in OwnFinds(fs)
      BY <1>3
    <2> QED  BY <2>2, <2>3 DEF Pool, Waits
  <1>5. ASSUME Waiting(ToSet(fs))
        PROVE  \E r \in Pool(items) \cap AllFinds(fs) : Waits(r, t, budget)
    <2>1. PICK f \in ToSet(fs) : \E r \in Found(f) :
              /\ r \in ToSet(items) \ (ToSet(t) \cup Dead \cup Opaque)
              /\ Total(t) + Size[r] <= budget
      BY <1>5
    <2>2. PICK r \in Found(f) :
              /\ r \in ToSet(items) \ (ToSet(t) \cup Dead \cup Opaque)
              /\ Total(t) + Size[r] <= budget
      BY <2>1
    <2>3. r \in AllFinds(fs)
      BY <1>2 DEF AllFinds
    <2> QED  BY <2>2, <2>3 DEF Pool, Waits
  <1> HIDE DEF Waiting
  <1>6. ASSUME t # <<>>
        PROVE  /\ Waiting(raw) => 2 * Cardinality(ToSet(t) \cap OwnFinds(fs)) >= Len(t)
               /\ Waiting(ToSet(fs)) => Len(t) = slots
    <2>1. Lasts(t, Len(items), OwnFinds(fs), AllFinds(fs), Pool(items), budget, slots)
      BY <1>1, <1>6
    <2>2. ASSUME Waiting(raw)
          PROVE  2 * Cardinality(ToSet(t) \cap OwnFinds(fs)) >= Len(t)
      BY <1>4, <2>1, <2>2 DEF Lasts, Balanced
    <2>3. ASSUME Waiting(ToSet(fs))
          PROVE  Len(t) = slots
      BY <1>5, <2>1, <2>3, LastsLong
    <2> QED  BY <2>2, <2>3
  <1>7. t # <<>> =>
            /\ Waiting(raw) =>
                   2 * Cardinality(ToSet(t) \cap UNION {Found(f) : f \in raw}) >= Len(t)
            /\ Waiting(ToSet(fs)) => Len(t) = slots
    BY <1>3, <1>6
  <1> QED  BY <1>7 DEF OwnWordsHaveHalf, Waiting, Found, t

LEMMA CoverageIs ==
    ASSUME NEW items \in Seq(Record), NEW budget \in Nat,
           NEW ranks, \A r \in Record : \A g \in DOMAIN ranks[r] : ranks[r][g] \in Nat,
           NEW chosen \in Seq(DOMAIN items), IsCoverage(items, budget, ranks, chosen),
           NEW taken, taken = [k \in DOMAIN chosen |-> items[chosen[k]]]
    PROVE  KeepsInFront(items, SelectedFirst(items, chosen), budget, taken)
  <1> DEFINE Before(n) == [k \in 1 .. n |-> items[chosen[k]]]
  <1>1. /\ Len(chosen) \in Nat /\ DOMAIN chosen = 1 .. Len(chosen)
        /\ \A k \in DOMAIN chosen : chosen[k] \in DOMAIN items /\ items[chosen[k]] \in Record
    OBVIOUS
  <1>2. \A n \in DOMAIN chosen :
            /\ items[chosen[n]] \in Pool(items)
            /\ Total(Before(n - 1)) + Size[items[chosen[n]]] <= budget
            /\ Gains(items[chosen[n]], ranks, ToSet(Before(n - 1)))
    <2> DEFINE CanFollow(i, n) ==
                   /\ items[i] \in Pool(items)
                   /\ Total(Before(n)) + Size[items[i]] <= budget
                   /\ Gains(items[i], ranks, ToSet(Before(n)))
    <2>1. chosen = <<>> \/ \A n \in DOMAIN chosen : CanFollow(chosen[n], n - 1)
      BY DEF IsCoverage
    <2> HIDE DEF Before
    <2>2. CASE chosen = <<>>
      BY <2>2
    <2>3. CASE \A n \in DOMAIN chosen : CanFollow(chosen[n], n - 1)
      BY <2>3
    <2> QED  BY <2>1, <2>2, <2>3
  <1>3. taken \in Seq(Record) /\ Len(taken) = Len(chosen) /\ DOMAIN taken = DOMAIN chosen
        /\ \A k \in DOMAIN taken : taken[k] = items[chosen[k]]
    <2>1. taken \in [1 .. Len(chosen) -> Record]
      BY <1>1
    <2> QED  BY <1>1, <2>1
  <1>4. \A k \in DOMAIN taken : taken[k] \notin Dead \cup Opaque
    BY <1>2, <1>3 DEF Pool
  <1>5. ASSUME NEW j \in DOMAIN taken, NEW k \in DOMAIN taken, j < k, taken[j] = taken[k]
        PROVE  FALSE
    <2> DEFINE r == taken[k]
    <2>1. r \in Record /\ r = items[chosen[k]]
      BY <1>1, <1>3
    <2>2. r \in ToSet(Before(k - 1))
      <3>1. j \in 1 .. k - 1 /\ items[chosen[j]] = r
        BY <1>1, <1>3, <1>5
      <3>2. j \in DOMAIN Before(k - 1) /\ Before(k - 1)[j] = r
        BY <3>1
      <3> HIDE DEF Before, r
      <3> QED  BY <3>2 DEF ToSet
    <2> HIDE DEF Before, r
    <2>3. PICK g \in DOMAIN ranks[r] : \A e \in ToSet(Before(k - 1)) :
              g \in DOMAIN ranks[e] => ranks[r][g] < ranks[e][g]
      BY <1>2, <1>3, <2>1 DEF Gains
    <2>4. ranks[r][g] < ranks[r][g] /\ ranks[r][g] \in Nat
      BY <2>1, <2>2, <2>3
    <2> QED  BY <2>4
  <1>6. \A j, k \in DOMAIN taken : taken[j] = taken[k] => j = k
    BY <1>1, <1>3, <1>5
  <1>7. Picked(items, chosen, taken)
    BY <1>3, <1>6 DEF Picked
  <1>8. Total(taken) <= budget
    <2>1. CASE Len(chosen) = 0
      <3>1. taken = <<>>
        BY <1>3, <2>1
      <3> QED  BY <3>1, TotalOfNone
    <2>2. CASE Len(chosen) # 0
      <3>1. PICK m \in Nat : Len(chosen) = m + 1
        <4>1. Len(chosen) - 1 \in Nat /\ Len(chosen) = (Len(chosen) - 1) + 1
          BY <1>1, <2>2
        <4> QED  BY <4>1
      <3> DEFINE s == Before(m)
                 r == items[chosen[m + 1]]
      <3>2. m + 1 \in DOMAIN chosen /\ (m + 1) - 1 = m
        BY <1>1, <3>1
      <3>3. r \in Record /\ Total(s) + Size[r] <= budget
        BY <1>1, <1>2, <3>2
      <3>4. s \in Seq(Record) /\ Len(s) = m
        <4>1. \A i \in 1 .. m : i \in DOMAIN chosen
          BY <1>1, <3>1
        <4>2. s \in [1 .. m -> Record]
          BY <1>1, <4>1
        <4> QED  BY <3>1, <4>2
      <3>5. taken = More(s, r)
        <4>1. /\ \A i \in 1 .. m : s[i] = items[chosen[i]]
              /\ r = items[chosen[m + 1]]
          OBVIOUS
        <4>2. taken = [i \in 1 .. m + 1 |-> items[chosen[i]]]
          BY <1>1, <1>3, <3>1
        <4> HIDE DEF s, r
        <4>3. /\ Len(More(s, r)) = m + 1 /\ More(s, r)[m + 1] = r
              /\ \A i \in 1 .. m : More(s, r)[i] = s[i]
          BY <3>3, <3>4, OneLonger
        <4>4. More(s, r) = [i \in 1 .. m + 1 |-> More(s, r)[i]]
          <5>1. More(s, r) \in Seq(Record)
            BY <3>3, <3>4 DEF More
          <5>2. More(s, r) = [i \in 1 .. Len(More(s, r)) |-> More(s, r)[i]]
            BY <5>1
          <5> QED  BY <4>3, <5>2
        <4>5. \A i \in 1 .. m + 1 : i \in 1 .. m \/ i = m + 1
          BY <3>1
        <4>6. \A i \in 1 .. m + 1 : More(s, r)[i] = items[chosen[i]]
          BY <4>1, <4>3, <4>5
        <4> QED  BY <4>2, <4>4, <4>6
      <3> HIDE DEF s, r
      <3> QED  BY <3>3, <3>4, <3>5, TotalOfMore DEF More
    <2> QED  BY <2>1, <2>2
  <1> QED  BY <1>4, <1>7, <1>8, PromotedAreKept

PromotionShape ==
    /\ case.of = "frontiers" =>
           /\ case.items \in Lists /\ case.frontiers \in Frontiers
           /\ case.budget \in Budgets /\ case.slots \in Nat
    /\ case.of = "coverage" =>
           /\ case.items \in Lists /\ case.budget \in Budgets
           /\ case.chosen \in Seq(DOMAIN case.items)
           /\ \E ranks \in Ranks : IsCoverage(case.items, case.budget, ranks, case.chosen)

LEMMA PromotionShapeStep ==
    Shape /\ PromotionShape /\ [Step]_case => PromotionShape'
  <1> SUFFICES ASSUME Shape, PromotionShape, [Step]_case
               PROVE  PromotionShape'
    OBVIOUS
  <1>1. CASE Promote
    BY <1>1 DEF Promote, PromotionShape
  <1>2. CASE PromoteForCoverage
    <2>1. PICK items \in Lists, ranks \in Ranks, b \in Budgets :
              \E n \in 0 .. Len(items) : \E chosen \in [1 .. n -> DOMAIN items] :
                 /\ IsCoverage(items, b, ranks, chosen)
                 /\ case' = [of |-> "coverage", items |-> items, budget |-> b,
                             chosen |-> chosen]
      BY <1>2 DEF PromoteForCoverage
    <2>2. PICK n \in 0 .. Len(items) : \E chosen \in [1 .. n -> DOMAIN items] :
                 /\ IsCoverage(items, b, ranks, chosen)
                 /\ case' = [of |-> "coverage", items |-> items, budget |-> b,
                             chosen |-> chosen]
      BY <2>1
    <2>3. PICK chosen \in [1 .. n -> DOMAIN items] :
                 /\ IsCoverage(items, b, ranks, chosen)
                 /\ case' = [of |-> "coverage", items |-> items, budget |-> b,
                             chosen |-> chosen]
      BY <2>2
    <2>4. n \in Nat
      OBVIOUS
    <2>5. chosen \in Seq(DOMAIN items)
      BY <2>4
    <2>6. /\ case'.of = "coverage" /\ case'.items = items /\ case'.budget = b
          /\ case'.chosen = chosen
      BY <2>3
    <2> QED  BY <2>3, <2>5, <2>6 DEF PromotionShape
  <1>3. CASE UNCHANGED case
    BY <1>3 DEF PromotionShape
  <1>4. CASE Step /\ ~Promote /\ ~PromoteForCoverage
    <2>1. case'.of \notin {"frontiers", "coverage"}
      <3>1. CASE Write \/ Verify
        BY <3>1 DEF Write, Verify
      <3>2. CASE WriteDraft \/ Assess
        BY <3>2 DEF WriteDraft, Assess
      <3>3. CASE AskRepair \/ RepairDraft
        BY <3>3 DEF AskRepair, RepairDraft
      <3>4. CASE Navigate
        BY <3>4 DEF Navigate
      <3>5. CASE Browse \/ ReadRow \/ Finish \/ EndTurn \/ Break
        <4>1. /\ case.of = "navigation"
              /\ \E trip : case' = [case EXCEPT !.nav = trip]
          BY <3>5 DEF Browse, ReadRow, Finish, EndTurn, Break, Navigating
        <4>2. PICK trip : case' = [of |-> "navigation", nav |-> trip]
          BY <4>1, NavStep DEF Shape
        <4> QED  BY <4>2
      <3>6. CASE Converse
        BY <3>6 DEF Converse
      <3>7. CASE ReadEvidence
        BY <3>7 DEF ReadEvidence
      <3>8. CASE CutTable
        BY <3>8 DEF CutTable
      <3>9. CASE CutFile
        BY <3>9 DEF CutFile
      <3> QED  BY <1>4, <3>1, <3>2, <3>3, <3>4, <3>5, <3>6, <3>7, <3>8, <3>9 DEF Step
    <2> QED  BY <2>1 DEF PromotionShape
  <1> QED  BY <1>1, <1>2, <1>3, <1>4

(* Promotion loses no candidate and keeps what it chose in front, where the  *)
(* budget admits all of it; and while a record found for the user's own      *)
(* words still fits, these have had half of the slots (candidate_admission). *)
THEOREM PromotionStaysFair == Cases => []PromotionIsFair
  <1>1. PromotionShape => PromotionIsFair
    <2> SUFFICES ASSUME PromotionShape
                 PROVE  PromotionIsFair
      OBVIOUS
    <2>1. ASSUME case.of = "frontiers"
          PROVE  /\ KeepsInFront(case.items,
                                 ByFrontiers(case.items, case.budget, case.frontiers, case.slots),
                                 case.budget,
                                 Chosen(case.items, case.budget, case.frontiers, case.slots))
                 /\ OwnWordsHaveHalf(case.items, case.budget, case.frontiers, case.slots,
                                     Chosen(case.items, case.budget, case.frontiers, case.slots))
      <3>1. /\ case.items \in Seq(Record) /\ case.budget \in Nat /\ case.slots \in Nat
            /\ FrontierList(case.frontiers)
        BY <2>1, AlgorithmsAssumption DEF PromotionShape, FrontierList, Frontier
      <3> QED  BY <3>1, FrontiersKept, OwnHaveHalf
    <2>2. ASSUME case.of = "coverage"
          PROVE  KeepsInFront(case.items, SelectedFirst(case.items, case.chosen), case.budget,
                              [k \in DOMAIN case.chosen |-> case.items[case.chosen[k]]])
      <3>1. /\ case.items \in Seq(Record) /\ case.budget \in Nat
            /\ case.chosen \in Seq(DOMAIN case.items)
        BY <2>2, AlgorithmsAssumption DEF PromotionShape
      <3>2. PICK ranks \in Ranks : IsCoverage(case.items, case.budget, ranks, case.chosen)
        BY <2>2 DEF PromotionShape
      <3>3. \A r \in Record : \A g \in DOMAIN ranks[r] : ranks[r][g] \in Nat
        BY AlgorithmsAssumption
      <3> QED  BY <3>1, <3>2, <3>3, CoverageIs
    <2> QED  BY <2>1, <2>2 DEF PromotionIsFair
  <1>2. NoCase => PromotionShape
    BY DEF NoCase, PromotionShape
  <1>3. Shape /\ PromotionShape /\ [Step]_case => PromotionShape'
    BY PromotionShapeStep
  <1> QED  BY <1>1, <1>2, <1>3, ShapeIsKept, PTL DEF Cases

-----------------------------------------------------------------------------
(***************************************************************************)
(* Places in turn.                                                         *)
(***************************************************************************)
LEMMA InTurnIs ==
    ASSUME NEW S \in SUBSET Nat, IsFiniteSet(S)
    PROVE  /\ Cardinality(S) \in Nat
           /\ InTurn(S) \in [1 .. Cardinality(S) -> S]
           /\ \A s \in S : \E k \in 1 .. Cardinality(S) : InTurn(S)[k] = s
           /\ \A j, k \in 1 .. Cardinality(S) : InTurn(S)[j] = InTurn(S)[k] => j = k
  <1> DEFINE N == Cardinality(S)
             Before(s) == {t \in S : t < s}
             rank == [s \in S |-> Cardinality(Before(s)) + 1]
  <1>1. N \in Nat
    BY FS_CardinalityType
  <1>2. \A s \in S : IsFiniteSet(Before(s)) /\ Cardinality(Before(s)) \in Nat
    <2> SUFFICES ASSUME NEW s \in S
                 PROVE  IsFiniteSet(Before(s)) /\ Cardinality(Before(s)) \in Nat
      OBVIOUS
    <2>1. IsFiniteSet(Before(s))
      <3>1. Before(s) \in SUBSET S
        OBVIOUS
      <3> QED  BY <3>1, FS_Subset
    <2> QED  BY <2>1, FS_CardinalityType
  <1>3. ASSUME NEW s \in S, NEW t \in S, s < t
        PROVE  Cardinality(Before(s)) < Cardinality(Before(t))
    <2>1. Before(s) \cup {s} \subseteq Before(t) /\ s \notin Before(s)
      <3>1. \A r \in S : r < s => r < t
        BY <1>3
      <3>2. ~(s < s)
        OBVIOUS
      <3> QED  BY <1>3, <3>1, <3>2
    <2>2. Cardinality(Before(s) \cup {s}) = Cardinality(Before(s)) + 1
      <3> HIDE DEF Before
      <3> QED  BY <1>2, <2>1, FS_AddElement
    <2>3. Cardinality(Before(s) \cup {s}) <= Cardinality(Before(t))
      <3> HIDE DEF Before
      <3> QED  BY <1>2, <2>1, FS_Subset
    <2> HIDE DEF Before
    <2> QED  BY <1>2, <2>2, <2>3
  <1>4. \A s \in S : Cardinality(Before(s)) < N
    <2> SUFFICES ASSUME NEW s \in S
                 PROVE  Cardinality(Before(s)) < N
      OBVIOUS
    <2>1. Before(s) \cup {s} \subseteq S /\ s \notin Before(s)
      OBVIOUS
    <2>2. Cardinality(Before(s) \cup {s}) = Cardinality(Before(s)) + 1
      <3> HIDE DEF Before
      <3> QED  BY <1>2, <2>1, FS_AddElement
    <2>3. Cardinality(Before(s) \cup {s}) <= N
      <3> HIDE DEF Before
      <3> QED  BY <2>1, FS_Subset
    <2> HIDE DEF Before, N
    <2> QED  BY <1>1, <1>2, <2>2, <2>3
  <1> HIDE DEF N, Before
  <1>5. rank \in [S -> 1 .. N]
    BY <1>1, <1>2, <1>4
  <1>6. \A s, t \in S : rank[s] = rank[t] => s = t
    <2>1. \A s, t \in S : s = t \/ s < t \/ t < s
      OBVIOUS
    <2>2. \A s, t \in S : s < t => rank[s] # rank[t]
      BY <1>2, <1>3
    <2> HIDE DEF rank
    <2> QED  BY <2>1, <2>2
  <1>7. rank \in Surjection(S, 1 .. N)
    <2>1. rank \in Injection(S, 1 .. N)
      <3> HIDE DEF rank
      <3> QED  BY <1>5, <1>6 DEF Injection, IsInjective
    <2>2. IsFiniteSet(1 .. N) /\ Cardinality(1 .. N) = N
      <3>1. \A n \in Nat : IsFiniteSet(1 .. n) /\ Cardinality(1 .. n) = n
        BY FS_Interval
      <3> QED  BY <1>1, <3>1
    <2> HIDE DEF rank
    <2> QED  BY <2>1, <2>2, FS_Injection DEF N
  <1>8. \A k \in 1 .. N : InTurn(S)[k] \in S /\ rank[InTurn(S)[k]] = k
    <2> SUFFICES ASSUME NEW k \in 1 .. N
                 PROVE  InTurn(S)[k] \in S /\ rank[InTurn(S)[k]] = k
      OBVIOUS
    <2>1. PICK s \in S : rank[s] = k
      <3> HIDE DEF rank
      <3> QED  BY <1>7 DEF Surjection
    <2>2. Cardinality(Before(s)) = k - 1
      BY <1>1, <1>2, <2>1
    <2>3. InTurn(S)[k] = CHOOSE t \in S : Cardinality(Before(t)) = k - 1
      BY DEF InTurn, N, Before
    <2>4. InTurn(S)[k] \in S /\ Cardinality(Before(InTurn(S)[k])) = k - 1
      BY <2>2, <2>3
    <2> QED  BY <1>1, <2>4
  <1> HIDE DEF rank
  <1>9. InTurn(S) \in [1 .. N -> S]
    <2> DEFINE At(k) == CHOOSE s \in S : Cardinality({t \in S : t < s}) = k - 1
    <2>1. InTurn(S) = [k \in 1 .. N |-> At(k)]
      BY DEF InTurn, N
    <2> HIDE DEF At
    <2>2. InTurn(S) = [k \in 1 .. N |-> InTurn(S)[k]]
      BY <2>1
    <2> QED  BY <1>8, <2>2
  <1>10. \A s \in S : \E k \in 1 .. N : InTurn(S)[k] = s
    <2> SUFFICES ASSUME NEW s \in S
                 PROVE  \E k \in 1 .. N : InTurn(S)[k] = s
      OBVIOUS
    <2>1. rank[s] \in 1 .. N
      BY <1>5
    <2>2. rank[InTurn(S)[rank[s]]] = rank[s] /\ InTurn(S)[rank[s]] \in S
      BY <1>8, <2>1
    <2> QED  BY <1>6, <2>1, <2>2
  <1>11. \A j, k \in 1 .. N : InTurn(S)[j] = InTurn(S)[k] => j = k
    BY <1>8
  <1> QED  BY <1>1, <1>9, <1>10, <1>11 DEF N

-----------------------------------------------------------------------------
(***************************************************************************)
(* The blocks of a file: they cover it, in its order, each of them a line  *)
(* or the rows of a table.                                                 *)
(***************************************************************************)
FileBlock == [line : Line \cup {[kind |-> "table"]}, at : SUBSET Nat]
Scan == [blocks : Seq(FileBlock), open : BOOLEAN, code : BOOLEAN]

IsTable(file, block) ==
    block.line.kind = "table" /\ \A i \in block.at : file[i].kind = "row"
IsLine(file, block) ==
    block.line.kind # "table" /\ \E i \in DOMAIN file : block.at = {i} /\ block.line = file[i]
SoundBlock(file, block) == IsTable(file, block) \/ IsLine(file, block)

AllCovered(bs, n) == \A i \in 1 .. n : \E b \in DOMAIN bs : i \in bs[b].at
AllWithin(bs, n) == \A b \in DOMAIN bs : bs[b].at # {} /\ bs[b].at \subseteq 1 .. n
InOrder(bs) == \A b, c \in DOMAIN bs : b < c =>
                   \A i \in bs[b].at, j \in bs[c].at : i < j
AllSound(file, bs) == \A b \in DOMAIN bs : SoundBlock(file, bs[b])
Spans(file, n, bs) ==
    /\ bs \in Seq(FileBlock)
    /\ AllCovered(bs, n) /\ AllWithin(bs, n) /\ InOrder(bs) /\ AllSound(file, bs)
\* while a table is open, it is the last block
KeepsPace(file, n, acc) ==
    /\ acc \in Scan
    /\ Spans(file, n, acc.blocks)
    /\ acc.open => Len(acc.blocks) # 0 /\ acc.blocks[Len(acc.blocks)].line.kind = "table"

LEMMA NoTableLine == \A line \in Line : line.kind # "table"
  BY DEF Line

LEMMA AppendSpans ==
    ASSUME NEW file, NEW n \in Nat, NEW bs, Spans(file, n, bs),
           NEW block \in FileBlock, block.at = {n + 1}, SoundBlock(file, block)
    PROVE  Spans(file, n + 1, Append(bs, block))
  <1> DEFINE cs == Append(bs, block)
             L == Len(bs)
  <1>1. bs \in Seq(FileBlock) /\ L \in Nat /\ DOMAIN bs = 1 .. L
    BY DEF Spans
  <1>2. /\ cs \in Seq(FileBlock) /\ DOMAIN cs = 1 .. L + 1
        /\ \A b \in 1 .. L : cs[b] = bs[b]
        /\ cs[L + 1] = block
    BY <1>1
  <1> HIDE DEF cs, L
  <1>3. AllCovered(cs, n + 1)
    <2> SUFFICES ASSUME NEW i \in 1 .. n + 1
                 PROVE  \E b \in DOMAIN cs : i \in cs[b].at
      BY DEF AllCovered
    <2>1. CASE i = n + 1
      <3>1. L + 1 \in DOMAIN cs /\ i \in cs[L + 1].at
        BY <1>1, <1>2, <2>1
      <3> QED  BY <3>1
    <2>2. CASE i # n + 1
      <3>1. i \in 1 .. n
        BY <2>2
      <3>2. PICK b \in DOMAIN bs : i \in bs[b].at
        BY <3>1 DEF Spans, AllCovered
      <3>3. b \in DOMAIN cs /\ cs[b] = bs[b]
        BY <1>1, <1>2
      <3> QED  BY <3>2, <3>3
    <2> QED  BY <2>1, <2>2
  <1>4. AllWithin(cs, n + 1)
    <2> SUFFICES ASSUME NEW b \in DOMAIN cs
                 PROVE  cs[b].at # {} /\ cs[b].at \subseteq 1 .. n + 1
      BY DEF AllWithin
    <2>1. CASE b = L + 1
      <3>1. cs[b].at = {n + 1}
        BY <1>2, <2>1
      <3>2. {n + 1} \subseteq 1 .. n + 1 /\ {n + 1} # {}
        OBVIOUS
      <3> QED  BY <3>1, <3>2
    <2>2. CASE b # L + 1
      <3>1. b \in DOMAIN bs /\ cs[b] = bs[b]
        BY <1>1, <1>2, <2>2
      <3>2. bs[b].at # {} /\ bs[b].at \subseteq 1 .. n
        BY <3>1 DEF Spans, AllWithin
      <3>3. 1 .. n \subseteq 1 .. n + 1
        OBVIOUS
      <3> QED  BY <3>1, <3>2, <3>3
    <2> QED  BY <2>1, <2>2
  <1>5. InOrder(cs)
    <2> SUFFICES ASSUME NEW b \in DOMAIN cs, NEW c \in DOMAIN cs, b < c,
                        NEW i \in cs[b].at, NEW j \in cs[c].at
                 PROVE  i < j
      BY DEF InOrder
    <2>1. b \in DOMAIN bs /\ cs[b] = bs[b]
      BY <1>1, <1>2
    <2>2. CASE c = L + 1
      <3>1. j = n + 1
        BY <1>2, <2>2
      <3>2. i \in 1 .. n
        BY <2>1 DEF Spans, AllWithin
      <3> QED  BY <3>1, <3>2
    <2>3. CASE c # L + 1
      <3>1. c \in DOMAIN bs /\ cs[c] = bs[c]
        BY <1>1, <1>2, <2>3
      <3> QED  BY <2>1, <3>1 DEF Spans, InOrder
    <2> QED  BY <2>2, <2>3
  <1>6. AllSound(file, cs)
    <2> SUFFICES ASSUME NEW b \in DOMAIN cs
                 PROVE  SoundBlock(file, cs[b])
      BY DEF AllSound
    <2>1. CASE b = L + 1
      BY <1>2, <2>1
    <2>2. CASE b # L + 1
      <3>1. b \in DOMAIN bs /\ cs[b] = bs[b]
        BY <1>1, <1>2, <2>2
      <3> QED  BY <3>1 DEF Spans, AllSound
    <2> QED  BY <2>1, <2>2
  <1> QED  BY <1>2, <1>3, <1>4, <1>5, <1>6 DEF Spans, cs

LEMMA GrowSpans ==
    ASSUME NEW file, NEW n \in Nat, NEW bs, Spans(file, n, bs),
           Len(bs) # 0, bs[Len(bs)].line.kind = "table", file[n + 1].kind = "row"
    PROVE  /\ Spans(file, n + 1, [bs EXCEPT ![Len(bs)].at = @ \cup {n + 1}])
           /\ LET cs == [bs EXCEPT ![Len(bs)].at = @ \cup {n + 1}]
              IN Len(cs) # 0 /\ cs[Len(cs)].line.kind = "table"
  <1> DEFINE L == Len(bs)
             cs == [bs EXCEPT ![L].at = @ \cup {n + 1}]
             last == [bs[L] EXCEPT !.at = @ \cup {n + 1}]
  <1>1. bs \in Seq(FileBlock) /\ L \in Nat /\ DOMAIN bs = 1 .. L /\ L # 0 /\ L \in 1 .. L
    BY DEF Spans
  <1>2. bs[L] \in FileBlock
    BY <1>1
  <1>3. last.line = bs[L].line /\ last.at = bs[L].at \cup {n + 1} /\ last \in FileBlock
    BY <1>2 DEF FileBlock
  <1>4. cs = [bs EXCEPT ![L] = last]
    OBVIOUS
  <1> HIDE DEF last
  <1>5. /\ cs \in Seq(FileBlock) /\ DOMAIN cs = 1 .. L /\ Len(cs) = L
        /\ \A b \in 1 .. L : b # L => cs[b] = bs[b]
        /\ cs[L] = last
    <2> HIDE DEF cs
    <2>1. \A b \in 1 .. L : bs[b] \in FileBlock
      BY <1>1
    <2>2. cs = [b \in 1 .. L |-> IF b = L THEN last ELSE bs[b]]
      BY <1>1, <1>4
    <2>3. cs \in [1 .. L -> FileBlock]
      BY <1>3, <2>1, <2>2
    <2>4. cs \in Seq(FileBlock) /\ DOMAIN cs = 1 .. L /\ Len(cs) = L
      BY <1>1, <2>3
    <2> QED  BY <1>1, <2>2, <2>4
  <1> HIDE DEF cs
  <1>6. \A b \in 1 .. L : cs[b].at \ {n + 1} = bs[b].at
    <2> SUFFICES ASSUME NEW b \in 1 .. L
                 PROVE  cs[b].at \ {n + 1} = bs[b].at
      OBVIOUS
    <2>1. bs[b].at \subseteq 1 .. n /\ n + 1 \notin 1 .. n
      BY <1>1 DEF Spans, AllWithin
    <2> QED  BY <1>3, <1>5, <2>1
  <1>7. \A b \in 1 .. L : n + 1 \in cs[b].at <=> b = L
    <2> SUFFICES ASSUME NEW b \in 1 .. L
                 PROVE  n + 1 \in cs[b].at <=> b = L
      OBVIOUS
    <2>1. bs[b].at \subseteq 1 .. n /\ n + 1 \notin 1 .. n
      BY <1>1 DEF Spans, AllWithin
    <2> QED  BY <1>3, <1>5, <2>1
  <1>8. AllCovered(cs, n + 1)
    <2> SUFFICES ASSUME NEW i \in 1 .. n + 1
                 PROVE  \E b \in DOMAIN cs : i \in cs[b].at
      BY DEF AllCovered
    <2>1. CASE i = n + 1
      BY <1>1, <1>5, <1>7, <2>1
    <2>2. CASE i # n + 1
      <3>1. i \in 1 .. n
        BY <2>2
      <3>2. PICK b \in DOMAIN bs : i \in bs[b].at
        BY <3>1 DEF Spans, AllCovered
      <3> QED  BY <1>1, <1>5, <1>6, <3>2
    <2> QED  BY <2>1, <2>2
  <1>9. AllWithin(cs, n + 1)
    <2> SUFFICES ASSUME NEW b \in DOMAIN cs
                 PROVE  cs[b].at # {} /\ cs[b].at \subseteq 1 .. n + 1
      BY DEF AllWithin
    <2>1. bs[b].at # {} /\ bs[b].at \subseteq 1 .. n
      BY <1>1, <1>5 DEF Spans, AllWithin
    <2>2. cs[b].at \ {n + 1} = bs[b].at
      BY <1>5, <1>6
    <2>3. 1 .. n \subseteq 1 .. n + 1 /\ n + 1 \in 1 .. n + 1
      OBVIOUS
    <2> QED  BY <2>1, <2>2, <2>3
  <1>10. InOrder(cs)
    <2> SUFFICES ASSUME NEW b \in DOMAIN cs, NEW c \in DOMAIN cs, b < c,
                        NEW i \in cs[b].at, NEW j \in cs[c].at
                 PROVE  i < j
      BY DEF InOrder
    <2>1. b \in 1 .. L /\ c \in 1 .. L /\ b # L
      <3>1. b \in 1 .. L /\ c \in 1 .. L
        BY <1>5
      <3> QED  BY <1>1, <3>1
    <2>2. i \in bs[b].at
      BY <1>5, <2>1
    <2>3. CASE j = n + 1
      <3>1. i \in 1 .. n
        BY <1>1, <2>1, <2>2 DEF Spans, AllWithin
      <3> QED  BY <2>3, <3>1
    <2>4. CASE j # n + 1
      <3>1. j \in bs[c].at
        BY <1>6, <2>1, <2>4
      <3> QED  BY <1>1, <2>1, <2>2, <3>1 DEF Spans, InOrder
    <2> QED  BY <2>3, <2>4
  <1>11. AllSound(file, cs)
    <2> SUFFICES ASSUME NEW b \in DOMAIN cs
                 PROVE  SoundBlock(file, cs[b])
      BY DEF AllSound
    <2>1. b \in 1 .. L /\ SoundBlock(file, bs[b])
      BY <1>1, <1>5 DEF Spans, AllSound
    <2>2. CASE b # L
      BY <1>5, <2>1, <2>2
    <2>3. CASE b = L
      <3>1. IsTable(file, bs[L])
        BY <2>1, <2>3 DEF SoundBlock, IsLine
      <3>2. IsTable(file, last)
        BY <1>3, <3>1 DEF IsTable
      <3> QED  BY <1>5, <2>3, <3>2 DEF SoundBlock
    <2> QED  BY <2>2, <2>3
  <1>12. Spans(file, n + 1, cs)
    BY <1>5, <1>8, <1>9, <1>10, <1>11 DEF Spans
  <1>13. Len(cs) # 0 /\ cs[Len(cs)].line.kind = "table"
    BY <1>1, <1>3, <1>5
  <1> QED  BY <1>12, <1>13 DEF cs, L

LEMMA ScannedTyped ==
    ASSUME NEW file \in Seq(Line), NEW i \in 1 .. Len(file), NEW acc,
           KeepsPace(file, i - 1, acc)
    PROVE  KeepsPace(file, i, Scanned(file, acc, i))
  <1> DEFINE line == file[i]
             n == i - 1
             own == [acc EXCEPT !.blocks = Append(@, BlockOf(line, i)), !.open = FALSE]
             opened == [acc EXCEPT !.blocks = Append(@, BlockOf([kind |-> "table"], i)), !.open = TRUE]
             grown == [acc EXCEPT !.blocks[Len(acc.blocks)].at = @ \cup {i}]
             more == [acc.blocks EXCEPT ![Len(acc.blocks)].at = @ \cup {i}]
  <1>1. i \in Nat /\ n \in Nat /\ n + 1 = i /\ i \in DOMAIN file /\ line \in Line
    OBVIOUS
  <1>2. acc \in Scan /\ Spans(file, n, acc.blocks) /\ acc.blocks \in Seq(FileBlock)
    BY DEF KeepsPace, Scan
  <1>3. acc \in [blocks : Seq(FileBlock), open : BOOLEAN, code : BOOLEAN]
    BY <1>2 DEF Scan
  <1>4. /\ own.blocks = Append(acc.blocks, BlockOf(line, i)) /\ own.open = FALSE
        /\ opened.blocks = Append(acc.blocks, BlockOf([kind |-> "table"], i))
        /\ opened.open = TRUE
        /\ grown.blocks = more /\ grown.open = acc.open
    <2> HIDE DEF line, more
    <2>1. own.blocks = Append(acc.blocks, BlockOf(line, i)) /\ own.open = FALSE
      BY <1>3
    <2>2. /\ opened.blocks = Append(acc.blocks, BlockOf([kind |-> "table"], i))
          /\ opened.open = TRUE
      BY <1>3
    <2>3. grown.blocks = more /\ grown.open = acc.open
      BY <1>3 DEF more
    <2> QED  BY <2>1, <2>2, <2>3
  <1>5. /\ Append(acc.blocks, BlockOf(line, i)) \in Seq(FileBlock) => own \in Scan
        /\ Append(acc.blocks, BlockOf([kind |-> "table"], i)) \in Seq(FileBlock) => opened \in Scan
        /\ more \in Seq(FileBlock) => grown \in Scan
    <2> HIDE DEF line, more
    <2>1. Append(acc.blocks, BlockOf(line, i)) \in Seq(FileBlock) => own \in Scan
      BY <1>3 DEF Scan
    <2>2. Append(acc.blocks, BlockOf([kind |-> "table"], i)) \in Seq(FileBlock) => opened \in Scan
      BY <1>3 DEF Scan
    <2>3. more \in Seq(FileBlock) => grown \in Scan
      BY <1>3 DEF Scan, more
    <2> QED  BY <2>1, <2>2, <2>3
  <1> HIDE DEF own, opened, grown, more, line, n
  <1>6. KeepsPace(file, i, own)
    <2>1. BlockOf(line, i) \in FileBlock /\ BlockOf(line, i).at = {i} /\ BlockOf(line, i).line = line
      BY <1>1 DEF BlockOf, FileBlock
    <2>2. SoundBlock(file, BlockOf(line, i))
      <3>1. line.kind # "table"
        BY <1>1, NoTableLine
      <3>2. IsLine(file, BlockOf(line, i))
        BY <1>1, <2>1, <3>1 DEF IsLine, line
      <3> QED  BY <3>2 DEF SoundBlock
    <2>3. Spans(file, i, own.blocks)
      <3>1. Spans(file, n + 1, Append(acc.blocks, BlockOf(line, i)))
        BY <1>1, <1>2, <2>1, <2>2, AppendSpans
      <3> QED  BY <1>1, <1>4, <3>1
    <2>4. own.blocks \in Seq(FileBlock)
      BY <2>3 DEF Spans
    <2>5. own \in Scan
      BY <1>4, <1>5, <2>4
    <2> QED  BY <1>4, <2>3, <2>5 DEF KeepsPace
  <1>7. ASSUME TableBegins(file, i)
        PROVE  KeepsPace(file, i, opened)
    <2> DEFINE block == BlockOf([kind |-> "table"], i)
    <2>1. block \in FileBlock /\ block.at = {i} /\ block.line.kind = "table"
      BY <1>1 DEF BlockOf, FileBlock
    <2>2. SoundBlock(file, block)
      BY <1>7, <2>1 DEF SoundBlock, IsTable, TableBegins
    <2>3. opened.blocks = Append(acc.blocks, block)
      BY <1>4
    <2> HIDE DEF block
    <2>4. Spans(file, i, opened.blocks)
      <3>1. Spans(file, n + 1, Append(acc.blocks, block))
        BY <1>1, <1>2, <2>1, <2>2, AppendSpans
      <3> QED  BY <1>1, <2>3, <3>1
    <2>5. opened.blocks \in Seq(FileBlock)
      BY <2>4 DEF Spans
    <2>6. opened \in Scan
      BY <1>4, <1>5, <2>5
    <2>7. Len(opened.blocks) # 0 /\ opened.blocks[Len(opened.blocks)] = block
      BY <1>2, <2>1, <2>3
    <2> QED  BY <2>1, <2>4, <2>6, <2>7 DEF KeepsPace
  <1>8. ASSUME acc.open, line.kind = "row"
        PROVE  KeepsPace(file, i, grown)
    <2>1. Len(acc.blocks) # 0 /\ acc.blocks[Len(acc.blocks)].line.kind = "table"
      BY <1>8 DEF KeepsPace
    <2>2. Spans(file, i, more) /\ Len(more) # 0 /\ more[Len(more)].line.kind = "table"
      BY <1>1, <1>2, <1>8, <2>1, GrowSpans DEF more, line
    <2>3. more \in Seq(FileBlock)
      BY <2>2 DEF Spans
    <2>4. grown \in Scan
      BY <1>4, <1>5, <2>3
    <2> QED  BY <1>4, <2>2, <2>4 DEF KeepsPace
  <1>9. KeepsPace(file, i, [own EXCEPT !.code = ~@])
    <2> DEFINE other == [own EXCEPT !.code = ~@]
    <2>1. own \in Scan
      BY <1>6 DEF KeepsPace
    <2>2. other \in Scan /\ other.blocks = own.blocks /\ other.open = own.open
      BY <2>1 DEF Scan
    <2> HIDE DEF other
    <2>3. KeepsPace(file, i, other)
      BY <1>4, <1>6, <2>2 DEF KeepsPace
    <2> QED  BY <2>3 DEF other
  <1>10. Scanned(file, acc, i) =
           IF acc.open /\ line.kind = "row" THEN grown
           ELSE IF line.kind = "fence" THEN [own EXCEPT !.code = ~@]
           ELSE IF ~acc.code /\ TableBegins(file, i) THEN opened ELSE own
    BY DEF Scanned, grown, own, opened, line
  <1> QED  BY <1>6, <1>7, <1>8, <1>9, <1>10

LEMMA ProtectedSpans ==
    ASSUME NEW file \in Seq(Line)
    PROVE  Spans(file, Len(file), Protected(file))
  <1> DEFINE L == Len(file)
             start == [blocks |-> <<>>, open |-> FALSE, code |-> FALSE]
             Move(n, acc) == Scanned(file, acc, n)
             step == [x \in (1 .. L) \X Scan |->
                        IF KeepsPace(file, x[1] - 1, x[2]) THEN Move(x[1], x[2]) ELSE start]
             scan == CHOOSE f : f = [n \in 0 .. L |-> IF n = 0 THEN start ELSE Move(n, f[n - 1])]
  <1>1. L \in Nat /\ DOMAIN file = 1 .. L
    OBVIOUS
  <1>2. start \in Scan /\ KeepsPace(file, 0, start)
    <2>1. <<>> \in Seq(FileBlock) /\ DOMAIN <<>> = {} /\ 1 .. 0 = {}
      OBVIOUS
    <2>2. Spans(file, 0, <<>>)
      <3>1. AllCovered(<<>>, 0)
        BY <2>1 DEF AllCovered
      <3>2. AllWithin(<<>>, 0)
        BY <2>1 DEF AllWithin
      <3>3. InOrder(<<>>)
        BY <2>1 DEF InOrder
      <3>4. AllSound(file, <<>>)
        BY <2>1 DEF AllSound
      <3> QED  BY <2>1, <3>1, <3>2, <3>3, <3>4 DEF Spans
    <2>3. start \in Scan
      BY <2>1 DEF Scan
    <2> QED  BY <2>2, <2>3 DEF KeepsPace
  <1>3. \A n \in 1 .. L : \A acc : KeepsPace(file, n - 1, acc) => KeepsPace(file, n, Move(n, acc))
    <2> SUFFICES ASSUME NEW n \in 1 .. L, NEW acc, KeepsPace(file, n - 1, acc)
                 PROVE  KeepsPace(file, n, Move(n, acc))
      OBVIOUS
    <2> QED  BY ScannedTyped
  <1> HIDE DEF L, start, Move
  <1>4. step \in [(1 .. L) \X Scan -> Scan]
    <2>1. ASSUME NEW x \in (1 .. L) \X Scan, KeepsPace(file, x[1] - 1, x[2])
          PROVE  Move(x[1], x[2]) \in Scan
      <3>1. x[1] \in 1 .. L
        OBVIOUS
      <3> QED  BY <1>3, <2>1, <3>1 DEF KeepsPace
    <2> QED  BY <1>2, <2>1
  <1>5. PICK f : IsLoop(f, Scan, start, L, step)
    <2> HIDE DEF step
    <2> QED  BY <1>1, <1>2, <1>4, Recursion
  <1>6. ASSUME NEW n \in 1 .. L, KeepsPace(file, n - 1, f[n - 1])
        PROVE  f[n] = Move(n, f[n - 1]) /\ KeepsPace(file, n, f[n])
    <2>1. f[n] = step[<<n, f[n - 1]>>]
      <3> HIDE DEF step
      <3> QED  BY <1>5 DEF IsLoop
    <2>2. <<n, f[n - 1]>> \in (1 .. L) \X Scan
      BY <1>6 DEF KeepsPace
    <2>3. f[n] = Move(n, f[n - 1])
      BY <1>6, <2>1, <2>2
    <2> QED  BY <1>3, <1>6, <2>3
  <1> HIDE DEF step
  <1>7. \A n \in Nat : n <= L => KeepsPace(file, n, f[n])
    <2> DEFINE S == {n \in Nat : n <= L => KeepsPace(file, n, f[n])}
    <2>1. 0 \in S /\ S \in SUBSET Nat
      BY <1>2, <1>5 DEF IsLoop
    <2>2. ASSUME NEW n \in S
          PROVE  n + 1 \in S
      <3>1. n \in Nat /\ (n + 1) - 1 = n
        OBVIOUS
      <3>2. ASSUME n + 1 <= L
            PROVE  KeepsPace(file, n + 1, f[n + 1])
        <4>1. n + 1 \in 1 .. L /\ KeepsPace(file, n, f[n])
          BY <1>1, <3>1, <3>2
        <4> QED  BY <1>6, <3>1, <4>1
      <3> QED  BY <3>1, <3>2
    <2> HIDE DEF S
    <2>3. S = Nat
      BY <2>1, <2>2, Induction
    <2> QED  BY <2>3 DEF S
  <1>8. f = [n \in 0 .. L |-> IF n = 0 THEN start ELSE Move(n, f[n - 1])]
    <2>1. f = [n \in 0 .. L |-> f[n]] /\ f[0] = start
      BY <1>5 DEF IsLoop
    <2>2. ASSUME NEW n \in 1 .. L
          PROVE  f[n] = Move(n, f[n - 1])
      <3>1. n - 1 \in Nat /\ n - 1 <= L
        BY <1>1
      <3> QED  BY <1>6, <1>7, <3>1
    <2>3. \A n \in 0 .. L : n = 0 \/ n \in 1 .. L
      BY <1>1
    <2>4. \A n \in 0 .. L : f[n] = IF n = 0 THEN start ELSE Move(n, f[n - 1])
      BY <2>1, <2>2, <2>3
    <2> QED  BY <2>1, <2>4
  <1>9. scan = [n \in 0 .. L |-> IF n = 0 THEN start ELSE Move(n, scan[n - 1])]
    BY <1>8
  <1>10. Protected(file) = scan[L].blocks
    BY DEF Protected, Move, L, start
  <1> HIDE DEF scan
  <1>11. scan[0] = start /\ \A n \in 1 .. L : scan[n] = Move(n, scan[n - 1])
    <2>1. 0 \in 0 .. L /\ \A n \in 1 .. L : n \in 0 .. L /\ n # 0
      BY <1>1
    <2>2. \A n \in 0 .. L : scan[n] = IF n = 0 THEN start ELSE Move(n, scan[n - 1])
      BY <1>9
    <2> QED  BY <2>1, <2>2
  <1>12. KeepsPace(file, L, scan[L])
    <2> DEFINE S == {n \in Nat : n <= L => KeepsPace(file, n, scan[n])}
    <2>1. 0 \in S /\ S \in SUBSET Nat
      BY <1>2, <1>11
    <2>2. ASSUME NEW n \in S
          PROVE  n + 1 \in S
      <3>1. n \in Nat /\ (n + 1) - 1 = n
        OBVIOUS
      <3>2. ASSUME n + 1 <= L
            PROVE  KeepsPace(file, n + 1, scan[n + 1])
        <4>1. n + 1 \in 1 .. L /\ KeepsPace(file, n, scan[n])
          BY <1>1, <3>1, <3>2
        <4>2. scan[n + 1] = Move(n + 1, scan[n])
          BY <1>11, <3>1, <4>1
        <4>3. KeepsPace(file, n + 1, Move(n + 1, scan[n]))
          BY <1>3, <3>1, <4>1
        <4> QED  BY <4>2, <4>3
      <3> QED  BY <3>1, <3>2
    <2> HIDE DEF S
    <2>3. S = Nat
      BY <2>1, <2>2, Induction
    <2> QED  BY <1>1, <2>3 DEF S
  <1> QED  BY <1>10, <1>12 DEF KeepsPace, L

-----------------------------------------------------------------------------
(***************************************************************************)
(* Documents that are cut from blocks: the document k holds the blocks     *)
(* part[k].                                                                *)
(***************************************************************************)
IsCut(bs, D, part) ==
    /\ \E A : D \in Seq(A)
    /\ part \in [DOMAIN D -> SUBSET DOMAIN bs]
    /\ \A k \in DOMAIN D : D[k].lines = LinesOf(bs, part[k])
    /\ \A k, l \in DOMAIN D : D[k].id = D[l].id => k = l
Once(part, c) == \E k \in DOMAIN part : c \in part[k] /\ \A l \in DOMAIN part : c \in part[l] => l = k
Paired(part, b, c) == \A k \in DOMAIN part : b \in part[k] <=> c \in part[k]

LEMMA BlockIsOne ==
    ASSUME NEW file, NEW n \in Nat, NEW bs, Spans(file, n, bs),
           NEW b \in DOMAIN bs, NEW c \in DOMAIN bs, NEW i \in bs[b].at, i \in bs[c].at
    PROVE  b = c
  <1>1. i \in Nat /\ ~(i < i)
    <2>1. i \in 1 .. n
      BY DEF Spans, AllWithin
    <2> QED  BY <2>1
  <1>2. ~(b < c) /\ ~(c < b)
    BY <1>1 DEF Spans, InOrder
  <1>3. b \in Nat /\ c \in Nat
    <2>1. DOMAIN bs = 1 .. Len(bs)
      BY DEF Spans
    <2> QED  BY <2>1
  <1> QED  BY <1>2, <1>3

LEMMA HeldIs ==
    ASSUME NEW file, NEW n \in Nat, NEW bs, Spans(file, n, bs),
           NEW D, NEW part, IsCut(bs, D, part),
           NEW c \in DOMAIN bs, NEW k \in DOMAIN D
    PROVE  /\ \A i \in bs[c].at : i \in D[k].lines <=> c \in part[k]
           /\ bs[c].at \subseteq D[k].lines <=> c \in part[k]
  <1>1. part[k] \subseteq DOMAIN bs /\ D[k].lines = UNION {bs[b].at : b \in part[k]}
    BY DEF IsCut, LinesOf
  <1>2. ASSUME NEW i \in bs[c].at
        PROVE  i \in D[k].lines <=> c \in part[k]
    <2>1. ASSUME i \in D[k].lines
          PROVE  c \in part[k]
      <3>1. PICK b \in part[k] : i \in bs[b].at
        BY <1>1, <2>1
      <3>2. b = c
        BY <1>1, <3>1, BlockIsOne
      <3> QED  BY <3>1, <3>2
    <2>2. c \in part[k] => i \in D[k].lines
      BY <1>1
    <2> QED  BY <2>1, <2>2
  <1>3. PICK i : i \in bs[c].at
    BY DEF Spans, AllWithin
  <1> QED  BY <1>2, <1>3

LEMMA OnceIsOne ==
    ASSUME NEW part, NEW c, Once(part, c)
    PROVE  Cardinality({k \in DOMAIN part : c \in part[k]}) = 1
  <1>1. PICK k \in DOMAIN part : c \in part[k] /\ \A l \in DOMAIN part : c \in part[l] => l = k
    BY DEF Once
  <1>2. {l \in DOMAIN part : c \in part[l]} = {k}
    BY <1>1
  <1> QED  BY <1>2, FS_Singleton

LEMMA PreambleIs ==
    ASSUME NEW bs, NEW S, NEW D, NEW part, IsCut(bs, D, part),
           \A k \in DOMAIN D : D[k].id # <<"preamble">>,
           \A k \in DOMAIN D : \A c \in part[k] : c \notin Preamble(bs, S)
    PROVE  \E p : /\ IsCut(bs, AfterPreamble(bs, S, D), p)
                  /\ \A c \in Preamble(bs, S) : Once(p, c)
                  /\ \A c : c \notin Preamble(bs, S) /\ Once(part, c) => Once(p, c)
                  /\ \A b, c : /\ b \notin Preamble(bs, S) /\ c \notin Preamble(bs, S)
                               /\ Paired(part, b, c)
                               => Paired(p, b, c)
  <1> DEFINE before == Preamble(bs, S)
             first == SectionDocument(<<"preamble">>, <<>>, LinesOf(bs, before))
             L == Len(D)
             E == <<first>> \o D
             p == [k \in 1 .. L + 1 |-> IF k = 1 THEN before ELSE part[k - 1]]
  <1>1. before \subseteq DOMAIN bs
    BY DEF Preamble
  <1>2. L \in Nat /\ DOMAIN D = 1 .. L /\ DOMAIN part = 1 .. L
    BY DEF IsCut
  <1>3. first.id = <<"preamble">> /\ first.lines = LinesOf(bs, before)
    BY DEF SectionDocument
  <1>4. PICK A : D \in Seq(A)
    BY DEF IsCut
  <1> HIDE DEF first, before
  <1>5. /\ E \in Seq(A \cup {first}) /\ DOMAIN E = 1 .. L + 1 /\ E[1] = first
        /\ \A k \in 2 .. L + 1 : E[k] = D[k - 1]
    <2>1. D \in Seq(A \cup {first}) /\ <<first>> \in Seq(A \cup {first})
      BY <1>4
    <2> QED  BY <1>2, <2>1
  <1> HIDE DEF E
  <1>6. /\ p[1] = before /\ DOMAIN p = 1 .. L + 1
        /\ \A k \in 2 .. L + 1 : p[k] = part[k - 1] /\ k - 1 \in 1 .. L
    BY <1>2
  <1>7. \A k \in 1 .. L + 1 : k = 1 \/ k \in 2 .. L + 1
    BY <1>2
  <1>8. \A k \in 1 .. L : k + 1 \in 2 .. L + 1 /\ k + 1 \in 1 .. L + 1 /\ (k + 1) - 1 = k
    BY <1>2
  <1>8a. \A k \in 2 .. L + 1 : k \in Nat /\ (k - 1) + 1 = k /\ k # 1
    BY <1>2
  <1>8b. 1 \in 1 .. L + 1
    BY <1>2
  <1>9. p \in [1 .. L + 1 -> SUBSET DOMAIN bs]
    <2>1. \A k \in 1 .. L : part[k] \subseteq DOMAIN bs
      BY <1>2 DEF IsCut
    <2>2. \A k \in 1 .. L + 1 : p[k] \subseteq DOMAIN bs
      <3> HIDE DEF p
      <3> QED  BY <1>1, <1>6, <1>7, <2>1
    <2> QED  BY <2>2
  <1> HIDE DEF p
  <1>10. IsCut(bs, E, p)
    <2>1. ASSUME NEW k \in DOMAIN E
          PROVE  E[k].lines = LinesOf(bs, p[k])
      <3>1. CASE k = 1
        BY <1>3, <1>5, <1>6, <3>1
      <3>2. CASE k # 1
        <4>1. k \in 2 .. L + 1
          BY <1>5, <1>7, <3>2
        <4>2. E[k] = D[k - 1] /\ p[k] = part[k - 1] /\ k - 1 \in DOMAIN D
          BY <1>2, <1>5, <1>6, <4>1
        <4>3. D[k - 1].lines = LinesOf(bs, part[k - 1])
          BY <4>2 DEF IsCut
        <4> QED  BY <4>2, <4>3
      <3> QED  BY <3>1, <3>2
    <2>2. ASSUME NEW k \in DOMAIN E, NEW l \in DOMAIN E, E[k].id = E[l].id
          PROVE  k = l
      <3>1. CASE k = 1 /\ l = 1
        BY <3>1
      <3>2. CASE k = 1 /\ l # 1
        <4>1. l \in 2 .. L + 1 /\ l - 1 \in DOMAIN D /\ E[l] = D[l - 1]
          BY <1>2, <1>5, <1>6, <1>7, <3>2
        <4> QED  BY <1>3, <1>5, <2>2, <3>2, <4>1
      <3>3. CASE k # 1 /\ l = 1
        <4>1. k \in 2 .. L + 1 /\ k - 1 \in DOMAIN D /\ E[k] = D[k - 1]
          BY <1>2, <1>5, <1>6, <1>7, <3>3
        <4> QED  BY <1>3, <1>5, <2>2, <3>3, <4>1
      <3>4. CASE k # 1 /\ l # 1
        <4>1. k \in 2 .. L + 1 /\ k - 1 \in DOMAIN D /\ E[k] = D[k - 1]
          BY <1>2, <1>5, <1>6, <1>7, <3>4
        <4>2. l \in 2 .. L + 1 /\ l - 1 \in DOMAIN D /\ E[l] = D[l - 1]
          BY <1>2, <1>5, <1>6, <1>7, <3>4
        <4>3. k - 1 = l - 1
          BY <2>2, <4>1, <4>2 DEF IsCut
        <4> QED  BY <1>8a, <4>1, <4>2, <4>3
      <3> QED  BY <3>1, <3>2, <3>3, <3>4
    <2>3. p \in [DOMAIN E -> SUBSET DOMAIN bs]
      BY <1>5, <1>9
    <2> QED  BY <1>5, <2>1, <2>2, <2>3 DEF IsCut
  <1>11. \A k \in 1 .. L : \A c \in part[k] : c \notin before
    BY <1>2 DEF before
  <1>12. ASSUME NEW c \in before
         PROVE  Once(p, c)
    <2>1. \A l \in DOMAIN p : c \in p[l] => l = 1
      BY <1>6, <1>7, <1>11
    <2> QED  BY <1>6, <1>8b, <2>1 DEF Once
  <1>13. ASSUME NEW c, c \notin before, Once(part, c)
         PROVE  Once(p, c)
    <2>1. PICK k \in 1 .. L : c \in part[k] /\ \A l \in 1 .. L : c \in part[l] => l = k
      BY <1>2, <1>13 DEF Once
    <2>2. k + 1 \in DOMAIN p /\ c \in p[k + 1]
      BY <1>6, <1>8, <2>1
    <2>3. ASSUME NEW l \in DOMAIN p, c \in p[l]
          PROVE  l = k + 1
      <3>1. l \in 2 .. L + 1
        BY <1>6, <1>7, <1>13, <2>3
      <3>2. l - 1 = k
        BY <1>6, <2>1, <2>3, <3>1
      <3> QED  BY <1>8a, <3>1, <3>2
    <2> QED  BY <2>2, <2>3 DEF Once
  <1>14. ASSUME NEW b, NEW c, b \notin before, c \notin before, Paired(part, b, c)
         PROVE  Paired(p, b, c)
    <2> SUFFICES ASSUME NEW k \in DOMAIN p
                 PROVE  b \in p[k] <=> c \in p[k]
      BY DEF Paired
    <2>1. CASE k = 1
      BY <1>6, <1>14, <2>1
    <2>2. CASE k # 1
      BY <1>2, <1>6, <1>7, <1>14, <2>2 DEF Paired
    <2> QED  BY <2>1, <2>2
  <1>15. CASE before = {}
    <2>1. AfterPreamble(bs, S, D) = D
      BY <1>15 DEF AfterPreamble, before
    <2> QED  BY <1>15, <2>1 DEF before
  <1>16. CASE before # {}
    <2>1. AfterPreamble(bs, S, D) = E
      BY <1>16 DEF AfterPreamble, before, E, first
    <2>2. IsCut(bs, AfterPreamble(bs, S, D), p)
      BY <1>10, <2>1
    <2> QED  BY <1>12, <1>13, <1>14, <2>2 DEF before
  <1> QED  BY <1>15, <1>16

LEMMA StretchIs ==
    ASSUME NEW bs, NEW A, bs \in Seq(A), NEW S \in SUBSET DOMAIN bs, NEW c \in DOMAIN bs
    PROVE  /\ c \in Preamble(bs, S) => \A s \in S : c \notin Stretch(bs, S, s)
           /\ c \notin Preamble(bs, S) =>
                  \E s \in S : /\ s <= c /\ (\A t \in S : s < t => c < t)
                               /\ c \in Stretch(bs, S, s)
                               /\ \A t \in S : c \in Stretch(bs, S, t) => t = s
  <1>1. DOMAIN bs \subseteq Nat
    <2>1. DOMAIN bs = 1 .. Len(bs)
      OBVIOUS
    <2> QED  BY <2>1
  <1>2. S \subseteq Nat /\ c \in Nat
    BY <1>1
  <1>3. ASSUME c \in Preamble(bs, S), NEW s \in S
        PROVE  c \notin Stretch(bs, S, s)
    BY <1>2, <1>3 DEF Preamble, Stretch
  <1>4. ASSUME c \notin Preamble(bs, S)
        PROVE  \E s \in S : /\ s <= c /\ (\A t \in S : s < t => c < t)
                            /\ c \in Stretch(bs, S, s)
                            /\ \A t \in S : c \in Stretch(bs, S, t) => t = s
    <2> DEFINE T == {s \in S : s <= c}
    <2>1. T \in SUBSET Nat /\ T # {} /\ \A s \in T : s <= c
      BY <1>2, <1>4 DEF Preamble
    <2> HIDE DEF T
    <2>2. PICK s \in T : \A t \in T : t <= s
      BY <1>2, <2>1, GreatestExists
    <2>3. s \in S /\ s <= c /\ s \in Nat
      BY <2>2 DEF T
    <2>4. \A t \in S : s < t => c < t
      BY <1>2, <2>2, <2>3 DEF T
    <2>5. c \in Stretch(bs, S, s)
      BY <2>3, <2>4 DEF Stretch
    <2>6. ASSUME NEW t \in S, c \in Stretch(bs, S, t)
          PROVE  t = s
      <3>1. t <= c /\ \A r \in S : r > t => c < r
        BY <2>6 DEF Stretch
      <3>2. ~(t < s) /\ ~(s < t)
        BY <1>2, <2>3, <2>4, <3>1
      <3> QED  BY <1>2, <2>3, <3>2
    <2> QED  BY <2>3, <2>4, <2>5, <2>6
  <1> QED  BY <1>3, <1>4

LEMMA PlacesAreFinite ==
    ASSUME NEW bs, NEW A, bs \in Seq(A), NEW T \in SUBSET DOMAIN bs
    PROVE  IsFiniteSet(T) /\ T \in SUBSET Nat
  <1>1. DOMAIN bs = 1 .. Len(bs) /\ Len(bs) \in Nat
    OBVIOUS
  <1>2. \A n \in Nat : IsFiniteSet(1 .. n) /\ 1 .. n \subseteq Nat
    BY FS_Interval
  <1>3. IsFiniteSet(DOMAIN bs) /\ DOMAIN bs \subseteq Nat
    BY <1>1, <1>2
  <1>4. IsFiniteSet(T)
    BY <1>3, FS_Subset
  <1> QED  BY <1>3, <1>4

\* a document for each place of T, in turn: the one for t holds body[t]
KeptBy(part, T, body) ==
    \A c : (\E t \in T : c \in body[t] /\ \A u \in T : c \in body[u] => u = t) => Once(part, c)
PairedBy(part, T, body) ==
    \A b, c : (\A t \in T : b \in body[t] <=> c \in body[t]) => Paired(part, b, c)

IsOrder(order, T) ==
    \E N \in Nat : /\ order \in [1 .. N -> T]
                   /\ \A t \in T : \E k \in 1 .. N : order[k] = t
                   /\ \A j, k \in 1 .. N : order[j] = order[k] => j = k
WrittenFor(D, bs, order, body) ==
    \E id, path : /\ \A k, l \in DOMAIN order : id[k] = id[l] => k = l
                  /\ D = [k \in DOMAIN order |->
                             SectionDocument(id[k], path[k], LinesOf(bs, body[order[k]]))]

LEMMA OrderIs ==
    ASSUME NEW bs, NEW A, bs \in Seq(A), NEW T \in SUBSET DOMAIN bs,
           NEW order, order = InTurn(T)
    PROVE  IsOrder(order, T)
  <1>1. IsFiniteSet(T) /\ T \in SUBSET Nat
    BY PlacesAreFinite
  <1> DEFINE N == Cardinality(T)
  <1>2. /\ N \in Nat /\ order \in [1 .. N -> T]
        /\ \A t \in T : \E k \in 1 .. N : order[k] = t
        /\ \A j, k \in 1 .. N : order[j] = order[k] => j = k
    BY <1>1, InTurnIs
  <1> HIDE DEF N
  <1> QED  BY <1>2 DEF IsOrder

LEMMA TurnsKeep ==
    ASSUME NEW bs, NEW A, bs \in Seq(A), NEW T \in SUBSET DOMAIN bs,
           NEW order, order = InTurn(T), NEW body, NEW part,
           part = [k \in DOMAIN order |-> body[order[k]]]
    PROVE  KeptBy(part, T, body) /\ PairedBy(part, T, body)
  <1>1. PICK N \in Nat : /\ order \in [1 .. N -> T]
                         /\ \A t \in T : \E k \in 1 .. N : order[k] = t
                         /\ \A j, k \in 1 .. N : order[j] = order[k] => j = k
    <2>1. IsOrder(order, T)
      BY OrderIs
    <2> QED  BY <2>1 DEF IsOrder
  <1>2. \A k \in 1 .. N : order[k] \in T
    BY <1>1
  <1>3. DOMAIN part = 1 .. N /\ \A k \in 1 .. N : part[k] = body[order[k]]
    BY <1>1
  <1>4. ASSUME NEW c, NEW t \in T, c \in body[t], \A u \in T : c \in body[u] => u = t
        PROVE  Once(part, c)
    <2>1. PICK k \in 1 .. N : order[k] = t
      BY <1>1
    <2>2. ASSUME NEW l \in 1 .. N, c \in part[l]
          PROVE  l = k
      <3>1. order[l] = t
        BY <1>2, <1>3, <1>4, <2>2
      <3> QED  BY <1>1, <2>1, <3>1
    <2> QED  BY <1>3, <1>4, <2>1, <2>2 DEF Once
  <1>5. ASSUME NEW b, NEW c, \A t \in T : b \in body[t] <=> c \in body[t]
        PROVE  Paired(part, b, c)
    BY <1>2, <1>3, <1>5 DEF Paired
  <1>6. KeptBy(part, T, body)
    BY <1>4 DEF KeptBy
  <1>7. PairedBy(part, T, body)
    BY <1>5 DEF PairedBy
  <1> QED  BY <1>6, <1>7

LEMMA TurnsCut ==
    ASSUME NEW bs, NEW A, bs \in Seq(A), NEW T \in SUBSET DOMAIN bs,
           NEW order, order = InTurn(T),
           NEW body \in [T -> SUBSET DOMAIN bs], NEW D, WrittenFor(D, bs, order, body), NEW part,
           part = [k \in DOMAIN order |-> body[order[k]]]
    PROVE  IsCut(bs, D, part)
  <1> PICK id, path :
          /\ \A k, l \in DOMAIN order : id[k] = id[l] => k = l
          /\ D = [k \in DOMAIN order |-> SectionDocument(id[k], path[k], LinesOf(bs, body[order[k]]))]
    BY DEF WrittenFor
  <1> DEFINE Doc(k) == SectionDocument(id[k], path[k], LinesOf(bs, body[order[k]]))
  <1>1. PICK N \in Nat : /\ order \in [1 .. N -> T]
                         /\ \A t \in T : \E k \in 1 .. N : order[k] = t
                         /\ \A j, k \in 1 .. N : order[j] = order[k] => j = k
    <2>1. IsOrder(order, T)
      BY OrderIs
    <2> QED  BY <2>1 DEF IsOrder
  <1>2. DOMAIN order = 1 .. N /\ \A k \in 1 .. N : order[k] \in T
    BY <1>1
  <1>3. D = [k \in DOMAIN order |-> Doc(k)]
    OBVIOUS
  <1> HIDE DEF Doc
  <1>4. (\E X : D \in Seq(X)) /\ DOMAIN D = 1 .. N /\ \A k \in 1 .. N : D[k] = Doc(k)
    <2> DEFINE X == {Doc(k) : k \in 1 .. N}
    <2>1. D \in [1 .. N -> X]
      BY <1>2, <1>3
    <2> HIDE DEF X
    <2>2. D \in Seq(X)
      BY <1>1, <2>1
    <2> QED  BY <1>2, <1>3, <2>2
  <1>5. DOMAIN part = 1 .. N /\ \A k \in 1 .. N : part[k] = body[order[k]]
    BY <1>2
  <1>6. part \in [1 .. N -> SUBSET DOMAIN bs]
    <2>1. \A k \in 1 .. N : body[order[k]] \in SUBSET DOMAIN bs
      BY <1>2
    <2> QED  BY <1>2, <2>1
  <1>7. \A k \in 1 .. N : D[k].id = id[k] /\ D[k].lines = LinesOf(bs, part[k])
    BY <1>4, <1>5 DEF Doc, SectionDocument
  <1>8. \A k, l \in 1 .. N : D[k].id = D[l].id => k = l
    BY <1>2, <1>7
  <1>9. part \in [DOMAIN D -> SUBSET DOMAIN bs]
    BY <1>4, <1>6
  <1>10. \A k \in DOMAIN D : D[k].lines = LinesOf(bs, part[k])
    BY <1>4, <1>7
  <1>11. \A k, l \in DOMAIN D : D[k].id = D[l].id => k = l
    BY <1>4, <1>8
  <1> QED  BY <1>4, <1>9, <1>10, <1>11 DEF IsCut

-----------------------------------------------------------------------------
(***************************************************************************)
(* What each way to cut keeps.                                             *)
(***************************************************************************)
\* the formula over c is dropped: the next heading is one of its section, too
Lost(bs, c) ==
    /\ Places(bs, "marker") = {}
    /\ \E h, g \in Places(bs, "heading") \ SectionUnits(bs) :
           /\ h <= c /\ c < g
           /\ \A k \in Places(bs, "heading") : k <= h \/ g <= k
KeepsAll(bs, p) == \A c \in DOMAIN bs : bs[c].line.kind = "marker" \/ Lost(bs, c) \/ Once(p, c)
\* a formula that is not dropped goes with the clause before it
Under(bs, u, h) == u < h /\ \A v \in SectionUnits(bs) : ~(u < v /\ v < h)
StaysWith(bs, p) ==
    Places(bs, "marker") = {} =>
        \A u \in SectionUnits(bs), h \in Places(bs, "heading") \ SectionUnits(bs) :
            Under(bs, u, h) /\ ~Lost(bs, h) => Paired(p, h, u)
IsWhole(bs, D) == \E p : IsCut(bs, D, p) /\ KeepsAll(bs, p) /\ StaysWith(bs, p)

LEMMA AllInOne ==
    ASSUME NEW bs, Places(bs, "heading") = {}
    PROVE  IsWhole(bs, <<SectionDocument(<<"section">>, <<>>, LinesOf(bs, DOMAIN bs))>>)
  <1> DEFINE doc == SectionDocument(<<"section">>, <<>>, LinesOf(bs, DOMAIN bs))
             D == <<doc>>
             p == [k \in 1 .. 1 |-> DOMAIN bs]
  <1>1. doc.lines = LinesOf(bs, DOMAIN bs)
    BY DEF SectionDocument
  <1> HIDE DEF doc
  <1>2. D \in Seq({doc}) /\ DOMAIN D = 1 .. 1 /\ D[1] = doc /\ \A k \in 1 .. 1 : k = 1
    OBVIOUS
  <1>3. DOMAIN p = 1 .. 1 /\ p[1] = DOMAIN bs /\ p \in [1 .. 1 -> SUBSET DOMAIN bs]
    OBVIOUS
  <1> HIDE DEF D, p
  <1>4. IsCut(bs, D, p)
    BY <1>1, <1>2, <1>3 DEF IsCut
  <1>5. 1 \in 1 .. 1
    OBVIOUS
  <1>6. KeepsAll(bs, p)
    BY <1>2, <1>3, <1>5 DEF KeepsAll, Once
  <1>7. StaysWith(bs, p)
    BY DEF StaysWith
  <1>8. IsWhole(bs, D)
    BY <1>4, <1>6, <1>7 DEF IsWhole
  <1> QED  BY <1>8 DEF D, doc

LEMMA ClausedCut ==
    ASSUME NEW bs, NEW A, bs \in Seq(A), Places(bs, "heading") = {}
    PROVE  IsWhole(bs, Claused(bs))
  <1> DEFINE S == Places(bs, "clause")
             order == InTurn(S)
             body == [s \in S |-> Stretch(bs, S, s)]
             id == [k \in DOMAIN order |-> <<"clause", order[k], k>>]
             path == [k \in DOMAIN order |-> <<order[k]>>]
             D == [k \in DOMAIN order |-> SectionDocument(id[k], path[k], LinesOf(bs, body[order[k]]))]
             part == [k \in DOMAIN order |-> body[order[k]]]
  <1>1. S \in SUBSET DOMAIN bs
    BY DEF Places
  <1>2. IsFiniteSet(S) /\ S \in SUBSET Nat
    BY <1>1, PlacesAreFinite
  <1> HIDE DEF S
  <1>3. \A k \in DOMAIN order : order[k] \in S
    <2>1. order \in [1 .. Cardinality(S) -> S]
      BY <1>2, InTurnIs
    <2> HIDE DEF order
    <2> QED  BY <2>1
  <1> HIDE DEF order
  <1>4. body \in [S -> SUBSET DOMAIN bs]
    BY DEF Stretch
  <1>5. \A s \in S : body[s] = Stretch(bs, S, s)
    OBVIOUS
  <1>6. \A k \in DOMAIN order : id[k] = <<"clause", order[k], k>> /\ id[k] # <<"preamble">>
    OBVIOUS
  <1>7. \A k, l \in DOMAIN order : id[k] = id[l] => k = l
    OBVIOUS
  <1> HIDE DEF body
  <1>8. Claused(bs) = AfterPreamble(bs, S, D)
    <2> DEFINE Doc(k) == SectionDocument(<<"clause", order[k], k>>, <<order[k]>>,
                                         LinesOf(bs, Stretch(bs, S, order[k])))
    <2>1. Claused(bs) = AfterPreamble(bs, S, [k \in DOMAIN order |-> Doc(k)])
      BY DEF Claused, S, order
    <2>2. \A k \in DOMAIN order : D[k] = Doc(k)
      BY <1>3, <1>5
    <2> HIDE DEF Doc
    <2>3. D = [k \in DOMAIN order |-> Doc(k)]
      BY <2>2
    <2> QED  BY <2>1, <2>3
  <1>9. \A k \in DOMAIN order : D[k].id = id[k]
    BY DEF SectionDocument
  <1>9a. /\ D = [k \in DOMAIN order |-> SectionDocument(id[k], path[k], LinesOf(bs, body[order[k]]))]
         /\ part = [k \in DOMAIN order |-> body[order[k]]]
    OBVIOUS
  <1> HIDE DEF id, path
  <1>9b. DOMAIN D = DOMAIN order /\ \A k \in DOMAIN order : part[k] = body[order[k]]
    OBVIOUS
  <1> HIDE DEF D, part
  <1>9c. order = InTurn(S)
    BY DEF order
  <1>10. /\ IsCut(bs, D, part)
         /\ \A c : (\E t \in S : c \in body[t] /\ \A u \in S : c \in body[u] => u = t)
                   => Once(part, c)
    <2>1. S \in SUBSET DOMAIN bs
      BY <1>1
    <2>1a. body \in [S -> SUBSET DOMAIN bs]
      BY <1>4
    <2>2. \A k, l \in DOMAIN order : id[k] = id[l] => k = l
      BY <1>7
    <2>3. D = [k \in DOMAIN order |-> SectionDocument(id[k], path[k], LinesOf(bs, body[order[k]]))]
      BY <1>9a
    <2>4. part = [k \in DOMAIN order |-> body[order[k]]]
      BY <1>9a
    <2>2a. WrittenFor(D, bs, order, body)
      BY <2>2, <2>3 DEF WrittenFor
    <2>5. IsCut(bs, D, part)
      BY <1>9c, <2>1, <2>1a, <2>2a, <2>4, TurnsCut
    <2>6. KeptBy(part, S, body)
      BY <1>9c, <2>1, <2>4, TurnsKeep
    <2> QED  BY <2>5, <2>6 DEF KeptBy
  <1>11. DOMAIN D = DOMAIN order /\ \A k \in DOMAIN order : part[k] = body[order[k]]
    BY <1>9b
  <1>12. \A k \in DOMAIN D : D[k].id # <<"preamble">>
    BY <1>6, <1>9, <1>11
  <1>13. \A k \in DOMAIN D : \A c \in part[k] : c \notin Preamble(bs, S)
    <2> SUFFICES ASSUME NEW k \in DOMAIN D, NEW c \in part[k], c \in Preamble(bs, S)
                 PROVE  FALSE
      OBVIOUS
    <2>1. order[k] \in S /\ c \in Stretch(bs, S, order[k])
      BY <1>3, <1>5, <1>11
    <2>2. c \in DOMAIN bs
      BY <2>1 DEF Stretch
    <2> QED  BY <1>1, <2>1, <2>2, StretchIs
  <1>14. PICK p : /\ IsCut(bs, AfterPreamble(bs, S, D), p)
                  /\ \A c \in Preamble(bs, S) : Once(p, c)
                  /\ \A c : c \notin Preamble(bs, S) /\ Once(part, c) => Once(p, c)
    BY <1>10, <1>12, <1>13, PreambleIs
  <1>15. ASSUME NEW c \in DOMAIN bs
         PROVE  Once(p, c)
    <2>1. CASE c \in Preamble(bs, S)
      BY <1>14, <2>1
    <2>2. CASE c \notin Preamble(bs, S)
      <3>1. \E s \in S : c \in Stretch(bs, S, s) /\ \A t \in S : c \in Stretch(bs, S, t) => t = s
        BY <1>1, <2>2, StretchIs
      <3>2. Once(part, c)
        BY <1>5, <1>10, <3>1
      <3> QED  BY <1>14, <2>2, <3>2
    <2> QED  BY <2>1, <2>2
  <1>16. KeepsAll(bs, p) /\ StaysWith(bs, p)
    BY <1>15 DEF KeepsAll, StaysWith
  <1> QED  BY <1>8, <1>14, <1>16 DEF IsWhole

LEMMA MarkedCut ==
    ASSUME NEW bs, NEW A, bs \in Seq(A), Places(bs, "marker") # {}
    PROVE  IsWhole(bs, Marked(bs))
  <1> DEFINE S == Opening(bs)
             Body(m) == Stretch(bs, S, m) \ Places(bs, "marker")
             T == {m \in S : Body(m) # {}}
             Name(m) == bs[m].line.name
             Same(m) == {n \in T : n < m /\ Name(n) = Name(m)}
             Number(m) == Cardinality(Same(m))
             order == InTurn(T)
             body == [m \in T |-> Body(m)]
             id == [k \in DOMAIN order |-> <<"section", Name(order[k]), Number(order[k])>>]
             path == [k \in DOMAIN order |-> <<Name(order[k])>>]
             D == [k \in DOMAIN order |-> SectionDocument(id[k], path[k], LinesOf(bs, body[order[k]]))]
             part == [k \in DOMAIN order |-> body[order[k]]]
  <1>0. Marked(bs) =
          AfterPreamble(bs, S,
            [k \in DOMAIN order |->
               SectionDocument(<<"section", Name(order[k]), Number(order[k])>>, <<Name(order[k])>>,
                               LinesOf(bs, Body(order[k])))])
    BY DEF Marked
  <1>1. S \in SUBSET DOMAIN bs
    BY DEF Opening, Places
  <1> HIDE DEF S
  <1>1a. T \in SUBSET DOMAIN bs /\ T \subseteq S /\ \A m \in S : m \in T <=> Body(m) # {}
    BY <1>1
  <1>2. IsFiniteSet(T) /\ T \in SUBSET Nat
    <2> HIDE DEF T
    <2> QED  BY <1>1a, PlacesAreFinite
  <1>2a. \A m : Body(m) \subseteq DOMAIN bs
    BY DEF Stretch
  <1> HIDE DEF T, Body, Name
  <1>3. /\ order \in [1 .. Cardinality(T) -> T]
        /\ \A j, k \in 1 .. Cardinality(T) : order[j] = order[k] => j = k
    BY <1>2, InTurnIs
  <1> HIDE DEF order
  <1>3a. \A k \in DOMAIN order : order[k] \in T
    BY <1>3
  <1>4. body \in [T -> SUBSET DOMAIN bs] /\ \A s \in T : body[s] = Body(s)
    BY <1>2a
  <1>5. \A m \in T : IsFiniteSet(Same(m)) /\ Number(m) \in Nat
    <2> SUFFICES ASSUME NEW m \in T
                 PROVE  IsFiniteSet(Same(m)) /\ Number(m) \in Nat
      OBVIOUS
    <2>1. Same(m) \in SUBSET T
      OBVIOUS
    <2> HIDE DEF Same
    <2>2. IsFiniteSet(Same(m))
      BY <1>2, <2>1, FS_Subset
    <2> QED  BY <2>2, FS_CardinalityType
  <1>6. ASSUME NEW m \in T, NEW n \in T, m < n, Name(m) = Name(n)
        PROVE  Number(m) < Number(n)
    <2>1. Same(m) \cup {m} \subseteq Same(n) /\ m \notin Same(m)
      <3>1. \A r \in T : r < m => r < n
        BY <1>2, <1>6
      <3>2. ~(m < m)
        BY <1>2
      <3> QED  BY <1>6, <3>1, <3>2
    <2> HIDE DEF Same
    <2>2. Cardinality(Same(m) \cup {m}) = Cardinality(Same(m)) + 1
      BY <1>5, <2>1, FS_AddElement
    <2>3. Cardinality(Same(m) \cup {m}) <= Cardinality(Same(n))
      BY <1>5, <2>1, FS_Subset
    <2> QED  BY <1>5, <2>2, <2>3
  <1> HIDE DEF Number, Same
  <1>7. \A k \in DOMAIN order : id[k] # <<"preamble">>
    OBVIOUS
  <1>8. ASSUME NEW k \in DOMAIN order, NEW l \in DOMAIN order, id[k] = id[l]
        PROVE  k = l
    <2>1. Name(order[k]) = Name(order[l]) /\ Number(order[k]) = Number(order[l])
      BY <1>8
    <2>2. order[k] \in T /\ order[l] \in T /\ order[k] \in Nat /\ order[l] \in Nat
      BY <1>2, <1>3a
    <2>3. ~(order[k] < order[l]) /\ ~(order[l] < order[k])
      <3>1. Number(order[k]) \in Nat /\ Number(order[l]) \in Nat
        BY <1>5, <2>2
      <3>2. ~(Number(order[k]) < Number(order[l])) /\ ~(Number(order[l]) < Number(order[k]))
        BY <2>1, <3>1
      <3> QED  BY <1>6, <2>1, <2>2, <3>2
    <2>4. order[k] = order[l]
      BY <2>2, <2>3
    <2> QED  BY <1>3, <2>4
  <1> HIDE DEF body
  <1>9. Marked(bs) = AfterPreamble(bs, S, D)
    <2> DEFINE Doc(k) == SectionDocument(<<"section", Name(order[k]), Number(order[k])>>,
                                         <<Name(order[k])>>, LinesOf(bs, Body(order[k])))
    <2>1. Marked(bs) = AfterPreamble(bs, S, [k \in DOMAIN order |-> Doc(k)])
      BY <1>0
    <2>2. \A k \in DOMAIN order : D[k] = Doc(k)
      BY <1>3a, <1>4
    <2> HIDE DEF Doc
    <2>3. D = [k \in DOMAIN order |-> Doc(k)]
      BY <2>2
    <2> QED  BY <2>1, <2>3
  <1>10. \A k \in DOMAIN order : D[k].id = id[k]
    BY DEF SectionDocument
  <1>10a. /\ D = [k \in DOMAIN order |-> SectionDocument(id[k], path[k], LinesOf(bs, body[order[k]]))]
          /\ part = [k \in DOMAIN order |-> body[order[k]]]
    OBVIOUS
  <1> HIDE DEF id, path
  <1>10b. DOMAIN D = DOMAIN order /\ \A k \in DOMAIN order : part[k] = body[order[k]]
    OBVIOUS
  <1> HIDE DEF D, part
  <1>10c. order = InTurn(T)
    BY DEF order
  <1>11. /\ IsCut(bs, D, part)
         /\ \A c : (\E t \in T : c \in body[t] /\ \A u \in T : c \in body[u] => u = t)
                   => Once(part, c)
    <2>1. T \in SUBSET DOMAIN bs /\ body \in [T -> SUBSET DOMAIN bs]
      BY <1>1a, <1>4
    <2>2. \A k, l \in DOMAIN order : id[k] = id[l] => k = l
      BY <1>8
    <2>3. D = [k \in DOMAIN order |-> SectionDocument(id[k], path[k], LinesOf(bs, body[order[k]]))]
      BY <1>10a
    <2>4. part = [k \in DOMAIN order |-> body[order[k]]]
      BY <1>10a
    <2>2a. WrittenFor(D, bs, order, body)
      BY <2>2, <2>3 DEF WrittenFor
    <2>5. IsCut(bs, D, part)
      BY <1>10c, <2>1, <2>2a, <2>4, TurnsCut
    <2>6. KeptBy(part, T, body)
      BY <1>10c, <2>1, <2>4, TurnsKeep
    <2> QED  BY <2>5, <2>6 DEF KeptBy
  <1>12. DOMAIN D = DOMAIN order /\ \A k \in DOMAIN order : part[k] = body[order[k]]
    BY <1>10b
  <1>13. \A k \in DOMAIN D : D[k].id # <<"preamble">>
    BY <1>7, <1>10, <1>12
  <1>14. \A k \in DOMAIN D : \A c \in part[k] : c \notin Preamble(bs, S)
    <2> SUFFICES ASSUME NEW k \in DOMAIN D, NEW c \in part[k], c \in Preamble(bs, S)
                 PROVE  FALSE
      OBVIOUS
    <2>1. order[k] \in S /\ c \in Stretch(bs, S, order[k])
      BY <1>1a, <1>3a, <1>4, <1>12 DEF Body
    <2>2. c \in DOMAIN bs
      BY <2>1 DEF Stretch
    <2> QED  BY <1>1, <2>1, <2>2, StretchIs
  <1>15. PICK p : /\ IsCut(bs, AfterPreamble(bs, S, D), p)
                  /\ \A c \in Preamble(bs, S) : Once(p, c)
                  /\ \A c : c \notin Preamble(bs, S) /\ Once(part, c) => Once(p, c)
    BY <1>11, <1>13, <1>14, PreambleIs
  <1>16. ASSUME NEW c \in DOMAIN bs, bs[c].line.kind # "marker"
         PROVE  Once(p, c)
    <2>1. CASE c \in Preamble(bs, S)
      BY <1>15, <2>1
    <2>2. CASE c \notin Preamble(bs, S)
      <3>1. PICK s \in S : c \in Stretch(bs, S, s) /\ \A t \in S : c \in Stretch(bs, S, t) => t = s
        BY <1>1, <2>2, StretchIs
      <3>2. c \in Body(s) /\ s \in T
        BY <1>1a, <1>16, <3>1 DEF Body, Places
      <3>3. \A t \in T : c \in Body(t) => t = s
        BY <1>1a, <3>1 DEF Body
      <3>4. Once(part, c)
        BY <1>4, <1>11, <3>2, <3>3
      <3> QED  BY <1>15, <2>2, <3>4
    <2> QED  BY <2>1, <2>2
  <1>17. KeepsAll(bs, p) /\ StaysWith(bs, p)
    BY <1>16 DEF KeepsAll, StaysWith
  <1> QED  BY <1>9, <1>15, <1>17 DEF IsWhole

-----------------------------------------------------------------------------
(***************************************************************************)
(* Sections by headings.                                                   *)
(***************************************************************************)
Formulas(bs, u) == {h \in Places(bs, "heading") \ SectionUnits(bs) : Under(bs, u, h)}
LastFormula(bs, u) == {h \in Formulas(bs, u) : \A g \in Formulas(bs, u) : g <= h}

LEMMA UnitsAre ==
    ASSUME NEW bs, NEW A, bs \in Seq(A)
    PROVE  /\ Places(bs, "heading") \in SUBSET DOMAIN bs
           /\ Places(bs, "heading") \in SUBSET Nat
           /\ SectionUnits(bs) \in SUBSET Places(bs, "heading")
           /\ \A h \in Places(bs, "heading") \ SectionUnits(bs) :
                  /\ bs[h].line.formula
                  /\ \E g \in Places(bs, "heading") : g < h
  <1>1. Places(bs, "heading") \in SUBSET DOMAIN bs
    BY DEF Places
  <1>2. Places(bs, "heading") \in SUBSET Nat
    BY <1>1, PlacesAreFinite
  <1>3. SectionUnits(bs) \in SUBSET Places(bs, "heading")
    BY DEF SectionUnits
  <1>4. ASSUME NEW h \in Places(bs, "heading") \ SectionUnits(bs)
        PROVE  bs[h].line.formula /\ \E g \in Places(bs, "heading") : g < h
    <2>1. bs[h].line.formula /\ \E g \in Places(bs, "heading") : ~(h <= g)
      BY <1>4 DEF SectionUnits
    <2> QED  BY <1>2, <2>1
  <1> QED  BY <1>1, <1>2, <1>3, <1>4

LEMMA FormulaHasUnit ==
    ASSUME NEW bs, NEW A, bs \in Seq(A),
           NEW h \in Places(bs, "heading") \ SectionUnits(bs)
    PROVE  /\ \E u \in SectionUnits(bs) : Under(bs, u, h)
           /\ \A u, v \in SectionUnits(bs) : Under(bs, u, h) /\ Under(bs, v, h) => u = v
  <1> DEFINE S == Places(bs, "heading")
             U == SectionUnits(bs)
             T == {u \in U : u < h}
  <1>1. S \in SUBSET Nat /\ U \in SUBSET S /\ h \in S /\ h \in Nat
    BY UnitsAre
  <1>2. PICK m \in S : \A n \in S : m <= n
    <2> HIDE DEF S
    <2> QED  BY <1>1, Least
  <1>3. m \in U
    BY <1>2 DEF SectionUnits
  <1>4. m < h
    <2>1. \E g \in S : g < h
      BY UnitsAre
    <2> HIDE DEF S
    <2> QED  BY <1>1, <1>2, <2>1
  <1> HIDE DEF S, U
  <1>5. T \in SUBSET Nat /\ T # {} /\ \A t \in T : t <= h
    <2>1. m \in T
      BY <1>3, <1>4
    <2>2. \A t \in T : t \in Nat /\ t <= h
      BY <1>1
    <2> HIDE DEF T
    <2> QED  BY <2>1, <2>2
  <1>6. PICK u \in T : \A v \in T : v <= u
    <2> HIDE DEF T
    <2> QED  BY <1>1, <1>5, GreatestExists
  <1>7. u \in U /\ u < h /\ \A v \in U : ~(u < v /\ v < h)
    BY <1>1, <1>6
  <1>8. \E v \in U : Under(bs, v, h)
    BY <1>7 DEF Under, U
  <1>9. ASSUME NEW v \in U, NEW w \in U, Under(bs, v, h), Under(bs, w, h)
        PROVE  v = w
    <2>1. v < h /\ w < h /\ ~(v < w /\ w < h) /\ ~(w < v /\ v < h)
      BY <1>9 DEF Under, U
    <2> QED  BY <1>1, <2>1
  <1> QED  BY <1>8, <1>9 DEF U

LEMMA FormulaIsLast ==
    ASSUME NEW bs, NEW A, bs \in Seq(A), Places(bs, "marker") = {}, NEW c \in DOMAIN bs,
           ~Lost(bs, c), NEW h \in Places(bs, "heading") \ SectionUnits(bs),
           h <= c, \A t \in Places(bs, "heading") : h < t => c < t,
           NEW u \in SectionUnits(bs), Under(bs, u, h)
    PROVE  h \in LastFormula(bs, u)
  <1> DEFINE S == Places(bs, "heading")
             U == SectionUnits(bs)
             T == {t \in S : h < t}
  <1>1. S \in SUBSET Nat /\ U \in SUBSET S /\ h \in S /\ h \in Nat /\ h \notin U
    BY UnitsAre
  <1>2. h \in Formulas(bs, u)
    BY DEF Formulas
  <1>3. ASSUME NEW g \in Formulas(bs, u), ~(g <= h)
        PROVE  FALSE
    <2>1. g \in S /\ g \notin U /\ \A v \in U : ~(u < v /\ v < g)
      BY <1>3 DEF Formulas, Under
    <2>2. g \in T /\ T \in SUBSET Nat
      BY <1>1, <1>3, <2>1
    <2>3. PICK f \in T : \A t \in T : f <= t
      <3> HIDE DEF T
      <3> QED  BY <2>2, Least
    <2>4. f \in S /\ h < f /\ f <= g
      BY <2>2, <2>3
    <2>5. f \notin U
      <3> SUFFICES ASSUME f \in U
                   PROVE  FALSE
        OBVIOUS
      <3>1. f < g
        BY <1>1, <2>1, <2>4
      <3>2. u < h /\ u \in Nat
        BY <1>1 DEF Under
      <3>3. u < f
        BY <1>1, <2>4, <3>2
      <3> QED  BY <2>1, <3>1, <3>3
    <2>6. \A k \in S : k <= h \/ f <= k
      BY <1>1, <2>3
    <2>7. c < f
      BY <2>4
    <2>8. Lost(bs, c)
      BY <1>1, <2>4, <2>5, <2>6, <2>7 DEF Lost
    <2> QED  BY <2>8
  <1> QED  BY <1>2, <1>3 DEF LastFormula

LEMMA HeadedCut ==
    ASSUME NEW bs, NEW A, bs \in Seq(A), Places(bs, "marker") = {}
    PROVE  IsWhole(bs, Headed(bs))
  <1> DEFINE S == Places(bs, "heading")
             T == SectionUnits(bs)
             HeadsOf(u) == {u} \cup LastFormula(bs, u)
             Body(u) == UNION {Stretch(bs, S, h) : h \in HeadsOf(u)}
             order == InTurn(T)
             body == [u \in T |-> Body(u)]
             path == [k \in DOMAIN order |-> Stack(bs, T, order[k])]
             id == [k \in DOMAIN order |-> <<"section", path[k], k>>]
             D == [k \in DOMAIN order |-> SectionDocument(id[k], path[k], LinesOf(bs, body[order[k]]))]
             part == [k \in DOMAIN order |-> body[order[k]]]
  <1>0. Headed(bs) =
          AfterPreamble(bs, S,
            [k \in DOMAIN order |->
               SectionDocument(<<"section", Stack(bs, T, order[k]), k>>, Stack(bs, T, order[k]),
                               LinesOf(bs, Body(order[k])))])
    BY DEF Headed, LastFormula, Formulas, Under
  <1>1. S \in SUBSET DOMAIN bs /\ S \in SUBSET Nat /\ T \in SUBSET S
    BY UnitsAre
  <1>2. T \in SUBSET DOMAIN bs /\ IsFiniteSet(T) /\ T \in SUBSET Nat
    <2> HIDE DEF S, T
    <2>1. T \in SUBSET DOMAIN bs
      BY <1>1
    <2> QED  BY <2>1, PlacesAreFinite
  <1>3. \A u \in T : u \in HeadsOf(u) /\ HeadsOf(u) \subseteq S
    BY <1>1 DEF LastFormula, Formulas
  <1>4. \A u, v \in T : v \in HeadsOf(u) => v = u
    BY DEF LastFormula, Formulas
  <1>5. \A u \in T, h \in S \ T : h \in HeadsOf(u) => Under(bs, u, h)
    BY DEF LastFormula, Formulas
  <1>6. ASSUME NEW h \in S \ T, NEW c \in DOMAIN bs, ~Lost(bs, c), h <= c,
               \A t \in S : h < t => c < t,
               NEW u \in T, Under(bs, u, h)
        PROVE  \A v \in T : h \in HeadsOf(v) <=> v = u
    <2>1. h \in HeadsOf(u)
      BY <1>6, FormulaIsLast
    <2>2. \A v \in T : h \in HeadsOf(v) => v = u
      <3> HIDE DEF HeadsOf
      <3> QED  BY <1>5, <1>6, FormulaHasUnit
    <2> QED  BY <2>1, <2>2
  <1>7. ASSUME NEW h \in S \ T
        PROVE  \E u \in T : Under(bs, u, h)
    BY <1>7, FormulaHasUnit
  <1> HIDE DEF S, T, HeadsOf
  <1>8. ASSUME NEW c \in DOMAIN bs, NEW h \in S, c \in Stretch(bs, S, h),
               \A t \in S : c \in Stretch(bs, S, t) => t = h
        PROVE  \A u \in T : c \in Body(u) <=> h \in HeadsOf(u)
    BY <1>3, <1>8
  <1>9. \A u : Body(u) \subseteq DOMAIN bs
    BY DEF Stretch
  <1>9a. \A u \in T : \A c \in Body(u) : \E h \in S : c \in Stretch(bs, S, h)
    BY <1>3
  <1> HIDE DEF Body
  <1>10. order \in [1 .. Cardinality(T) -> T]
    BY <1>2, InTurnIs
  <1> HIDE DEF order
  <1>11. \A k \in DOMAIN order : order[k] \in T
    BY <1>10
  <1>12. body \in [T -> SUBSET DOMAIN bs] /\ \A u \in T : body[u] = Body(u)
    BY <1>9
  <1> HIDE DEF body
  <1>13. \A k \in DOMAIN order : path[k] = Stack(bs, T, order[k])
    OBVIOUS
  <1> HIDE DEF path
  <1>14. \A k \in DOMAIN order : id[k] = <<"section", path[k], k>> /\ id[k] # <<"preamble">>
    OBVIOUS
  <1>15. \A k, l \in DOMAIN order : id[k] = id[l] => k = l
    OBVIOUS
  <1> HIDE DEF id
  <1>16. Headed(bs) = AfterPreamble(bs, S, D)
    <2> DEFINE Doc(k) == SectionDocument(<<"section", Stack(bs, T, order[k]), k>>, Stack(bs, T, order[k]),
                                         LinesOf(bs, Body(order[k])))
    <2>1. Headed(bs) = AfterPreamble(bs, S, [k \in DOMAIN order |-> Doc(k)])
      BY <1>0
    <2>2. \A k \in DOMAIN order : D[k] = Doc(k)
      BY <1>11, <1>12, <1>13, <1>14
    <2> HIDE DEF Doc
    <2>3. D = [k \in DOMAIN order |-> Doc(k)]
      BY <2>2
    <2> QED  BY <2>1, <2>3
  <1>17. \A k \in DOMAIN order : D[k].id = id[k]
    BY DEF SectionDocument
  <1>18. D = [k \in DOMAIN order |-> SectionDocument(id[k], path[k], LinesOf(bs, body[order[k]]))]
    OBVIOUS
  <1>19. part = [k \in DOMAIN order |-> body[order[k]]]
    OBVIOUS
  <1>20. DOMAIN D = DOMAIN order /\ \A k \in DOMAIN order : part[k] = body[order[k]]
    OBVIOUS
  <1> HIDE DEF D, part
  <1>21. /\ IsCut(bs, D, part)
         /\ \A c : (\E t \in T : c \in body[t] /\ \A u \in T : c \in body[u] => u = t)
                   => Once(part, c)
         /\ \A b, c : (\A t \in T : b \in body[t] <=> c \in body[t]) => Paired(part, b, c)
    <2>1. order = InTurn(T)
      BY DEF order
    <2>2. body \in [T -> SUBSET DOMAIN bs]
      BY <1>12
    <2>3. \A k, l \in DOMAIN order : id[k] = id[l] => k = l
      BY <1>15
    <2>4. T \in SUBSET DOMAIN bs
      BY <1>2
    <2>3a. WrittenFor(D, bs, order, body)
      BY <1>18, <2>3 DEF WrittenFor
    <2>5. IsCut(bs, D, part)
      BY <1>19, <2>1, <2>2, <2>3a, <2>4, TurnsCut
    <2>6. KeptBy(part, T, body) /\ PairedBy(part, T, body)
      BY <1>19, <2>1, <2>4, TurnsKeep
    <2> QED  BY <2>5, <2>6 DEF KeptBy, PairedBy
  <1>22. \A k \in DOMAIN D : D[k].id # <<"preamble">>
    BY <1>14, <1>17, <1>20
  <1>23. \A k \in DOMAIN D : \A c \in part[k] : c \notin Preamble(bs, S)
    <2> SUFFICES ASSUME NEW k \in DOMAIN D, NEW c \in part[k], c \in Preamble(bs, S)
                 PROVE  FALSE
      OBVIOUS
    <2>1. c \in DOMAIN bs /\ \E h \in S : c \in Stretch(bs, S, h)
      BY <1>9, <1>9a, <1>11, <1>12, <1>20
    <2> QED  BY <1>1, <2>1, StretchIs
  <1>24. PICK p : /\ IsCut(bs, AfterPreamble(bs, S, D), p)
                  /\ \A c \in Preamble(bs, S) : Once(p, c)
                  /\ \A c : c \notin Preamble(bs, S) /\ Once(part, c) => Once(p, c)
                  /\ \A b, c : /\ b \notin Preamble(bs, S) /\ c \notin Preamble(bs, S)
                               /\ Paired(part, b, c)
                               => Paired(p, b, c)
    BY <1>21, <1>22, <1>23, PreambleIs
  <1>25. ASSUME NEW c \in DOMAIN bs, ~Lost(bs, c)
         PROVE  Once(p, c)
    <2>1. CASE c \in Preamble(bs, S)
      BY <1>24, <2>1
    <2>2. CASE c \notin Preamble(bs, S)
      <3>1. PICK h \in S : /\ h <= c /\ (\A t \in S : h < t => c < t)
                           /\ c \in Stretch(bs, S, h)
                           /\ \A t \in S : c \in Stretch(bs, S, t) => t = h
        BY <1>1, <2>2, StretchIs
      <3>2. \A u \in T : c \in Body(u) <=> h \in HeadsOf(u)
        BY <1>8, <3>1
      <3>3. \E u \in T : \A v \in T : h \in HeadsOf(v) <=> v = u
        <4>1. CASE h \in T
          BY <1>3, <1>4, <4>1
        <4>2. CASE h \notin T
          <5>1. PICK u \in T : Under(bs, u, h)
            BY <1>7, <4>2
          <5>2. \A v \in T : h \in HeadsOf(v) <=> v = u
            BY <1>6, <1>25, <3>1, <4>2, <5>1
          <5> QED  BY <5>2
        <4> QED  BY <4>1, <4>2
      <3>4. Once(part, c)
        BY <1>12, <1>21, <3>2, <3>3
      <3> QED  BY <1>24, <2>2, <3>4
    <2> QED  BY <2>1, <2>2
  <1>26. ASSUME NEW u \in T, NEW h \in S \ T, Under(bs, u, h), ~Lost(bs, h)
         PROVE  Paired(p, h, u)
    <2>1. ASSUME NEW g \in S
          PROVE  /\ g \in DOMAIN bs /\ g \notin Preamble(bs, S)
                 /\ \A v \in T : g \in Body(v) <=> g \in HeadsOf(v)
      <3>1. g \in DOMAIN bs /\ g \in Nat
        BY <1>1
      <3>2. g \notin Preamble(bs, S)
        BY <3>1 DEF Preamble
      <3>3. g \in Stretch(bs, S, g)
        BY <3>1 DEF Stretch
      <3>4. \A t \in S : g \in Stretch(bs, S, t) => t = g
        BY <1>1, <3>1, <3>2, <3>3, StretchIs
      <3> QED  BY <1>8, <3>1, <3>2, <3>3, <3>4
    <2>2. u \in S /\ h \in S /\ h \in Nat /\ h <= h /\ \A t \in S : h < t => h < t
      BY <1>1
    <2>3. \A v \in T : h \in HeadsOf(v) <=> v = u
      BY <1>6, <1>26, <2>1, <2>2
    <2>4. \A v \in T : u \in HeadsOf(v) <=> v = u
      BY <1>3, <1>4
    <2>5. \A v \in T : h \in body[v] <=> u \in body[v]
      BY <1>12, <2>1, <2>2, <2>3, <2>4
    <2>6. Paired(part, h, u)
      BY <1>21, <2>5
    <2> QED  BY <1>24, <2>1, <2>2, <2>6
  <1>27. KeepsAll(bs, p)
    BY <1>25 DEF KeepsAll
  <1>28. StaysWith(bs, p)
    BY <1>26 DEF StaysWith, S, T
  <1> QED  BY <1>16, <1>24, <1>27, <1>28 DEF IsWhole

LEMMA SectionsCut ==
    ASSUME NEW bs, NEW A, bs \in Seq(A)
    PROVE  IsWhole(bs, SectionDocuments(bs))
  <1>1. CASE Places(bs, "marker") # {}
    <2>1. SectionDocuments(bs) = Marked(bs)
      BY <1>1 DEF SectionDocuments
    <2> QED  BY <1>1, <2>1, MarkedCut
  <1>2. CASE Places(bs, "marker") = {} /\ Places(bs, "heading") # {}
    <2>1. SectionDocuments(bs) = Headed(bs)
      BY <1>2 DEF SectionDocuments
    <2> QED  BY <1>2, <2>1, HeadedCut
  <1>3. CASE Places(bs, "marker") = {} /\ Places(bs, "heading") = {}
    <2>1. \/ SectionDocuments(bs) = Claused(bs)
          \/ SectionDocuments(bs) = <<SectionDocument(<<"section">>, <<>>, LinesOf(bs, DOMAIN bs))>>
      BY <1>3 DEF SectionDocuments
    <2> QED  BY <1>3, <2>1, ClausedCut, AllInOne
  <1> QED  BY <1>1, <1>2, <1>3

-----------------------------------------------------------------------------
(***************************************************************************)
(* From the blocks back to the lines of the file.                          *)
(***************************************************************************)
LEMMA MaxIs ==
    ASSUME NEW S \in SUBSET Nat, NEW m \in S, \A s \in S : s <= m
    PROVE  Max(S) = m
  <1>1. Max(S) \in S /\ \A s \in S : Max(S) >= s
    BY DEF Max
  <1>2. Max(S) >= m /\ Max(S) <= m
    BY <1>1
  <1>3. Max(S) \in Nat /\ m \in Nat
    BY <1>1
  <1> QED  BY <1>2, <1>3

LEMMA MinIs ==
    ASSUME NEW S \in SUBSET Nat, NEW m \in S, \A s \in S : m <= s
    PROVE  Min(S) = m
  <1>1. Min(S) \in S /\ \A s \in S : Min(S) =< s
    BY DEF Min
  <1>2. Min(S) >= m /\ Min(S) <= m
    BY <1>1
  <1>3. Min(S) \in Nat /\ m \in Nat
    BY <1>1
  <1> QED  BY <1>2, <1>3

\* bs are the blocks of file; a heading or a marker is a block of its own
Blocked(file, bs) == file \in Seq(Line) /\ Spans(file, Len(file), bs)
LinesAre(file, kind) == {i \in DOMAIN file : file[i].kind = kind}

LEMMA BlockOfLine ==
    ASSUME NEW file, NEW bs, Blocked(file, bs), NEW i \in DOMAIN file
    PROVE  /\ \E b \in DOMAIN bs : i \in bs[b].at
           /\ \A b \in DOMAIN bs : i \in bs[b].at =>
                  IF bs[b].line.kind = "table" THEN file[i].kind = "row"
                  ELSE bs[b].at = {i} /\ bs[b].line = file[i]
  <1>1. DOMAIN file = 1 .. Len(file)
    BY DEF Blocked
  <1>2. \E b \in DOMAIN bs : i \in bs[b].at
    BY <1>1 DEF Blocked, Spans, AllCovered
  <1>3. ASSUME NEW b \in DOMAIN bs, i \in bs[b].at
        PROVE  IF bs[b].line.kind = "table" THEN file[i].kind = "row"
               ELSE bs[b].at = {i} /\ bs[b].line = file[i]
    <2>1. IsTable(file, bs[b]) \/ IsLine(file, bs[b])
      BY DEF Blocked, Spans, AllSound, SoundBlock
    <2> QED  BY <1>3, <2>1 DEF IsTable, IsLine
  <1> QED  BY <1>2, <1>3

LEMMA PlaceOfLine ==
    ASSUME NEW file, NEW bs, Blocked(file, bs), NEW kind, kind \notin {"row", "table"},
           NEW i \in LinesAre(file, kind)
    PROVE  \E b \in Places(bs, kind) : bs[b].at = {i} /\ bs[b].line = file[i]
  <1>1. i \in DOMAIN file /\ file[i].kind = kind
    BY DEF LinesAre
  <1>2. PICK b \in DOMAIN bs : i \in bs[b].at
    BY <1>1, BlockOfLine
  <1>3. bs[b].at = {i} /\ bs[b].line = file[i]
    BY <1>1, <1>2, BlockOfLine
  <1> QED  BY <1>1, <1>3 DEF Places

LEMMA LineOfPlace ==
    ASSUME NEW file, NEW bs, Blocked(file, bs), NEW kind, kind # "table",
           NEW b \in Places(bs, kind)
    PROVE  \E i \in LinesAre(file, kind) : bs[b].at = {i} /\ bs[b].line = file[i]
  <1>1. b \in DOMAIN bs /\ bs[b].line.kind = kind
    BY DEF Places
  <1>2. PICK i : i \in bs[b].at
    BY <1>1 DEF Blocked, Spans, AllWithin
  <1>3. i \in DOMAIN file
    <2>1. bs[b].at \subseteq 1 .. Len(file) /\ DOMAIN file = 1 .. Len(file)
      BY <1>1 DEF Blocked, Spans, AllWithin
    <2> QED  BY <1>2, <2>1
  <1>4. bs[b].at = {i} /\ bs[b].line = file[i]
    BY <1>1, <1>2, <1>3, BlockOfLine
  <1> QED  BY <1>1, <1>3, <1>4 DEF LinesAre

LEMMA BlocksInOrder ==
    ASSUME NEW file, NEW bs, Blocked(file, bs),
           NEW b \in DOMAIN bs, NEW c \in DOMAIN bs, NEW i \in bs[b].at, NEW j \in bs[c].at
    PROVE  /\ b < c => i < j
           /\ i < j => b <= c
           /\ b \in Nat /\ c \in Nat /\ i \in Nat /\ j \in Nat
  <1>1. b \in Nat /\ c \in Nat
    <2>1. DOMAIN bs = 1 .. Len(bs)
      BY DEF Blocked, Spans
    <2> QED  BY <2>1
  <1>2. i \in Nat /\ j \in Nat
    <2>1. bs[b].at \subseteq 1 .. Len(file) /\ bs[c].at \subseteq 1 .. Len(file)
      BY DEF Blocked, Spans, AllWithin
    <2> QED  BY <2>1
  <1>3. (b < c => i < j) /\ (c < b => j < i)
    BY DEF Blocked, Spans, InOrder
  <1> QED  BY <1>1, <1>2, <1>3

LEMMA LostIsSuperseded ==
    ASSUME NEW file, NEW bs, Blocked(file, bs), NEW c \in DOMAIN bs, Lost(bs, c),
           NEW i \in bs[c].at
    PROVE  Superseded(file, i)
  <1> DEFINE S == Places(bs, "heading")
             U == SectionUnits(bs)
             heads == LinesAre(file, "heading")
             under == {k \in heads : k <= i}
             after == {k \in heads : k > i}
  <1>1. PICK h \in S \ U, g \in S \ U : h <= c /\ c < g /\ \A k \in S : k <= h \/ g <= k
    BY DEF Lost
  <1>2. bs \in Seq(FileBlock) /\ S \in SUBSET DOMAIN bs
    BY DEF Blocked, Spans, Places
  <1>3. PICK a \in heads : bs[h].at = {a} /\ bs[h].line = file[a]
    BY LineOfPlace
  <1>4. PICK z \in heads : bs[g].at = {z} /\ bs[g].line = file[z]
    BY LineOfPlace
  <1>5. \A k \in heads : \E b \in S : bs[b].at = {k} /\ bs[b].line = file[k]
    <2> SUFFICES ASSUME NEW k \in heads
                 PROVE  \E b \in S : bs[b].at = {k} /\ bs[b].line = file[k]
      OBVIOUS
    <2> QED  BY PlaceOfLine
  <1>6. heads \in SUBSET Nat /\ i \in Nat /\ h \in Nat /\ g \in Nat /\ c \in Nat
    <2>1. DOMAIN file = 1 .. Len(file)
      BY DEF Blocked
    <2>2. DOMAIN bs = 1 .. Len(bs)
      BY <1>2
    <2>3. bs[c].at \subseteq 1 .. Len(file)
      BY DEF Blocked, Spans, AllWithin
    <2> QED  BY <1>2, <2>1, <2>2, <2>3 DEF LinesAre
  <1>7. ASSUME NEW f \in S \ U, NEW b \in heads, bs[f].at = {b}, bs[f].line = file[b]
        PROVE  file[b].formula /\ b # Min(heads)
    <2>1. bs[f].line.formula
      BY <1>2, UnitsAre
    <2>2. PICK e \in S : e < f
      BY <1>2, UnitsAre
    <2>3. PICK d \in heads : bs[e].at = {d} /\ bs[e].line = file[d]
      BY LineOfPlace
    <2>4. d < b
      BY <1>2, <1>7, <2>2, <2>3, BlocksInOrder
    <2>5. PICK m \in heads : \A n \in heads : m <= n
      <3> HIDE DEF heads
      <3> QED  BY <1>6, <2>3, Least
    <2>6. Min(heads) = m
      <3> HIDE DEF heads
      <3> QED  BY <1>6, <2>5, MinIs
    <2>7. Min(heads) <= d /\ Min(heads) \in Nat /\ d \in Nat /\ b \in Nat
      BY <1>6, <2>3, <2>5, <2>6
    <2> QED  BY <1>7, <2>1, <2>4, <2>7
  <1> HIDE DEF S, U, heads
  <1>8. a <= i /\ i < z
    <2>1. a <= i
      <3>1. CASE h = c
        BY <1>3, <1>6, <3>1
      <3>2. CASE h < c
        <4>1. a < i
          BY <1>2, <1>3, <3>2, BlocksInOrder
        <4> QED  BY <1>6, <4>1
      <3> QED  BY <1>1, <1>6, <3>1, <3>2
    <2>2. i < z
      BY <1>1, <1>2, <1>4, BlocksInOrder
    <2> QED  BY <2>1, <2>2
  <1>9. ASSUME NEW k \in heads
        PROVE  k <= a \/ z <= k
    <2>1. PICK b \in S : bs[b].at = {k}
      BY <1>5
    <2>2. b \in Nat
      BY <1>2, <2>1, PlacesAreFinite
    <2>3. CASE b <= h
      <3>1. ~(a < k)
        <4>1. CASE b = h
          BY <1>3, <1>6, <2>1, <4>1
        <4>2. CASE b < h
          <5>1. k < a
            BY <1>2, <1>3, <2>1, <4>2, BlocksInOrder
          <5> QED  BY <1>6, <5>1
        <4> QED  BY <1>6, <2>2, <2>3, <4>1, <4>2
      <3> QED  BY <1>6, <3>1
    <2>4. CASE g <= b
      <3>1. ~(k < z)
        <4>1. CASE b = g
          BY <1>4, <1>6, <2>1, <4>1
        <4>2. CASE g < b
          <5>1. z < k
            BY <1>2, <1>4, <2>1, <4>2, BlocksInOrder
          <5> QED  BY <1>6, <5>1
        <4> QED  BY <1>6, <2>2, <2>4, <4>1, <4>2
      <3> QED  BY <1>6, <3>1
    <2> QED  BY <1>1, <2>1, <2>3, <2>4
  <1>10. a \in under /\ Max(under) = a
    <2>1. a \in under /\ under \in SUBSET Nat
      BY <1>6, <1>8
    <2>2. \A k \in under : k <= a
      BY <1>6, <1>8, <1>9
    <2> HIDE DEF under
    <2> QED  BY <2>1, <2>2, MaxIs
  <1>11. z \in after /\ Min(after) = z
    <2>1. z \in after /\ after \in SUBSET Nat
      BY <1>6, <1>8
    <2>2. \A k \in after : z <= k
      BY <1>6, <1>8, <1>9
    <2> HIDE DEF after
    <2> QED  BY <2>1, <2>2, MinIs
  <1>12. \A m \in DOMAIN file : file[m].kind # "marker"
    <2> SUFFICES ASSUME NEW m \in DOMAIN file, file[m].kind = "marker"
                 PROVE  FALSE
      OBVIOUS
    <2>1. m \in LinesAre(file, "marker")
      BY DEF LinesAre
    <2>2. Places(bs, "marker") # {}
      BY <2>1, PlaceOfLine
    <2> QED  BY <2>2 DEF Lost
  <1>13. file[a].formula /\ a # Min(heads)
    BY <1>3, <1>7
  <1>14. file[z].formula /\ z # Min(heads)
    BY <1>4, <1>7
  <1>15. heads = {k \in DOMAIN file : file[k].kind = "heading"}
    BY DEF heads, LinesAre
  <1>16. /\ under # {} /\ file[Max(under)].formula /\ Max(under) # Min(heads)
         /\ after # {} /\ file[Min(after)].formula /\ Min(after) # Min(heads)
    BY <1>10, <1>11, <1>13, <1>14
  <1> QED  BY <1>12, <1>15, <1>16 DEF Superseded

-----------------------------------------------------------------------------
(***************************************************************************)
(* A file is whole.                                                        *)
(***************************************************************************)
Holding(D, i) == {k \in DOMAIN D : i \in D[k].lines}
NoMarkers(file) == \A m \in DOMAIN file : file[m].kind # "marker"
ClausesOver(file, h) == {g \in 1 .. h - 1 : file[g].kind = "heading" /\ ~file[g].formula}

LEMMA HoldingIs ==
    ASSUME NEW file, NEW bs, Blocked(file, bs), NEW D, NEW p, IsCut(bs, D, p),
           NEW c \in DOMAIN bs, NEW i \in bs[c].at
    PROVE  Holding(D, i) = {k \in DOMAIN p : c \in p[k]}
  <1>1. DOMAIN p = DOMAIN D
    BY DEF IsCut
  <1>2. \A k \in DOMAIN D : i \in D[k].lines <=> c \in p[k]
    <2> SUFFICES ASSUME NEW k \in DOMAIN D
                 PROVE  i \in D[k].lines <=> c \in p[k]
      OBVIOUS
    <2>1. Len(file) \in Nat /\ Spans(file, Len(file), bs)
      BY DEF Blocked
    <2> QED  BY <2>1, HeldIs
  <1> QED  BY <1>1, <1>2 DEF Holding

LEMMA FailsAsSuperseded ==
    ASSUME NEW file, NEW bs, Blocked(file, bs), NEW D, NEW p, IsCut(bs, D, p),
           KeepsAll(bs, p), ~PlacesOnce(bs, D)
    PROVE  \E i \in DOMAIN file : Superseded(file, i) /\ file[i].kind = "row"
  <1>1. PICK b \in Places(bs, "table") :
              Cardinality({k \in DOMAIN D : bs[b].at \subseteq D[k].lines}) # 1
    BY DEF PlacesOnce
  <1>2. b \in DOMAIN bs /\ bs[b].line.kind = "table"
    BY DEF Places
  <1>3. Len(file) \in Nat /\ Spans(file, Len(file), bs)
    BY DEF Blocked
  <1>4. \A k \in DOMAIN D : bs[b].at \subseteq D[k].lines <=> b \in p[k]
    <2> SUFFICES ASSUME NEW k \in DOMAIN D
                 PROVE  bs[b].at \subseteq D[k].lines <=> b \in p[k]
      OBVIOUS
    <2> QED  BY <1>2, <1>3, HeldIs
  <1>5. DOMAIN p = DOMAIN D
    BY DEF IsCut
  <1>6. {k \in DOMAIN D : bs[b].at \subseteq D[k].lines} = {k \in DOMAIN p : b \in p[k]}
    BY <1>4, <1>5
  <1>7. ~Once(p, b)
    BY <1>1, <1>6, OnceIsOne
  <1>8. Lost(bs, b)
    BY <1>2, <1>7 DEF KeepsAll
  <1>9. PICK i : i \in bs[b].at
    BY <1>2, <1>3 DEF Spans, AllWithin
  <1>10. i \in DOMAIN file
    <2>1. bs[b].at \subseteq 1 .. Len(file) /\ DOMAIN file = 1 .. Len(file)
      BY <1>2, <1>3 DEF Spans, AllWithin, Blocked
    <2> QED  BY <1>9, <2>1
  <1>11. file[i].kind = "row"
    BY <1>2, <1>9, <1>10, BlockOfLine
  <1>12. Superseded(file, i)
    BY <1>2, <1>8, <1>9, LostIsSuperseded
  <1> QED  BY <1>10, <1>11, <1>12

LEMMA LineIsHeld ==
    ASSUME NEW file, NEW bs, Blocked(file, bs), NEW D, NEW p, IsCut(bs, D, p),
           KeepsAll(bs, p), NEW i \in DOMAIN file, ~Superseded(file, i), file[i].kind # "marker"
    PROVE  Cardinality(Holding(D, i)) = 1
  <1>1. PICK c \in DOMAIN bs : i \in bs[c].at
    BY BlockOfLine
  <1>2. bs[c].line.kind # "marker"
    <2>1. bs[c].line.kind = "table" \/ bs[c].line = file[i]
      BY <1>1, BlockOfLine
    <2> QED  BY <2>1
  <1>3. ~Lost(bs, c)
    BY <1>1, LostIsSuperseded
  <1>4. Once(p, c)
    BY <1>2, <1>3 DEF KeepsAll
  <1>5. Holding(D, i) = {k \in DOMAIN p : c \in p[k]}
    BY <1>1, HoldingIs
  <1> QED  BY <1>4, <1>5, OnceIsOne

LEMMA FormulaIsHeld ==
    ASSUME NEW file, NEW bs, Blocked(file, bs), NEW D, NEW p, IsCut(bs, D, p),
           StaysWith(bs, p), NEW h \in DOMAIN file, file[h].kind = "heading", file[h].formula,
           ClausesOver(file, h) # {}, ~Superseded(file, h), NoMarkers(file)
    PROVE  Holding(D, h) = Holding(D, Max(ClausesOver(file, h)))
  <1> DEFINE S == Places(bs, "heading")
             U == SectionUnits(bs)
             C == ClausesOver(file, h)
  <1>1. h \in Nat /\ DOMAIN file = 1 .. Len(file) /\ Len(file) \in Nat
    BY DEF Blocked
  <1>2. C \in SUBSET Nat /\ \A g \in C : g < h /\ g \in LinesAre(file, "heading") /\ ~file[g].formula
    <2>1. \A g \in 1 .. h - 1 : g \in Nat /\ g < h /\ g \in DOMAIN file
      BY <1>1
    <2> QED  BY <2>1 DEF ClausesOver, LinesAre
  <1>3. PICK g \in C : \A k \in C : k <= g
    <2>1. \A k \in C : k <= h
      BY <1>1, <1>2
    <2> HIDE DEF C
    <2>2. C # {}
      BY DEF C
    <2> QED  BY <1>1, <1>2, <2>1, <2>2, GreatestExists
  <1>4. Max(C) = g
    <2> HIDE DEF C
    <2> QED  BY <1>2, <1>3, MaxIs
  <1>5. \A k \in 1 .. h - 1 : file[k].kind = "heading" /\ ~file[k].formula => k <= g
    BY <1>3 DEF ClausesOver
  <1> HIDE DEF C
  <1>6. g \in LinesAre(file, "heading") /\ g < h /\ ~file[g].formula /\ g \in Nat
    BY <1>2
  <1>6a. \A k \in LinesAre(file, "heading") : \E b \in S : bs[b].at = {k} /\ bs[b].line = file[k]
    <2> SUFFICES ASSUME NEW k \in LinesAre(file, "heading")
                 PROVE  \E b \in S : bs[b].at = {k} /\ bs[b].line = file[k]
      OBVIOUS
    <2> QED  BY PlaceOfLine, SMTT(20)
  <1>7. PICK b \in S : bs[b].at = {h} /\ bs[b].line = file[h]
    <2>1. h \in LinesAre(file, "heading")
      BY DEF LinesAre
    <2> HIDE DEF S
    <2> QED  BY <1>6a, <2>1
  <1>8. PICK u \in S : bs[u].at = {g} /\ bs[u].line = file[g]
    <2> HIDE DEF S
    <2> QED  BY <1>6, <1>6a
  <1>9. bs \in Seq(FileBlock) /\ S \in SUBSET DOMAIN bs /\ S \in SUBSET Nat /\ U \in SUBSET S
    <2>1. bs \in Seq(FileBlock)
      BY DEF Blocked, Spans
    <2> QED  BY <2>1, UnitsAre
  <1>10. Places(bs, "marker") = {}
    <2> SUFFICES ASSUME NEW m \in Places(bs, "marker")
                 PROVE  FALSE
      OBVIOUS
    <2>1. LinesAre(file, "marker") # {}
      BY LineOfPlace
    <2> QED  BY <2>1 DEF LinesAre, NoMarkers
  <1>11. u < b
    <2>1. u <= b
      BY <1>6, <1>7, <1>8, <1>9, BlocksInOrder
    <2>2. u # b
      BY <1>6, <1>7, <1>8, <1>1
    <2> QED  BY <1>9, <2>1, <2>2
  <1>12. u \in U
    BY <1>6, <1>8 DEF SectionUnits
  <1>13. b \notin U
    <2>1. \E k \in S : ~(b <= k)
      BY <1>9, <1>11
    <2>2. bs[b].line.formula
      BY <1>7
    <2> QED  BY <2>1, <2>2 DEF SectionUnits
  <1>14. ASSUME NEW v \in U, u < v, v < b
         PROVE  FALSE
    <2>1. v \in S /\ (~bs[v].line.formula \/ \A k \in S : v <= k)
      BY <1>14 DEF SectionUnits
    <2>2. ~bs[v].line.formula
      <3>1. ~(v <= u)
        BY <1>9, <1>14
      <3> QED  BY <2>1, <3>1
    <2>3. PICK j \in LinesAre(file, "heading") : bs[v].at = {j} /\ bs[v].line = file[j]
      BY <2>1, LineOfPlace
    <2>4. g < j /\ j < h /\ j \in Nat
      BY <1>7, <1>8, <1>9, <1>14, <2>1, <2>3, BlocksInOrder
    <2>5. j \in 1 .. h - 1
      BY <1>1, <1>6, <2>4
    <2>6. j <= g
      BY <1>5, <2>2, <2>3, <2>5 DEF LinesAre
    <2> QED  BY <1>6, <2>4, <2>6
  <1>15. Under(bs, u, b)
    BY <1>11, <1>14 DEF Under
  <1>16. ~Lost(bs, b)
    <2>1. h \in bs[b].at /\ b \in DOMAIN bs
      BY <1>7, <1>9
    <2> QED  BY <2>1, LostIsSuperseded
  <1>17. Paired(p, b, u)
    BY <1>10, <1>12, <1>13, <1>15, <1>16 DEF StaysWith
  <1>18. Holding(D, h) = {k \in DOMAIN p : b \in p[k]}
    <2>1. h \in bs[b].at /\ b \in DOMAIN bs
      BY <1>7, <1>9
    <2> QED  BY <2>1, HoldingIs
  <1>19. Holding(D, g) = {k \in DOMAIN p : u \in p[k]}
    <2>1. g \in bs[u].at /\ u \in DOMAIN bs
      BY <1>8, <1>9
    <2> QED  BY <2>1, HoldingIs
  <1> QED  BY <1>4, <1>17, <1>18, <1>19 DEF Paired, C

FileShape == case.of = "file" => case.file \in Files /\ case.out = Ingested(case.file)

LEMMA FileShapeStep == Shape /\ FileShape /\ [Step]_case => FileShape'
  <1> SUFFICES ASSUME Shape, FileShape, [Step]_case
               PROVE  FileShape'
    OBVIOUS
  <1>1. CASE CutFile
    BY <1>1 DEF CutFile, FileShape
  <1>2. CASE UNCHANGED case
    BY <1>2 DEF FileShape
  <1>3. CASE Step /\ ~CutFile
    <2>1. case'.of # "file"
      <3>1. CASE Write \/ Verify
        BY <3>1 DEF Write, Verify
      <3>2. CASE WriteDraft \/ Assess
        BY <3>2 DEF WriteDraft, Assess
      <3>3. CASE AskRepair \/ RepairDraft
        BY <3>3 DEF AskRepair, RepairDraft
      <3>4. CASE Navigate
        BY <3>4 DEF Navigate
      <3>5. CASE Browse \/ ReadRow \/ Finish \/ EndTurn \/ Break
        <4>1. /\ case.of = "navigation"
              /\ \E trip : case' = [case EXCEPT !.nav = trip]
          BY <3>5 DEF Browse, ReadRow, Finish, EndTurn, Break, Navigating
        <4>2. PICK trip : case' = [of |-> "navigation", nav |-> trip]
          BY <4>1, NavStep DEF Shape
        <4> QED  BY <4>2
      <3>6. CASE Converse
        BY <3>6 DEF Converse
      <3>7. CASE ReadEvidence
        BY <3>7 DEF ReadEvidence
      <3>8. CASE CutTable
        BY <3>8 DEF CutTable
      <3>9. CASE Promote
        BY <3>9 DEF Promote
      <3>10. CASE PromoteForCoverage
        BY <3>10 DEF PromoteForCoverage
      <3> QED  BY <1>3, <3>1, <3>2, <3>3, <3>4, <3>5, <3>6, <3>7, <3>8, <3>9, <3>10 DEF Step
    <2> QED  BY <2>1 DEF FileShape
  <1> QED  BY <1>1, <1>2, <1>3

(* Ingestion loses no line of any file: every one is in one section document *)
(* but for the formulas that a later one supersedes, a formula is with the   *)
(* clause it belongs to, ids differ, and nothing but a table under such a    *)
(* formula stops the file (ingest, build_section_documents).                 *)
THEOREM SectionsStayWhole == Cases => []SectionsAreWhole
  <1>1. FileShape => SectionsAreWhole
    <2> SUFFICES ASSUME FileShape, case.of = "file"
                 PROVE  SectionsAreWhole
      BY DEF SectionsAreWhole
    <2> DEFINE file == case.file
               bs == Protected(file)
               D == SectionDocuments(bs)
    <2>1. file \in Seq(Line)
      BY AlgorithmsAssumption DEF FileShape
    <2>2. Blocked(file, bs)
      BY <2>1, ProtectedSpans DEF Blocked
    <2>3. case.out.failed = ~PlacesOnce(bs, D) /\ case.out.documents = D
      BY DEF FileShape, Ingested
    <2> HIDE DEF file, bs, D
    <2>4. PICK p : IsCut(bs, D, p) /\ KeepsAll(bs, p) /\ StaysWith(bs, p)
      <3>1. bs \in Seq(FileBlock)
        BY <2>2 DEF Blocked, Spans
      <3>2. IsWhole(bs, D)
        BY <3>1, SectionsCut DEF D
      <3> QED  BY <3>2 DEF IsWhole
    <2>5. case.out.failed => \E i \in DOMAIN file : Superseded(file, i) /\ file[i].kind = "row"
      BY <2>2, <2>3, <2>4, FailsAsSuperseded
    <2>6. \A i \in DOMAIN file : ~Superseded(file, i) /\ file[i].kind # "marker" =>
              Cardinality(Holding(D, i)) = 1
      BY <2>2, <2>4, LineIsHeld
    <2>7. \A h \in DOMAIN file :
              /\ file[h].kind = "heading" /\ file[h].formula /\ ClausesOver(file, h) # {}
              /\ ~Superseded(file, h) /\ NoMarkers(file)
              => Holding(D, h) = Holding(D, Max(ClausesOver(file, h)))
      BY <2>2, <2>4, FormulaIsHeld
    <2>8. \A k, l \in DOMAIN D : D[k].id = D[l].id => k = l
      BY <2>4 DEF IsCut
    <2> QED  BY <2>3, <2>5, <2>6, <2>7, <2>8
             DEF SectionsAreWhole, Holding, ClausesOver, NoMarkers, file
  <1>2. NoCase => FileShape
    BY DEF NoCase, FileShape
  <1>3. Shape /\ FileShape /\ [Step]_case => FileShape'
    BY FileShapeStep
  <1> QED  BY <1>1, <1>2, <1>3, ShapeIsKept, PTL DEF Cases
===============================================================================
