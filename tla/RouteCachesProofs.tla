-------------------------- MODULE RouteCachesProofs -------------------------
(***************************************************************************)
(* The caches of routes, for any keys, positions and capacities: the       *)
(* simulated cache is the real one, the cache of simulator v3 holds the    *)
(* cells that were asked for last, and an epoch of routes asked for ahead  *)
(* leaves answers and caches as sequential calls would.                    *)
(***************************************************************************)
EXTENDS RouteCaches, RouteEpoch, FiniteSetTheorems, SequenceTheorems, WellFoundedInduction, TLAPS

-----------------------------------------------------------------------------
(* Induction over sequences, for a set of sequences: what holds of the     *)
(* empty sequence and is kept when an element is appended holds of all.    *)
Below == {mn \in Nat \X Nat : mn[1] < mn[2]}

LEMMA LeastElement ==
  ASSUME NEW S \in SUBSET Nat, S # {}
  PROVE  \E m \in S : \A n \in S : ~(n < m)
<1>1. Below = OpToRel(<, Nat)
  BY DEF Below, OpToRel
<1>2. IsWellFoundedOn(Below, Nat)
  BY <1>1, NatLessThanWellFounded
<1>3. \E m \in S : \A n \in S : ~(<<n, m>> \in Below)
  BY <1>2, WFMin
<1>4. QED
  BY <1>3 DEF Below

LEMMA AppendInduction ==
  ASSUME NEW K, NEW Good \in SUBSET Seq(K), <<>> \in Good,
         \A s \in Good, x \in K : Append(s, x) \in Good
  PROVE  Good = Seq(K)
<1> DEFINE bad == {Len(s) : s \in Seq(K) \ Good}
<1>1. SUFFICES ASSUME bad # {} PROVE FALSE
  OBVIOUS
<1>2. bad \in SUBSET Nat
  BY LenProperties
<1>3. PICK m \in bad : \A n \in bad : ~(n < m)
  BY <1>1, <1>2, LeastElement
<1>4. PICK s \in Seq(K) \ Good : Len(s) = m
  BY <1>3
<1>5. s # <<>>
  BY <1>4
<1>6. PICK t \in Seq(K), x \in K : s = Append(t, x)
  BY <1>5, SequenceEmptyOrAppend
<1>7. Len(s) = Len(t) + 1 /\ Len(t) \in Nat
  BY <1>6, AppendProperties, LenProperties
<1>8. Len(t) \notin bad
  <2> HIDE DEF bad
  <2>1. QED
    BY <1>3, <1>4, <1>7
<1>9. t \in Good
  BY <1>8
<1>10. QED
  BY <1>4, <1>6, <1>9

-----------------------------------------------------------------------------
(* Sets of elements.                                                       *)
LEMMA SetOfEmpty == ToSet(<<>>) = {}
  BY DEF ToSet

LEMMA SetOfAppend ==
  ASSUME NEW K, NEW s \in Seq(K), NEW x \in K
  PROVE  ToSet(Append(s, x)) = ToSet(s) \cup {x}
<1>1. /\ Len(s) \in Nat /\ DOMAIN s = 1..Len(s) /\ DOMAIN Append(s, x) = 1..(Len(s) + 1)
      /\ \A i \in 1..Len(s) : Append(s, x)[i] = s[i]
      /\ Append(s, x)[Len(s) + 1] = x
  BY AppendProperties, LenProperties
<1>2. 1..(Len(s) + 1) = (1..Len(s)) \cup {Len(s) + 1}
  BY <1>1
<1>3. QED
  BY <1>1, <1>2 DEF ToSet

LEMMA ConcatAppend ==
  ASSUME NEW K, NEW s \in Seq(K), NEW t \in Seq(K), NEW x \in K
  PROVE  s \o Append(t, x) = Append(s \o t, x)
<1>1. <<x>> \in Seq(K) /\ s \o t \in Seq(K)
  BY ConcatProperties
<1>2. Append(t, x) = t \o <<x>> /\ Append(s \o t, x) = (s \o t) \o <<x>>
  BY <1>1, AppendIsConcat
<1>3. QED
  BY <1>1, <1>2, ConcatAssociative

LEMMA SetOfConcat ==
  ASSUME NEW K, NEW s \in Seq(K), NEW t \in Seq(K)
  PROVE  ToSet(s \o t) = ToSet(s) \cup ToSet(t)
<1> DEFINE Good == {u \in Seq(K) : ToSet(s \o u) = ToSet(s) \cup ToSet(u)}
<1>1. <<>> \in Good
  BY ConcatEmptySeq, SetOfEmpty, EmptySeq
<1>2. ASSUME NEW u \in Good, NEW x \in K PROVE Append(u, x) \in Good
  <2>1. s \o Append(u, x) = Append(s \o u, x) /\ s \o u \in Seq(K) /\ Append(u, x) \in Seq(K)
    BY AppendProperties, ConcatProperties, ConcatAppend
  <2>2. ToSet(Append(s \o u, x)) = ToSet(s \o u) \cup {x}
    <3>1. PICK w \in Seq(K) : w = s \o u
      BY <2>1
    <3>2. ToSet(Append(w, x)) = ToSet(w) \cup {x}
      BY SetOfAppend
    <3>3. QED
      BY <3>1, <3>2
  <2>3. ToSet(Append(u, x)) = ToSet(u) \cup {x}
    BY SetOfAppend
  <2>4. QED
    BY <2>1, <2>2, <2>3
<1>3. Good = Seq(K)
  <2> HIDE DEF Good
  <2>1. Good \in SUBSET Seq(K)
    BY DEF Good
  <2>2. QED
    BY <1>1, <1>2, <2>1, AppendInduction
<1>4. QED
  BY <1>3

(* What an injective sequence is.                                          *)
LEMMA InjectiveAppend ==
  ASSUME NEW K, NEW s \in Seq(K), NEW x \in K
  PROVE  IsInjective(Append(s, x)) <=> IsInjective(s) /\ x \notin ToSet(s)
<1>1. /\ Len(s) \in Nat /\ DOMAIN s = 1..Len(s) /\ DOMAIN Append(s, x) = 1..(Len(s) + 1)
      /\ \A i \in 1..Len(s) : Append(s, x)[i] = s[i]
      /\ Append(s, x)[Len(s) + 1] = x
  BY AppendProperties, LenProperties
<1>2. 1..(Len(s) + 1) = (1..Len(s)) \cup {Len(s) + 1} /\ Len(s) + 1 \notin 1..Len(s)
  BY <1>1
<1>3. PICK t : t = Append(s, x)
  OBVIOUS
<1>4. /\ DOMAIN t = DOMAIN s \cup {Len(s) + 1} /\ Len(s) + 1 \notin DOMAIN s
      /\ \A i \in DOMAIN s : t[i] = s[i]
      /\ t[Len(s) + 1] = x
  BY <1>1, <1>2, <1>3
<1>5. IsInjective(t) => IsInjective(s) /\ x \notin ToSet(s)
  BY <1>4 DEF ToSet, IsInjective
<1>6. IsInjective(s) /\ x \notin ToSet(s) => IsInjective(t)
  BY <1>4 DEF ToSet, IsInjective
<1>7. QED
  BY <1>3, <1>5, <1>6

-----------------------------------------------------------------------------
(* Left is the function its recursive definition describes.                *)
IsLeft(left, keys, gone, m) ==
  left = [n \in 0..m |->
            IF n = 0 THEN <<>>
            ELSE IF keys[n] \in gone THEN left[n - 1] ELSE Append(left[n - 1], keys[n])]

LEMMA LeftUnfolds ==
  ASSUME NEW K, NEW keys \in Seq(K), NEW gone
  PROVE  IsLeft(Left(keys, gone), keys, gone, Len(keys))
<1> DEFINE undefined == {m \in 0..Len(keys) : ~ \E left : IsLeft(left, keys, gone, m)}
<1>1. undefined = {}
  <2> SUFFICES ASSUME undefined # {} PROVE FALSE
    OBVIOUS
  <2>1. Len(keys) \in Nat /\ undefined \in SUBSET Nat
    BY LenProperties
  <2>2. PICK m \in undefined : \A n \in undefined : ~(n < m)
    BY <2>1, LeastElement
  <2>3. CASE m = 0
    <3>1. IsLeft([n \in 0..0 |-> <<>>], keys, gone, 0)
      BY DEF IsLeft
    <3>2. QED
      BY <2>2, <2>3, <3>1
  <2>4. CASE m # 0
    <3> DEFINE next(f, n) == IF n = 0 THEN <<>>
                             ELSE IF keys[n] \in gone THEN f[n - 1]
                             ELSE Append(f[n - 1], keys[n])
    <3>1. m \in Nat /\ m - 1 \in 0..Len(keys) /\ m - 1 < m
      BY <2>1, <2>2, <2>4
    <3>2. PICK f : IsLeft(f, keys, gone, m - 1)
      BY <2>2, <3>1
    <3>3. f = [n \in 0..(m - 1) |-> next(f, n)]
      BY <3>2 DEF IsLeft
    <3> DEFINE g == [n \in 0..m |-> next(f, n)]
    <3>4. \A n \in 0..m : n # 0 => g[n - 1] = f[n - 1]
      <4> HIDE DEF next
      <4>1. QED
        BY <3>1, <3>3
    <3>5. \A n \in 0..m : next(g, n) = next(f, n)
      <4> HIDE DEF g
      <4>1. QED
        BY <3>4
    <3>6. g = [n \in 0..m |-> next(g, n)]
      <4> HIDE DEF next
      <4>1. QED
        BY <3>5, Zenon
    <3>7. IsLeft(g, keys, gone, m)
      BY <3>6 DEF IsLeft
    <3>8. QED
      BY <2>2, <3>7
  <2>5. QED
    BY <2>3, <2>4
<1>2. Len(keys) \in 0..Len(keys)
  BY LenProperties
<1>3. \E left : IsLeft(left, keys, gone, Len(keys))
  BY <1>1, <1>2
<1>4. Left(keys, gone) = CHOOSE left : IsLeft(left, keys, gone, Len(keys))
  BY Zenon DEF Left, IsLeft
<1>5. QED
  BY <1>3, <1>4

(* Without drops an element that is gone and keeps any other, one by one.  *)
LEMMA WithoutEmpty ==
  ASSUME NEW gone
  PROVE  Without(<<>>, gone) = <<>>
<1>1. <<>> \in Seq({}) /\ Len(<<>>) = 0
  BY EmptySeq
<1>2. IsLeft(Left(<<>>, gone), <<>>, gone, 0)
  BY <1>1, LeftUnfolds
<1>3. QED
  BY <1>1, <1>2 DEF IsLeft, Without

LEMMA WithoutAppend ==
  ASSUME NEW K, NEW s \in Seq(K), NEW x \in K, NEW gone
  PROVE  Without(Append(s, x), gone)
           = IF x \in gone THEN Without(s, gone) ELSE Append(Without(s, gone), x)
<1>1. PICK t : t = Append(s, x)
  OBVIOUS
<1>2. /\ t \in Seq(K) /\ Len(t) = Len(s) + 1 /\ Len(s) \in Nat
      /\ \A i \in 1..Len(s) : t[i] = s[i]
      /\ t[Len(s) + 1] = x
  BY <1>1, AppendProperties, LenProperties
<1>3. PICK f : f = Left(t, gone)
  OBVIOUS
<1>4. PICK g : g = Left(s, gone)
  OBVIOUS
<1>5. IsLeft(f, t, gone, Len(s) + 1) /\ IsLeft(g, s, gone, Len(s))
  BY <1>2, <1>3, <1>4, LeftUnfolds
<1>6. /\ \A n \in 0..(Len(s) + 1) :
           f[n] = IF n = 0 THEN <<>>
                  ELSE IF t[n] \in gone THEN f[n - 1] ELSE Append(f[n - 1], t[n])
      /\ \A n \in 0..Len(s) :
           g[n] = IF n = 0 THEN <<>>
                  ELSE IF s[n] \in gone THEN g[n - 1] ELSE Append(g[n - 1], s[n])
  BY <1>5 DEF IsLeft
<1> DEFINE apart == {n \in 0..Len(s) : f[n] # g[n]}
<1>7. apart = {}
  <2> SUFFICES ASSUME apart # {} PROVE FALSE
    OBVIOUS
  <2>1. apart \in SUBSET Nat
    BY <1>2
  <2>2. PICK m \in apart : \A n \in apart : ~(n < m)
    BY <2>1, LeastElement
  <2>3. m \in 0..Len(s) /\ f[m] # g[m] /\ m \in 0..(Len(s) + 1)
    BY <1>2, <2>2
  <2>4. m # 0
    BY <1>6, <2>3
  <2>5. m - 1 \in 0..Len(s) /\ m - 1 < m /\ m \in 1..Len(s)
    BY <1>2, <2>3, <2>4
  <2>6. f[m - 1] = g[m - 1]
    BY <2>2, <2>5
  <2>7. t[m] = s[m]
    BY <1>2, <2>5
  <2>8. QED
    BY <1>6, <2>3, <2>4, <2>6, <2>7
<1>8. f[Len(s)] = g[Len(s)]
  BY <1>2, <1>7
<1>9. f[Len(s) + 1] = IF x \in gone THEN f[Len(s)] ELSE Append(f[Len(s)], x)
  <2>1. Len(s) + 1 \in 0..(Len(s) + 1) /\ Len(s) + 1 # 0 /\ (Len(s) + 1) - 1 = Len(s)
    BY <1>2
  <2>2. QED
    BY <1>2, <1>6, <2>1
<1>10. QED
  BY <1>1, <1>2, <1>3, <1>4, <1>8, <1>9 DEF Without

LEMMA WithoutFacts ==
  ASSUME NEW K, NEW gone, NEW s \in Seq(K)
  PROVE  /\ Without(s, gone) \in Seq(K)
         /\ ToSet(Without(s, gone)) = ToSet(s) \ gone
         /\ IsInjective(s) => IsInjective(Without(s, gone))
<1> DEFINE Fact(u) == /\ Without(u, gone) \in Seq(K)
                      /\ ToSet(Without(u, gone)) = ToSet(u) \ gone
                      /\ IsInjective(u) => IsInjective(Without(u, gone))
           Good == {u \in Seq(K) : Fact(u)}
<1>1. <<>> \in Good
  BY WithoutEmpty, SetOfEmpty, EmptySeq
<1>2. ASSUME NEW u \in Good, NEW x \in K PROVE Append(u, x) \in Good
  <2>1. PICK w : w = Without(u, gone)
    OBVIOUS
  <2>2. u \in Seq(K) /\ w \in Seq(K) /\ ToSet(w) = ToSet(u) \ gone
        /\ (IsInjective(u) => IsInjective(w))
    BY <2>1
  <2>3. Without(Append(u, x), gone) = IF x \in gone THEN w ELSE Append(w, x)
    BY <2>1, <2>2, WithoutAppend
  <2>4. /\ Append(u, x) \in Seq(K) /\ Append(w, x) \in Seq(K)
        /\ ToSet(Append(u, x)) = ToSet(u) \cup {x} /\ ToSet(Append(w, x)) = ToSet(w) \cup {x}
        /\ IsInjective(Append(u, x)) <=> IsInjective(u) /\ x \notin ToSet(u)
        /\ IsInjective(Append(w, x)) <=> IsInjective(w) /\ x \notin ToSet(w)
    BY <2>2, AppendProperties, SetOfAppend, InjectiveAppend
  <2>5. Fact(Append(u, x))
    BY <2>2, <2>3, <2>4
  <2>6. QED
    BY <2>4, <2>5
<1>3. Good = Seq(K)
  <2>1. Good \in SUBSET Seq(K)
    OBVIOUS
  <2> HIDE DEF Good
  <2>2. QED
    BY <1>1, <1>2, <2>1, AppendInduction
<1>4. QED
  BY <1>3

LEMMA WithoutConcat ==
  ASSUME NEW K, NEW gone, NEW s \in Seq(K), NEW t \in Seq(K)
  PROVE  Without(s \o t, gone) = Without(s, gone) \o Without(t, gone)
<1> DEFINE Good == {u \in Seq(K) : Without(s \o u, gone) = Without(s, gone) \o Without(u, gone)}
<1>1. <<>> \in Good
  BY WithoutEmpty, EmptySeq, ConcatEmptySeq, WithoutFacts
<1>2. ASSUME NEW u \in Good, NEW x \in K PROVE Append(u, x) \in Good
  <2>1. PICK v \in Seq(K) : v = Without(s, gone)
    BY WithoutFacts
  <2>2. PICK w \in Seq(K) : w = Without(u, gone)
    BY WithoutFacts
  <2>3. PICK r \in Seq(K) : r = s \o u
    BY ConcatProperties
  <2>4. s \o Append(u, x) = Append(r, x)
    BY <2>3, ConcatAppend
  <2>5. Without(Append(r, x), gone) = IF x \in gone THEN v \o w ELSE Append(v \o w, x)
    <3>1. Without(r, gone) = v \o w
      BY <2>1, <2>2, <2>3
    <3>2. Without(Append(r, x), gone)
            = IF x \in gone THEN Without(r, gone) ELSE Append(Without(r, gone), x)
      BY WithoutAppend
    <3>3. QED
      BY <3>1, <3>2, Zenon
  <2>6. v \o Append(w, x) = Append(v \o w, x)
    BY ConcatAppend
  <2>7. Without(Append(u, x), gone) = IF x \in gone THEN w ELSE Append(w, x)
    <3>1. Without(Append(u, x), gone)
            = IF x \in gone THEN Without(u, gone) ELSE Append(Without(u, gone), x)
      BY WithoutAppend
    <3>2. QED
      BY <2>2, <3>1, Zenon
  <2>8. Without(s \o Append(u, x), gone) = v \o Without(Append(u, x), gone)
    BY <2>4, <2>5, <2>6, <2>7
  <2>9. QED
    BY <2>1, <2>8, AppendProperties
<1>3. Good = Seq(K)
  <2>1. Good \in SUBSET Seq(K)
    OBVIOUS
  <2> HIDE DEF Good
  <2>2. QED
    BY <1>1, <1>2, <2>1, AppendInduction
<1>4. QED
  BY <1>3

LEMMA WithoutTwice ==
  ASSUME NEW K, NEW gone, NEW more, NEW s \in Seq(K)
  PROVE  Without(Without(s, gone), more) = Without(s, gone \cup more)
<1> DEFINE Good == {u \in Seq(K) : Without(Without(u, gone), more) = Without(u, gone \cup more)}
<1>1. <<>> \in Good
  BY WithoutEmpty, EmptySeq
<1>2. ASSUME NEW u \in Good, NEW x \in K PROVE Append(u, x) \in Good
  <2>1. PICK w \in Seq(K) : w = Without(u, gone)
    BY WithoutFacts
  <2>2. /\ Without(Append(u, x), gone)
             = IF x \in gone THEN Without(u, gone) ELSE Append(Without(u, gone), x)
        /\ Without(Append(w, x), more)
             = IF x \in more THEN Without(w, more) ELSE Append(Without(w, more), x)
        /\ Without(Append(u, x), gone \cup more)
             = IF x \in gone \cup more THEN Without(u, gone \cup more)
               ELSE Append(Without(u, gone \cup more), x)
    BY WithoutAppend
  <2>3. Without(w, more) = Without(u, gone \cup more)
    BY <2>1
  <2>4. Without(Without(Append(u, x), gone), more) = Without(Append(u, x), gone \cup more)
    <3>1. CASE x \in gone
      BY <2>1, <2>2, <2>3, <3>1
    <3>2. CASE x \notin gone
      BY <2>1, <2>2, <2>3, <3>2
    <3>3. QED
      BY <3>1, <3>2
  <2>5. QED
    BY <2>4, AppendProperties
<1>3. Good = Seq(K)
  <2>1. Good \in SUBSET Seq(K)
    OBVIOUS
  <2> HIDE DEF Good
  <2>2. QED
    BY <1>1, <1>2, <2>1, AppendInduction
<1>4. QED
  BY <1>3

(* Only the elements there are matter.                                     *)
LEMMA WithoutSame ==
  ASSUME NEW K, NEW gone, NEW other, NEW s \in Seq(K), ToSet(s) \ gone = ToSet(s) \ other
  PROVE  Without(s, gone) = Without(s, other)
<1> DEFINE Good == {u \in Seq(K) : ToSet(u) \ gone = ToSet(u) \ other
                                     => Without(u, gone) = Without(u, other)}
<1>1. <<>> \in Good
  BY WithoutEmpty, EmptySeq
<1>2. ASSUME NEW u \in Good, NEW x \in K PROVE Append(u, x) \in Good
  <2>1. ToSet(Append(u, x)) = ToSet(u) \cup {x}
    BY SetOfAppend
  <2>2. /\ Without(Append(u, x), gone)
             = IF x \in gone THEN Without(u, gone) ELSE Append(Without(u, gone), x)
        /\ Without(Append(u, x), other)
             = IF x \in other THEN Without(u, other) ELSE Append(Without(u, other), x)
    BY WithoutAppend
  <2>3. ASSUME (ToSet(u) \cup {x}) \ gone = (ToSet(u) \cup {x}) \ other
        PROVE  ToSet(u) \ gone = ToSet(u) \ other /\ (x \in gone <=> x \in other)
    <3>1. x \in gone <=> x \in other
      BY <2>3
    <3>2. \A y \in ToSet(u) : y \in gone <=> y \in other
      BY <2>3
    <3>3. QED
      BY <3>1, <3>2
  <2>4. QED
    BY <2>1, <2>2, <2>3, AppendProperties
<1>3. Good = Seq(K)
  <2>1. Good \in SUBSET Seq(K)
    OBVIOUS
  <2> HIDE DEF Good
  <2>2. QED
    BY <1>1, <1>2, <2>1, AppendInduction
<1>4. QED
  BY <1>3

LEMMA WithoutNothing ==
  ASSUME NEW K, NEW s \in Seq(K)
  PROVE  Without(s, {}) = s
<1> DEFINE Good == {u \in Seq(K) : Without(u, {}) = u}
<1>1. <<>> \in Good
  BY WithoutEmpty, EmptySeq
<1>2. ASSUME NEW u \in Good, NEW x \in K PROVE Append(u, x) \in Good
  <2>1. Without(Append(u, x), {}) = Append(Without(u, {}), x)
    BY WithoutAppend
  <2>2. QED
    BY <2>1, AppendProperties
<1>3. Good = Seq(K)
  <2>1. Good \in SUBSET Seq(K)
    OBVIOUS
  <2> HIDE DEF Good
  <2>2. QED
    BY <1>1, <1>2, <2>1, AppendInduction
<1>4. QED
  BY <1>3

LEMMA WithoutStrangers ==
  ASSUME NEW K, NEW gone, NEW s \in Seq(K), ToSet(s) \cap gone = {}
  PROVE  Without(s, gone) = s
  BY WithoutNothing, WithoutSame

LEMMA WithoutAll ==
  ASSUME NEW K, NEW gone, NEW s \in Seq(K), ToSet(s) \subseteq gone
  PROVE  Without(s, gone) = <<>>
<1>1. PICK w \in Seq(K) : w = Without(s, gone)
  BY WithoutFacts
<1>2. ToSet(w) = {}
  BY <1>1, WithoutFacts
<1>3. Len(w) \in Nat /\ DOMAIN w = 1..Len(w)
  BY LenProperties
<1>4. Len(w) = 0
  <2>1. \A i \in 1..Len(w) : w[i] \in ToSet(w)
    BY <1>3 DEF ToSet
  <2>2. QED
    BY <1>2, <1>3, <2>1
<1>5. QED
  BY <1>1, <1>4

(* What taking one element out does to the length, and to the front.       *)
LEMMA WithoutOne ==
  ASSUME NEW K, NEW key, NEW s \in Seq(K), IsInjective(s)
  PROVE  Len(Without(s, {key})) = IF key \in ToSet(s) THEN Len(s) - 1 ELSE Len(s)
<1> DEFINE Good == {u \in Seq(K) : IsInjective(u) =>
                      Len(Without(u, {key})) = IF key \in ToSet(u) THEN Len(u) - 1 ELSE Len(u)}
<1>1. <<>> \in Good
  BY WithoutEmpty, EmptySeq, SetOfEmpty
<1>2. ASSUME NEW u \in Good, NEW x \in K PROVE Append(u, x) \in Good
  <2>1. PICK w \in Seq(K) : w = Without(u, {key})
    BY WithoutFacts
  <2>2. PICK a \in Seq(K) : a = Append(u, x)
    BY AppendProperties
  <2>3. /\ Len(a) = Len(u) + 1 /\ Len(u) \in Nat /\ Len(w) \in Nat
        /\ Len(Append(w, x)) = Len(w) + 1
        /\ ToSet(a) = ToSet(u) \cup {x}
        /\ IsInjective(a) <=> IsInjective(u) /\ x \notin ToSet(u)
    BY <2>2, AppendProperties, LenProperties, SetOfAppend, InjectiveAppend
  <2>4. Without(a, {key}) = IF x = key THEN w ELSE Append(w, x)
    <3>1. Without(Append(u, x), {key})
            = IF x \in {key} THEN Without(u, {key}) ELSE Append(Without(u, {key}), x)
      BY WithoutAppend
    <3>2. QED
      BY <2>1, <2>2, <3>1, Zenon
  <2>5. ASSUME IsInjective(a)
        PROVE  Len(Without(a, {key})) = IF key \in ToSet(a) THEN Len(a) - 1 ELSE Len(a)
    <3>1. Len(w) = IF key \in ToSet(u) THEN Len(u) - 1 ELSE Len(u)
      BY <2>1, <2>3, <2>5
    <3>2. CASE x = key
      BY <2>3, <2>4, <2>5, <3>1, <3>2
    <3>3. CASE x # key
      BY <2>3, <2>4, <2>5, <3>1, <3>3
    <3>4. QED
      BY <3>2, <3>3
  <2>6. QED
    BY <2>2, <2>5
<1>3. Good = Seq(K)
  <2>1. Good \in SUBSET Seq(K)
    OBVIOUS
  <2> HIDE DEF Good
  <2>2. QED
    BY <1>1, <1>2, <2>1, AppendInduction
<1>4. QED
  BY <1>3

(* The first that is not gone is the head.                                 *)
IsFirst(s, gone, n) == n \in DOMAIN s /\ s[n] \notin gone /\ \A j \in DOMAIN s : j < n => s[j] \in gone

HeadIs(s, gone, n) == /\ Without(s, gone) # <<>>
                      /\ Head(Without(s, gone)) = s[n]
                      /\ Tail(Without(s, gone)) = Without(s, gone \cup {s[n]})

LEMMA WithoutFirst ==
  ASSUME NEW K, NEW gone, NEW s \in Seq(K), IsInjective(s), NEW n, IsFirst(s, gone, n)
  PROVE  HeadIs(s, gone, n)
<1> DEFINE Good == {u \in Seq(K) :
                      IsInjective(u) => \A m : IsFirst(u, gone, m) => HeadIs(u, gone, m)}
<1>1. <<>> \in Good
  <2>1. <<>> \in Seq(K) /\ DOMAIN <<>> = {}
    BY EmptySeq
  <2>2. QED
    BY <2>1 DEF IsFirst
<1>2. ASSUME NEW u \in Good, NEW x \in K PROVE Append(u, x) \in Good
  <2>1. PICK w \in Seq(K) : w = Without(u, gone)
    BY WithoutFacts
  <2>2. PICK a \in Seq(K) : a = Append(u, x)
    BY AppendProperties
  <2>3. /\ u \in Seq(K) /\ DOMAIN u = 1..Len(u) /\ DOMAIN a = 1..(Len(u) + 1) /\ Len(u) \in Nat
        /\ \A i \in 1..Len(u) : a[i] = u[i]
        /\ a[Len(u) + 1] = x
        /\ IsInjective(a) <=> IsInjective(u) /\ x \notin ToSet(u)
    BY <2>2, AppendProperties, LenProperties, InjectiveAppend
  <2>4. \A A : Without(a, A) = IF x \in A THEN Without(u, A) ELSE Append(Without(u, A), x)
    BY <2>2, <2>3, WithoutAppend
  <2>5. ASSUME IsInjective(a), NEW m, IsFirst(a, gone, m) PROVE HeadIs(a, gone, m)
    <3>1. CASE m \in DOMAIN u
      <4>1. a[m] = u[m] /\ IsFirst(u, gone, m)
        <5>1. m \in 1..Len(u) /\ a[m] = u[m]
          BY <2>3, <3>1
        <5>2. a[m] \notin gone /\ \A j \in DOMAIN a : j < m => a[j] \in gone
          BY <2>5 DEF IsFirst
        <5>3. ASSUME NEW j \in DOMAIN u, j < m PROVE u[j] \in gone
          <6>1. j \in 1..Len(u) /\ j \in 1..(Len(u) + 1)
            BY <2>3, <5>3
          <6>2. a[j] \in gone /\ a[j] = u[j]
            BY <2>3, <5>2, <5>3, <6>1
          <6>3. QED
            BY <6>2
        <5>4. QED
          BY <3>1, <5>1, <5>2, <5>3 DEF IsFirst
      <4>2. HeadIs(u, gone, m)
        BY <2>3, <2>5, <4>1
      <4>3. PICK v \in Seq(K) : v = Without(u, gone \cup {u[m]})
        BY <2>3, WithoutFacts
      <4>4. w # <<>> /\ Head(w) = u[m] /\ Tail(w) = v
        BY <2>1, <4>2, <4>3 DEF HeadIs
      <4>5. x # u[m]
        BY <2>3, <2>5, <3>1 DEF ToSet
      <4>6. CASE x \in gone
        <5>1. Without(a, gone) = w /\ Without(a, gone \cup {a[m]}) = v
          BY <2>1, <2>4, <4>1, <4>3, <4>6
        <5>2. QED
          BY <4>1, <4>4, <5>1 DEF HeadIs
      <4>7. CASE x \notin gone
        <5>1. Without(a, gone) = Append(w, x) /\ Without(a, gone \cup {a[m]}) = Append(v, x)
          BY <2>1, <2>4, <4>1, <4>3, <4>5, <4>7
        <5>2. /\ Append(w, x) # <<>> /\ Head(Append(w, x)) = Head(w)
              /\ Tail(Append(w, x)) = Append(Tail(w), x)
          BY <4>4, AppendProperties, HeadTailAppend
        <5>3. QED
          BY <4>1, <4>4, <5>1, <5>2 DEF HeadIs
      <4>8. QED
        BY <4>6, <4>7
    <3>2. CASE m \notin DOMAIN u
      <4>1. m = Len(u) + 1 /\ a[m] = x /\ x \notin gone
        BY <2>3, <2>5, <3>2 DEF IsFirst
      <4>2. ToSet(u) \subseteq gone
        <5>1. ASSUME NEW i \in 1..Len(u) PROVE u[i] \in gone
          <6>1. i \in DOMAIN a /\ i < m /\ a[i] = u[i]
            BY <2>3, <4>1
          <6>2. QED
            BY <2>5, <6>1 DEF IsFirst
        <5>2. QED
          BY <2>3, <5>1 DEF ToSet
      <4>3. Without(u, gone) = <<>> /\ Without(u, gone \cup {x}) = <<>>
        <5>1. ToSet(u) \subseteq gone \cup {x}
          BY <4>2
        <5>2. QED
          BY <2>3, <4>2, <5>1, WithoutAll
      <4>4. Without(a, gone) = Append(<<>>, x) /\ Without(a, gone \cup {a[m]}) = <<>>
        BY <2>4, <4>1, <4>3
      <4>5. <<>> \in Seq(K)
        BY EmptySeq
      <4>6. /\ Append(<<>>, x) # <<>> /\ Head(Append(<<>>, x)) = x
            /\ Tail(Append(<<>>, x)) = <<>>
        BY <4>5, AppendProperties, HeadTailAppend
      <4>7. QED
        BY <4>1, <4>4, <4>6 DEF HeadIs
    <3>3. QED
      BY <3>1, <3>2
  <2>6. QED
    BY <2>2, <2>5
<1>3. Good = Seq(K)
  <2>1. Good \in SUBSET Seq(K)
    OBVIOUS
  <2> HIDE DEF Good
  <2>2. QED
    BY <1>1, <1>2, <2>1, AppendInduction
<1>4. QED
  BY <1>3

LEMMA TailOfConcat ==
  ASSUME NEW K, NEW s \in Seq(K), NEW t \in Seq(K)
  PROVE  /\ s # <<>> => Tail(s \o t) = Tail(s) \o t
         /\ s \o t # <<>> => Len(Tail(s \o t)) = Len(s \o t) - 1
<1>1. PICK r \in Seq(K) : r = s \o t
  BY ConcatProperties
<1>2. /\ Len(r) = Len(s) + Len(t) /\ Len(s) \in Nat /\ Len(t) \in Nat
      /\ \A i \in 1..(Len(s) + Len(t)) : r[i] = IF i <= Len(s) THEN s[i] ELSE t[i - Len(s)]
  BY <1>1, ConcatProperties, LenProperties
<1>3. ASSUME s # <<>> PROVE Tail(r) = Tail(s) \o t
  <2>1. PICK h \in Seq(K) : /\ h = Tail(s) /\ Len(h) = Len(s) - 1
                            /\ \A i \in 1..Len(h) : h[i] = s[i + 1]
    BY <1>3, HeadTailProperties
  <2>2. Len(s) > 0
    BY <1>2, <1>3, EmptySeq
  <2>3. r # <<>>
    BY <1>2, <2>2, EmptySeq
  <2>4. PICK q \in Seq(K) : /\ q = Tail(r) /\ Len(q) = Len(r) - 1
                            /\ \A i \in 1..Len(q) : q[i] = r[i + 1]
    BY <2>3, HeadTailProperties
  <2>5. PICK c \in Seq(K) :
          /\ c = h \o t /\ Len(c) = Len(h) + Len(t)
          /\ \A i \in 1..(Len(h) + Len(t)) : c[i] = IF i <= Len(h) THEN h[i] ELSE t[i - Len(h)]
    <3>1. PICK c : c = h \o t
      OBVIOUS
    <3>2. /\ c \in Seq(K) /\ Len(c) = Len(h) + Len(t)
          /\ \A i \in 1..(Len(h) + Len(t)) : c[i] = IF i <= Len(h) THEN h[i] ELSE t[i - Len(h)]
      BY <3>1, ConcatProperties
    <3>3. QED
      BY <3>1, <3>2
  <2>6. Len(q) = Len(c)
    BY <1>2, <2>1, <2>4, <2>5
  <2>7. ASSUME NEW i \in 1..Len(q) PROVE q[i] = c[i]
    <3>1. i \in Nat /\ i + 1 \in 1..(Len(s) + Len(t)) /\ i \in 1..(Len(h) + Len(t))
      BY <1>2, <2>1, <2>4, <2>5, <2>6
    <3>2. q[i] = IF i + 1 <= Len(s) THEN s[i + 1] ELSE t[i + 1 - Len(s)]
      BY <1>2, <2>4, <3>1
    <3>3. c[i] = IF i <= Len(h) THEN h[i] ELSE t[i - Len(h)]
      BY <2>5, <3>1
    <3>4. CASE i <= Len(h)
      <4>1. i + 1 <= Len(s) /\ i \in 1..Len(h)
        BY <1>2, <2>1, <3>1, <3>4
      <4>2. QED
        BY <2>1, <3>2, <3>3, <3>4, <4>1
    <3>5. CASE ~(i <= Len(h))
      <4>1. ~(i + 1 <= Len(s)) /\ i + 1 - Len(s) = i - Len(h)
        BY <1>2, <2>1, <3>1, <3>5
      <4>2. QED
        BY <3>2, <3>3, <3>5, <4>1, Zenon
    <3>6. QED
      BY <3>4, <3>5
  <2>8. q = c
    BY <2>6, <2>7, SeqEqual
  <2>9. QED
    BY <2>1, <2>4, <2>5, <2>8
<1>4. r # <<>> => Len(Tail(r)) = Len(r) - 1
  BY HeadTailProperties
<1>5. QED
  BY <1>1, <1>3, <1>4

LEMMA SetOfTail ==
  ASSUME NEW K, NEW s \in Seq(K), s # <<>>, IsInjective(s)
  PROVE  /\ Head(s) \in K /\ Tail(s) \in Seq(K) /\ IsInjective(Tail(s))
         /\ Head(s) \notin ToSet(Tail(s))
         /\ ToSet(s) = ToSet(Tail(s)) \cup {Head(s)}
<1>1. PICK t : t = Tail(s)
  OBVIOUS
<1>2. /\ Head(s) \in K /\ Head(s) = s[1] /\ t \in Seq(K)
      /\ Len(t) = Len(s) - 1 /\ Len(s) \in Nat \ {0}
      /\ \A i \in 1..Len(t) : t[i] = s[i + 1]
      /\ DOMAIN s = 1..Len(s) /\ DOMAIN t = 1..Len(t)
  <2>1. Head(s) = s[1]
    OBVIOUS
  <2>2. QED
    BY <1>1, <2>1, HeadTailProperties, LenProperties, EmptySeq
<1>3. \A i \in 1..Len(t) : i + 1 \in 1..Len(s) /\ i + 1 # 1
  BY <1>2
<1>4. IsInjective(t)
  <2>1. ASSUME NEW i \in 1..Len(t), NEW j \in 1..Len(t), t[i] = t[j] PROVE i = j
    <3>1. s[i + 1] = s[j + 1] /\ i + 1 \in DOMAIN s /\ j + 1 \in DOMAIN s
      BY <1>2, <1>3, <2>1
    <3>2. i + 1 = j + 1
      BY <3>1 DEF IsInjective
    <3>3. QED
      BY <3>2
  <2>2. QED
    BY <1>2, <2>1 DEF IsInjective
<1>5. s[1] \notin ToSet(t)
  <2>1. ASSUME NEW i \in 1..Len(t), t[i] = s[1] PROVE FALSE
    <3>1. s[i + 1] = s[1] /\ i + 1 \in DOMAIN s /\ 1 \in DOMAIN s
      BY <1>2, <1>3, <2>1
    <3>2. i + 1 = 1
      BY <3>1 DEF IsInjective
    <3>3. QED
      BY <3>2
  <2>2. QED
    BY <1>2, <2>1 DEF ToSet
<1>6. ToSet(s) \subseteq ToSet(t) \cup {s[1]}
  <2>1. ASSUME NEW i \in 1..Len(s), i # 1 PROVE s[i] \in ToSet(t)
    <3>1. i - 1 \in 1..Len(t) /\ (i - 1) + 1 = i
      BY <1>2, <2>1
    <3>2. t[i - 1] = s[(i - 1) + 1]
      BY <1>2, <3>1, Zenon
    <3>3. QED
      BY <1>2, <3>1, <3>2 DEF ToSet
  <2>2. QED
    BY <1>2, <2>1 DEF ToSet
<1>7. ToSet(t) \cup {s[1]} \subseteq ToSet(s)
  BY <1>2, <1>3 DEF ToSet
<1>8. QED
  BY <1>1, <1>2, <1>4, <1>5, <1>6, <1>7

LEMMA InjectiveConcat ==
  ASSUME NEW K, NEW s \in Seq(K), NEW t \in Seq(K), IsInjective(s), IsInjective(t),
         ToSet(s) \cap ToSet(t) = {}
  PROVE  IsInjective(s \o t)
<1> DEFINE Good == {u \in Seq(K) : IsInjective(u) /\ ToSet(s) \cap ToSet(u) = {}
                                     => IsInjective(s \o u)}
<1>1. <<>> \in Good
  BY EmptySeq, ConcatEmptySeq
<1>2. ASSUME NEW u \in Good, NEW x \in K PROVE Append(u, x) \in Good
  <2>1. PICK r \in Seq(K) : r = s \o u
    BY ConcatProperties
  <2>2. PICK a \in Seq(K) : a = Append(u, x)
    BY AppendProperties
  <2>3. s \o a = Append(r, x)
    BY <2>1, <2>2, ConcatAppend
  <2>4. ToSet(r) = ToSet(s) \cup ToSet(u) /\ ToSet(a) = ToSet(u) \cup {x}
    BY <2>1, <2>2, SetOfConcat, SetOfAppend
  <2>5. /\ IsInjective(Append(r, x)) <=> IsInjective(r) /\ x \notin ToSet(r)
        /\ IsInjective(a) <=> IsInjective(u) /\ x \notin ToSet(u)
    BY <2>2, InjectiveAppend
  <2>6. ASSUME IsInjective(a), ToSet(s) \cap ToSet(a) = {} PROVE IsInjective(s \o a)
    <3>1. IsInjective(r)
      BY <2>1, <2>4, <2>5, <2>6
    <3>2. x \notin ToSet(r)
      BY <2>4, <2>5, <2>6
    <3>3. QED
      BY <2>3, <2>5, <3>1, <3>2
  <2>7. QED
    BY <2>2, <2>6
<1>3. Good = Seq(K)
  <2>1. Good \in SUBSET Seq(K)
    OBVIOUS
  <2> HIDE DEF Good
  <2>2. QED
    BY <1>1, <1>2, <2>1, AppendInduction
<1>4. QED
  BY <1>3

-----------------------------------------------------------------------------
(* The simulated cache.  Gone is what the iterator skips: evicted, or      *)
(* moved to the tail.  Fits relates a simulation to the cache it stands    *)
(* for; the keys the iterator has passed are gone for good.                *)
Gone(s) == s.removed \cup ToSet(s.tail)

Fits(s, r) ==
  /\ s \in Shadows /\ IsInjective(s.data) /\ IsInjective(s.tail)
  /\ s.removed \cap ToSet(s.tail) = {}
  /\ \A i \in DOMAIN s.data : i < s.oldest => s.data[i] \in Gone(s)
  /\ r = Without(s.data, Gone(s)) \o s.tail
  /\ s.count = Len(r)

LEMMA RealCache ==
  ASSUME NEW s, NEW r, Fits(s, r)
  PROVE  /\ r \in Seq(RouteKeys) /\ IsInjective(r) /\ Len(r) \in Nat
         /\ ToSet(r) = (ToSet(s.data) \ Gone(s)) \cup ToSet(s.tail)
         /\ \A key : Holds(s, key) <=> key \in ToSet(r)
<1>1. PICK u : u = Without(s.data, Gone(s))
  OBVIOUS
<1>2. /\ s.data \in Seq(RouteKeys) /\ s.tail \in Seq(RouteKeys)
      /\ IsInjective(s.data) /\ IsInjective(s.tail)
  BY DEF Fits, Shadows
<1>3. u \in Seq(RouteKeys) /\ ToSet(u) = ToSet(s.data) \ Gone(s) /\ IsInjective(u)
  BY <1>1, <1>2, WithoutFacts
<1>4. r = u \o s.tail
  BY <1>1 DEF Fits
<1>5. r \in Seq(RouteKeys) /\ Len(r) \in Nat
  BY <1>2, <1>3, <1>4, ConcatProperties, LenProperties
<1>6. ToSet(u) \cap ToSet(s.tail) = {}
  BY <1>3 DEF Gone
<1>7. IsInjective(r) /\ ToSet(r) = ToSet(u) \cup ToSet(s.tail)
  BY <1>2, <1>3, <1>4, <1>6, InjectiveConcat, SetOfConcat
<1>8. ASSUME NEW key PROVE Holds(s, key) <=> key \in ToSet(r)
  BY <1>3, <1>7 DEF Holds, Untouched, Gone
<1>9. QED
  BY <1>3, <1>5, <1>7, <1>8

(* A key that is asked for or stored moves to the end of both.             *)
Moved(s, key) == [s EXCEPT !.count = @ + (IF Holds(s, key) THEN 0 ELSE 1),
                           !.tail = MoveToEnd(@, key),
                           !.removed = @ \ {key}]

LEMMA MovedFits ==
  ASSUME NEW s, NEW r, Fits(s, r), NEW key \in RouteKeys
  PROVE  /\ Fits(Moved(s, key), MoveToEnd(r, key))
         /\ Moved(s, key).tail # <<>> /\ Moved(s, key).capacity = s.capacity
<1> DEFINE K == RouteKeys
<1>1. /\ s \in Shadows /\ s.data \in Seq(K) /\ s.tail \in Seq(K) /\ s.removed \in SUBSET K
      /\ IsInjective(s.data) /\ IsInjective(s.tail) /\ s.removed \cap ToSet(s.tail) = {}
      /\ s.capacity \in Nat /\ s.oldest \in Nat \ {0} /\ s.count \in Nat
  BY DEF Fits, Shadows
<1>2. PICK u : u = Without(s.data, Gone(s))
  OBVIOUS
<1>3. PICK v : v = Without(s.tail, {key})
  OBVIOUS
<1>4. PICK tail : tail = Append(v, key)
  OBVIOUS
<1>5. /\ u \in Seq(K) /\ v \in Seq(K) /\ IsInjective(v) /\ ToSet(v) = ToSet(s.tail) \ {key}
  BY <1>1, <1>2, <1>3, WithoutFacts
<1>6. /\ tail \in Seq(K) /\ tail # <<>> /\ IsInjective(tail)
      /\ ToSet(tail) = ToSet(s.tail) \cup {key}
  <2>1. /\ tail \in Seq(K) /\ tail # <<>> /\ ToSet(tail) = ToSet(v) \cup {key}
        /\ IsInjective(tail) <=> IsInjective(v) /\ key \notin ToSet(v)
    BY <1>4, <1>5, AppendProperties, SetOfAppend, InjectiveAppend
  <2>2. QED
    BY <1>5, <2>1
<1>7. PICK n : n = s.count + (IF Holds(s, key) THEN 0 ELSE 1)
  OBVIOUS
<1>8. PICK m : m = Moved(s, key)
  OBVIOUS
<1>9. m = [s EXCEPT !.count = n, !.tail = tail, !.removed = s.removed \ {key}]
  BY <1>3, <1>4, <1>7, <1>8 DEF Moved, MoveToEnd
<1>10. n \in Nat
  BY <1>1, <1>7
<1>11. /\ m \in Shadows /\ m.data = s.data /\ m.tail = tail /\ m.removed = s.removed \ {key}
       /\ m.oldest = s.oldest /\ m.count = n /\ m.capacity = s.capacity
  BY <1>1, <1>6, <1>9, <1>10 DEF Shadows
<1>12. Gone(m) = Gone(s) \cup {key}
  BY <1>6, <1>11 DEF Gone
<1>13. /\ r \in Seq(K) /\ IsInjective(r) /\ Len(r) \in Nat /\ r = u \o s.tail
       /\ Holds(s, key) <=> key \in ToSet(r)
  BY <1>2, RealCache DEF Fits
<1>14. Without(r, {key}) = Without(s.data, Gone(m)) \o v
  <2>1. Without(r, {key}) = Without(u, {key}) \o v
    <3>1. PICK t : t = s.tail
      OBVIOUS
    <3>2. PICK taken : taken = {key}
      OBVIOUS
    <3>3. u \in Seq(RouteKeys) /\ t \in Seq(RouteKeys)
      BY <1>1, <1>5, <3>1
    <3>4. Without(u \o t, taken) = Without(u, taken) \o Without(t, taken)
      BY <3>3, WithoutConcat
    <3>5. QED
      BY <1>3, <1>13, <3>1, <3>2, <3>4
  <2>2. Without(u, {key}) = Without(s.data, Gone(s) \cup {key})
    BY <1>1, <1>2, WithoutTwice
  <2>3. QED
    BY <1>12, <2>1, <2>2
<1>15. PICK w \in Seq(K) : w = Without(s.data, Gone(m))
  BY <1>1, WithoutFacts
<1>16. MoveToEnd(r, key) = w \o tail
  <2>1. w \o Append(v, key) = Append(w \o v, key)
    BY <1>5, ConcatAppend
  <2>2. QED
    BY <1>4, <1>14, <1>15, <2>1 DEF MoveToEnd
<1>17. Len(MoveToEnd(r, key)) = n
  <2>1. PICK q \in Seq(K) : q = Without(r, {key})
    BY <1>13, WithoutFacts
  <2>2. Len(q) = IF key \in ToSet(r) THEN Len(r) - 1 ELSE Len(r)
    <3>1. Len(Without(r, {key})) = IF key \in ToSet(r) THEN Len(r) - 1 ELSE Len(r)
      BY <1>13, WithoutOne
    <3>2. QED
      BY <2>1, <3>1, Zenon
  <2>3. Len(Append(q, key)) = Len(q) + 1 /\ MoveToEnd(r, key) = Append(q, key)
    BY <2>1, AppendProperties DEF MoveToEnd
  <2>4. n = IF key \in ToSet(r) THEN Len(r) ELSE Len(r) + 1
    <3>1. s.count = Len(r)
      BY DEF Fits
    <3>2. CASE key \in ToSet(r)
      <4>1. n = s.count + 0
        BY <1>7, <1>13, <3>2
      <4>2. QED
        BY <1>13, <3>1, <3>2, <4>1
    <3>3. CASE key \notin ToSet(r)
      BY <1>7, <1>13, <3>1, <3>3
    <3>4. QED
      BY <3>2, <3>3
  <2>5. QED
    BY <1>13, <2>2, <2>3, <2>4
<1>18. \A i \in DOMAIN m.data : i < m.oldest => m.data[i] \in Gone(m)
  BY <1>11, <1>12 DEF Fits
<1>19. m.removed \cap ToSet(m.tail) = {}
  BY <1>1, <1>6, <1>11
<1>20. Fits(m, MoveToEnd(r, key))
  BY <1>1, <1>6, <1>11, <1>15, <1>16, <1>17, <1>18, <1>19 DEF Fits
<1>21. QED
  BY <1>6, <1>8, <1>11, <1>20

(* The victim of the simulation is the oldest key of the cache.            *)
LEMMA EvictFits ==
  ASSUME NEW s, NEW r, Fits(s, r), s.tail # <<>>
  PROVE  Fits(ShadowEvict(s), Tail(r)) /\ ShadowEvict(s).capacity = s.capacity
<1> DEFINE K == RouteKeys
           left == {i \in s.oldest..Len(s.data) : s.data[i] \notin s.removed \cup ToSet(s.tail)}
<1>1. /\ s \in Shadows /\ s.data \in Seq(K) /\ s.tail \in Seq(K) /\ s.removed \in SUBSET K
      /\ IsInjective(s.data) /\ IsInjective(s.tail) /\ s.removed \cap ToSet(s.tail) = {}
      /\ s.capacity \in Nat /\ s.oldest \in Nat \ {0} /\ s.count \in Nat /\ s.count = Len(r)
      /\ Len(s.data) \in Nat /\ DOMAIN s.data = 1..Len(s.data)
      /\ \A i \in DOMAIN s.data : i < s.oldest => s.data[i] \in Gone(s)
  BY LenProperties DEF Fits, Shadows
<1>2. PICK u : u = Without(s.data, Gone(s))
  OBVIOUS
<1>3. /\ r = u \o s.tail /\ u \in Seq(K) /\ r \in Seq(K) /\ r # <<>>
      /\ Len(Tail(r)) = Len(r) - 1 /\ Len(r) \in Nat /\ Len(r) # 0
  <2>1. r = u \o s.tail /\ u \in Seq(K) /\ r \in Seq(K) /\ Len(r) \in Nat
    BY <1>1, <1>2, WithoutFacts, RealCache DEF Fits
  <2>2. r # <<>>
    BY <1>1, <2>1, ConcatEqualIffEmpty
  <2>3. QED
    BY <2>1, <2>2, HeadTailProperties, EmptySeq
<1>4. CASE left # {}
  <2>1. PICK next : next = CHOOSE i \in left : \A j \in left : i <= j
    OBVIOUS
  <2>2. next \in left /\ \A j \in left : next <= j
    <3>1. left \in SUBSET Nat
      BY <1>1
    <3>2. PICK i \in left : \A j \in left : ~(j < i)
      BY <1>4, <3>1, LeastElement
    <3>3. \A j \in left : i <= j
      <4> HIDE DEF left
      <4>1. QED
        BY <3>1, <3>2
    <3>4. QED
      BY <2>1, <3>2, <3>3
  <2>3. PICK victim : victim = s.data[next]
    OBVIOUS
  <2>4. /\ next \in DOMAIN s.data /\ victim \in K /\ victim \in ToSet(s.data)
        /\ victim \notin Gone(s) /\ next \in Nat
    BY <1>1, <2>2, <2>3, ElementOfSeq DEF Gone, ToSet
  <2>5. IsFirst(s.data, Gone(s), next)
    <3>1. ASSUME NEW j \in DOMAIN s.data, j < next, s.data[j] \notin Gone(s) PROVE FALSE
      <4>1. ~(j < s.oldest)
        BY <1>1, <3>1
      <4>2. j \in left
        BY <1>1, <3>1, <4>1 DEF Gone
      <4>3. QED
        BY <1>1, <2>2, <2>4, <3>1, <4>2
    <3>2. QED
      BY <2>3, <2>4, <3>1 DEF IsFirst
  <2>6. u # <<>> /\ Tail(u) = Without(s.data, Gone(s) \cup {victim})
    <3>1. HeadIs(s.data, Gone(s), next)
      BY <1>1, <2>5, WithoutFirst
    <3>2. QED
      BY <1>2, <2>3, <3>1 DEF HeadIs
  <2>7. PICK e : e = ShadowEvict(s)
    OBVIOUS
  <2>8. e = [s EXCEPT !.removed = s.removed \cup {victim}, !.oldest = next + 1,
                      !.count = s.count - 1]
    BY <1>4, <2>1, <2>3, <2>7 DEF ShadowEvict
  <2>9. /\ e \in Shadows /\ e.data = s.data /\ e.tail = s.tail
        /\ e.removed = s.removed \cup {victim} /\ e.oldest = next + 1
        /\ e.count = s.count - 1 /\ e.capacity = s.capacity
    <3>1. next + 1 \in Nat \ {0} /\ s.count - 1 \in Nat /\ s.removed \cup {victim} \in SUBSET K
      BY <1>1, <1>3, <2>4
    <3>2. QED
      BY <1>1, <2>8, <3>1 DEF Shadows
  <2>10. Gone(e) = Gone(s) \cup {victim}
    BY <2>9 DEF Gone
  <2>11. Tail(r) = Without(e.data, Gone(e)) \o e.tail
    <3>1. Tail(u \o s.tail) = Tail(u) \o s.tail
      BY <1>1, <1>3, <2>6, TailOfConcat
    <3>2. QED
      BY <1>3, <2>6, <2>9, <2>10, <3>1
  <2>12. ASSUME NEW i \in DOMAIN e.data, i < e.oldest PROVE e.data[i] \in Gone(e)
    <3>1. i \in DOMAIN s.data /\ i \in Nat /\ (i < next \/ i = next)
      BY <1>1, <2>4, <2>9, <2>12
    <3>2. QED
      BY <2>3, <2>5, <2>9, <2>10, <3>1 DEF IsFirst
  <2>13. e.removed \cap ToSet(e.tail) = {}
    BY <1>1, <2>4, <2>9 DEF Gone
  <2>14. QED
    BY <1>1, <1>3, <2>7, <2>9, <2>11, <2>12, <2>13 DEF Fits
<1>5. CASE left = {}
  <2>1. ToSet(s.data) \subseteq Gone(s)
    <3>1. ASSUME NEW i \in DOMAIN s.data PROVE s.data[i] \in Gone(s)
      <4>1. CASE i < s.oldest
        BY <1>1, <4>1
      <4>2. CASE ~(i < s.oldest)
        <5>1. i \in s.oldest..Len(s.data)
          BY <1>1, <4>2
        <5>2. QED
          BY <1>5, <5>1 DEF Gone
      <4>3. QED
        BY <4>1, <4>2
    <3>2. QED
      BY <3>1 DEF ToSet
  <2>2. u = <<>>
    BY <1>1, <1>2, <2>1, WithoutAll
  <2>3. r = s.tail
    BY <1>1, <1>3, <2>2, ConcatEmptySeq
  <2>4. PICK victim : victim = Head(s.tail)
    OBVIOUS
  <2>5. PICK rest : rest = Tail(s.tail)
    OBVIOUS
  <2>6. /\ victim \in K /\ rest \in Seq(K) /\ IsInjective(rest) /\ victim \notin ToSet(rest)
        /\ ToSet(s.tail) = ToSet(rest) \cup {victim}
    BY <1>1, <2>4, <2>5, SetOfTail
  <2>7. PICK e : e = ShadowEvict(s)
    OBVIOUS
  <2>8. e = [s EXCEPT !.removed = s.removed \cup {victim}, !.tail = rest,
                      !.oldest = Len(s.data) + 1, !.count = s.count - 1]
    BY <1>5, <2>4, <2>5, <2>7 DEF ShadowEvict
  <2>9. /\ e \in Shadows /\ e.data = s.data /\ e.tail = rest
        /\ e.removed = s.removed \cup {victim}
        /\ e.count = s.count - 1 /\ e.capacity = s.capacity
    <3>1. /\ Len(s.data) + 1 \in Nat \ {0} /\ s.count - 1 \in Nat
          /\ s.removed \cup {victim} \in SUBSET K
      BY <1>1, <1>3, <2>6
    <3>2. QED
      BY <1>1, <2>6, <2>8, <3>1 DEF Shadows
  <2>10. Gone(e) = Gone(s)
    BY <2>6, <2>9 DEF Gone
  <2>11. Tail(r) = Without(e.data, Gone(e)) \o e.tail
    <3>1. Without(e.data, Gone(e)) = <<>>
      BY <1>2, <2>2, <2>9, <2>10
    <3>2. <<>> \o rest = rest
      BY <2>6, ConcatEmptySeq
    <3>3. QED
      BY <2>3, <2>5, <2>9, <3>1, <3>2
  <2>12. \A i \in DOMAIN e.data : i < e.oldest => e.data[i] \in Gone(e)
    BY <2>1, <2>9, <2>10 DEF ToSet
  <2>13. e.removed \cap ToSet(e.tail) = {}
    BY <1>1, <2>6, <2>9
  <2>14. QED
    BY <1>1, <1>3, <2>6, <2>7, <2>9, <2>11, <2>12, <2>13 DEF Fits
<1>6. QED
  BY <1>4, <1>5

-----------------------------------------------------------------------------
LEMMA ShadowOfFits ==
  ASSUME NEW data \in Seq(RouteKeys), IsInjective(data), NEW capacity \in Nat
  PROVE  Fits(Shadow(data, capacity), data) /\ Shadow(data, capacity).capacity = capacity
<1>1. <<>> \in Seq(RouteKeys) /\ IsInjective(<<>>)
  BY EmptySeq DEF IsInjective
<1>2. PICK s : s = Shadow(data, capacity)
  OBVIOUS
<1>3. /\ s.data = data /\ s.tail = <<>> /\ s.removed = {} /\ s.oldest = 1
      /\ s.count = Len(data) /\ s.capacity = capacity /\ s \in Shadows
  BY <1>1, <1>2, LenProperties DEF Shadow, Shadows
<1>4. Gone(s) = {}
  BY <1>3, SetOfEmpty DEF Gone
<1>5. data = Without(s.data, Gone(s)) \o s.tail
  BY <1>3, <1>4, WithoutNothing, ConcatEmptySeq
<1>6. \A i \in DOMAIN s.data : ~(i < s.oldest)
  <2>1. DOMAIN data = 1..Len(data)
    BY LenProperties
  <2>2. QED
    BY <1>3, <2>1
<1>7. Fits(s, data)
  BY <1>1, <1>3, <1>5, <1>6, SetOfEmpty DEF Fits
<1>8. QED
  BY <1>2, <1>3, <1>7

ShadowFits == Fits(shadow, real)

LEMMA ShadowBegins == ShadowInit => ShadowFits
<1> SUFFICES ASSUME ShadowInit PROVE ShadowFits
  OBVIOUS
<1>1. PICK capacity \in 0..MaxCapacity, data \in SeqOf(RouteKeys, MaxCapacity) :
        /\ IsInjective(data) /\ Len(data) <= capacity
        /\ shadow = Shadow(data, capacity) /\ real = data
  BY DEF ShadowInit
<1>2. data \in Seq(RouteKeys) /\ capacity \in Nat
  <2>1. PICK m \in 0..MaxCapacity : data \in [1..m -> RouteKeys]
    BY <1>1 DEF SeqOf
  <2>2. m \in Nat /\ capacity \in Nat
    BY <1>1, <2>1, ShadowAssumption
  <2>3. QED
    BY <2>1, <2>2
<1>3. QED
  BY <1>1, <1>2, ShadowOfFits DEF ShadowFits

(* What is asked for and what is stored does the same to both.             *)
LEMMA LookedFits ==
  ASSUME NEW s, NEW r, Fits(s, r), NEW key \in RouteKeys
  PROVE  Fits(ShadowGet(s, key), Touch(r, key)) /\ ShadowGet(s, key).capacity = s.capacity
<1>1. Holds(s, key) <=> key \in ToSet(r)
  BY RealCache
<1>2. CASE Holds(s, key)
  <2>1. /\ ShadowGet(s, key) = [s EXCEPT !.tail = MoveToEnd(s.tail, key)]
        /\ Touch(r, key) = MoveToEnd(r, key)
    BY <1>1, <1>2 DEF ShadowGet, Touch
  <2>2. key \notin s.removed /\ s \in Shadows
    BY <1>2 DEF Fits, Holds, Untouched
  <2>3. Moved(s, key) = [s EXCEPT !.count = s.count + 0,
                                  !.tail = MoveToEnd(s.tail, key),
                                  !.removed = s.removed \ {key}]
    BY <1>2 DEF Moved
  <2>4. s.count + 0 = s.count /\ s.removed \ {key} = s.removed
    BY <2>2 DEF Shadows
  <2>5. Moved(s, key) = [s EXCEPT !.tail = MoveToEnd(s.tail, key)]
    BY <2>2, <2>3, <2>4 DEF Shadows
  <2>6. QED
    BY <2>1, <2>5, MovedFits
<1>3. CASE ~Holds(s, key)
  BY <1>1, <1>3 DEF ShadowGet, Touch
<1>4. QED
  BY <1>2, <1>3

LEMMA FilledFits ==
  ASSUME NEW s, NEW r, Fits(s, r), NEW key \in RouteKeys
  PROVE  /\ Fits(ShadowPut(s, key), KeepLast(r, s.capacity, key))
         /\ ShadowPut(s, key).capacity = s.capacity
<1>1. PICK put : put = Moved(s, key)
  OBVIOUS
<1>2. PICK moved : moved = MoveToEnd(r, key)
  OBVIOUS
<1>3. Fits(put, moved) /\ put.tail # <<>> /\ put.capacity = s.capacity
  BY <1>1, <1>2, MovedFits
<1>4. /\ ShadowPut(s, key) = IF s.capacity = 0 THEN s
                              ELSE IF put.count > s.capacity THEN ShadowEvict(put) ELSE put
      /\ KeepLast(r, s.capacity, key) = IF s.capacity = 0 THEN r
                                        ELSE IF Len(moved) > s.capacity THEN Tail(moved)
                                        ELSE moved
  BY <1>1, <1>2 DEF ShadowPut, KeepLast, Evict, Moved
<1>5. put.count = Len(moved)
  BY <1>3 DEF Fits
<1>6. QED
  BY <1>3, <1>4, <1>5, EvictFits

LEMMA ShadowStep == ShadowFits /\ [ShadowNext]_<<shadow, real>> => ShadowFits'
<1> SUFFICES ASSUME ShadowFits, [ShadowNext]_<<shadow, real>> PROVE ShadowFits'
  OBVIOUS
<1>1. ASSUME NEW key \in RouteKeys, Looked(key) PROVE ShadowFits'
  <2>1. Fits(shadow', real')
    BY <1>1, LookedFits DEF ShadowFits, Looked
  <2>2. QED
    BY <2>1 DEF ShadowFits, Fits, Gone
<1>2. ASSUME NEW key \in RouteKeys, Filled(key) PROVE ShadowFits'
  <2>1. Fits(shadow', real')
    BY <1>2, FilledFits DEF ShadowFits, Filled
  <2>2. QED
    BY <2>1 DEF ShadowFits, Fits, Gone
<1>3. CASE UNCHANGED <<shadow, real>>
  BY <1>3 DEF ShadowFits, Fits, Gone
<1>4. QED
  BY <1>1, <1>2, <1>3 DEF ShadowNext

(* Whatever is asked and stored, for any keys and capacity, the simulated  *)
(* cache holds what the real one holds, in its order.                      *)
THEOREM ShadowSimulates == ShadowSpec => []Simulates
<1>1. ShadowFits => Simulates
  BY DEF ShadowFits, Fits, Gone, Simulates
<1>2. QED
  BY <1>1, ShadowBegins, ShadowStep, PTL DEF ShadowSpec

-----------------------------------------------------------------------------
(* The cache of simulator v3.  Its entries are in the order in which their *)
(* cells were asked for last, and what was asked for and is not held was   *)
(* asked for before whatever is.                                           *)
Later(c, d) ==
  \A t \in DOMAIN asked : Cell[asked[t]] = c =>
    \E u \in DOMAIN asked : t < u /\ Cell[asked[u]] = d

EntriesFit ==
  \A i \in DOMAIN cells : /\ Cell[cells[i].position] = cells[i].cell
                          /\ \E t \in DOMAIN asked : asked[t] = cells[i].position

InOrder == \A i, j \in DOMAIN cells : i < j => Later(cells[i].cell, cells[j].cell)

Held(c) == \E i \in DOMAIN cells : cells[i].cell = c

Forgotten ==
  \A t \in DOMAIN asked : ~Held(Cell[asked[t]]) =>
    Len(cells) = Capacity /\ \A i \in DOMAIN cells : Later(Cell[asked[t]], cells[i].cell)

CellsInv == CellsTypeOK /\ EntriesFit /\ InOrder /\ Forgotten /\ AnswersTheCell

(* One more question: every cell but its own was asked for before it.      *)
LEMMA AskedMore ==
  ASSUME CellsTypeOK, NEW p \in Positions, asked' = Append(asked, p)
  PROVE  /\ asked' \in Seq(Positions) /\ Last(asked') = p /\ Len(asked') = Len(asked) + 1
         /\ \A t \in DOMAIN asked : t \in DOMAIN asked' /\ asked'[t] = asked[t]
         /\ \A t \in DOMAIN asked' : t \in DOMAIN asked \/ asked'[t] = p
         /\ \A c, d : c # Cell[p] /\ (Later(c, d) \/ d = Cell[p]) => Later(c, d)'
<1>1. /\ asked \in Seq(Positions) /\ Len(asked) \in Nat /\ DOMAIN asked = 1..Len(asked)
      /\ asked' \in Seq(Positions) /\ Len(asked') = Len(asked) + 1
      /\ DOMAIN asked' = 1..(Len(asked) + 1)
      /\ \A t \in 1..Len(asked) : asked'[t] = asked[t]
      /\ asked'[Len(asked) + 1] = p
  BY AppendProperties, LenProperties DEF CellsTypeOK
<1>2. Last(asked') = p
  BY <1>1 DEF Last
<1>3. \A t \in DOMAIN asked : t \in DOMAIN asked' /\ asked'[t] = asked[t]
  BY <1>1
<1>4. \A t \in DOMAIN asked' : t \in DOMAIN asked \/ (t = Len(asked) + 1 /\ asked'[t] = p)
  BY <1>1
<1>5. ASSUME NEW c, NEW d, c # Cell[p], Later(c, d) \/ d = Cell[p] PROVE Later(c, d)'
  <2>1. SUFFICES ASSUME NEW t \in DOMAIN asked', Cell[asked'[t]] = c
                 PROVE  \E u \in DOMAIN asked' : t < u /\ Cell[asked'[u]] = d
    BY DEF Later
  <2>2. t \in DOMAIN asked /\ asked'[t] = asked[t]
    BY <1>3, <1>4, <1>5, <2>1
  <2>3. CASE d = Cell[p]
    <3>1. Len(asked) + 1 \in DOMAIN asked' /\ t < Len(asked) + 1
      BY <1>1, <2>2
    <3>2. QED
      BY <1>1, <2>3, <3>1
  <2>4. CASE Later(c, d)
    <3>1. PICK u \in DOMAIN asked : t < u /\ Cell[asked[u]] = d
      BY <2>1, <2>2, <2>4 DEF Later
    <3>2. QED
      BY <1>3, <3>1
  <2>5. QED
    BY <1>5, <2>3, <2>4
<1>6. QED
  BY <1>1, <1>2, <1>3, <1>4, <1>5

(* An entry moves to the end: where each of the others comes from.         *)
MovesTo(s, i, moved, from) ==
  /\ \A j \in DOMAIN s : moved[j] = s[from[j]]
  /\ \A j, k \in DOMAIN s : from[j] = from[k] => j = k
  /\ from[Len(s)] = i
  /\ \A j, k \in DOMAIN s : j < k => from[j] < from[k] \/ k = Len(s)
  /\ \A j \in DOMAIN s : \E k \in DOMAIN s : from[k] = j

IsMoved(K, s, i, moved) ==
  /\ moved \in Seq(K) /\ Len(moved) = Len(s) /\ DOMAIN moved = DOMAIN s
  /\ \E from \in [DOMAIN s -> DOMAIN s] : MovesTo(s, i, moved, from)

LEMMA MovedEntries ==
  ASSUME NEW K, NEW s \in Seq(K), NEW i \in DOMAIN s
  PROVE  IsMoved(K, s, i, Append(RemoveAt(s, i), s[i]))
<1>21. PICK moved : moved = Append(RemoveAt(s, i), s[i])
  OBVIOUS
<1>1. Len(s) \in Nat /\ DOMAIN s = 1..Len(s) /\ i \in 1..Len(s) /\ i \in Nat
      /\ \A j \in 1..Len(s) : s[j] \in K
  BY LenProperties, ElementOfSeq
<1>2. PICK n : n = Len(s)
  OBVIOUS
<1>3. PICK left : left = SubSeq(s, 1, i - 1)
  OBVIOUS
<1>4. PICK right : right = SubSeq(s, i + 1, n)
  OBVIOUS
<1>5. /\ left \in Seq(K) /\ Len(left) = i - 1
      /\ \A j \in 1..(i - 1) : left[j] = s[j]
  <2>1. /\ SubSeq(s, 1, i - 1) \in Seq(K)
        /\ Len(SubSeq(s, 1, i - 1)) = IF 1 <= i - 1 THEN i - 1 - 1 + 1 ELSE 0
        /\ \A j \in 1..(i - 1 - 1 + 1) : SubSeq(s, 1, i - 1)[j] = s[1 + j - 1]
    <3>1. i - 1 \in Int /\ 1 \in Int /\ \A j \in 1..(i - 1) : s[j] \in K
      BY <1>1
    <3>2. QED
      BY <3>1, SubSeqProperties
  <2>2. Len(left) = i - 1
    BY <1>1, <1>3, <2>1
  <2>3. ASSUME NEW j \in 1..(i - 1) PROVE left[j] = s[j]
    <3>1. 1 + j - 1 = j /\ i - 1 - 1 + 1 = i - 1
      BY <1>1
    <3>2. SubSeq(s, 1, i - 1)[j] = s[1 + j - 1]
      BY <2>1, <3>1
    <3>3. QED
      BY <1>3, <3>1, <3>2
  <2>4. QED
    BY <1>3, <2>1, <2>2, <2>3
<1>6. /\ right \in Seq(K) /\ Len(right) = n - i
      /\ \A j \in 1..(n - i) : right[j] = s[i + j]
  <2>1. /\ SubSeq(s, i + 1, n) \in Seq(K)
        /\ Len(SubSeq(s, i + 1, n)) = IF i + 1 <= n THEN n - (i + 1) + 1 ELSE 0
        /\ \A j \in 1..(n - (i + 1) + 1) : SubSeq(s, i + 1, n)[j] = s[i + 1 + j - 1]
    <3>1. i + 1 \in Int /\ n \in Int /\ \A j \in (i + 1)..n : s[j] \in K
      BY <1>1, <1>2
    <3>2. QED
      BY <3>1, SubSeqProperties
  <2>2. Len(right) = n - i
    BY <1>1, <1>2, <1>4, <2>1
  <2>3. ASSUME NEW j \in 1..(n - i) PROVE right[j] = s[i + j]
    <3>1. i + 1 + j - 1 = i + j /\ n - (i + 1) + 1 = n - i
      BY <1>1, <1>2
    <3>2. SubSeq(s, i + 1, n)[j] = s[i + 1 + j - 1]
      BY <2>1, <3>1
    <3>3. QED
      BY <1>4, <3>1, <3>2
  <2>4. QED
    BY <1>4, <2>1, <2>2, <2>3
<1>7. PICK rest : rest = left \o right
  OBVIOUS
<1>8. /\ rest \in Seq(K) /\ Len(rest) = n - 1
      /\ \A j \in 1..(n - 1) : rest[j] = IF j <= i - 1 THEN left[j] ELSE right[j - (i - 1)]
  <2>1. /\ rest \in Seq(K) /\ Len(rest) = Len(left) + Len(right)
        /\ \A j \in 1..(Len(left) + Len(right)) :
             rest[j] = IF j <= Len(left) THEN left[j] ELSE right[j - Len(left)]
    BY <1>5, <1>6, <1>7, ConcatProperties
  <2>2. Len(left) + Len(right) = n - 1
    BY <1>1, <1>2, <1>5, <1>6
  <2>3. QED
    BY <1>5, <2>1, <2>2
<1>9. moved = Append(rest, s[i])
  BY <1>21, <1>2, <1>3, <1>4, <1>7 DEF RemoveAt
<1>10. /\ moved \in Seq(K) /\ Len(moved) = n /\ DOMAIN moved = 1..n
       /\ \A j \in 1..(n - 1) : moved[j] = rest[j]
       /\ moved[n] = s[i]
  <2>1. /\ moved \in Seq(K) /\ Len(moved) = Len(rest) + 1
        /\ \A j \in 1..Len(rest) : moved[j] = rest[j]
        /\ moved[Len(rest) + 1] = s[i]
    BY <1>1, <1>8, <1>9, AppendProperties
  <2>2. Len(rest) + 1 = n
    BY <1>1, <1>2, <1>8
  <2>3. QED
    BY <1>8, <2>1, <2>2, LenProperties
<1> DEFINE from == [j \in 1..n |-> IF j < i THEN j ELSE IF j < n THEN j + 1 ELSE i]
<1>11. from \in [1..n -> 1..n]
  BY <1>1, <1>2
<1>12. ASSUME NEW j \in 1..n PROVE moved[j] = s[from[j]]
  <2>1. CASE j < i
    <3>1. j \in 1..(n - 1) /\ j <= i - 1 /\ j \in 1..(i - 1) /\ from[j] = j
      BY <1>1, <1>2, <2>1
    <3>2. QED
      BY <1>5, <1>8, <1>10, <3>1
  <2>2. CASE ~(j < i) /\ j < n
    <3>1. j \in 1..(n - 1) /\ ~(j <= i - 1) /\ j - (i - 1) \in 1..(n - i) /\ from[j] = j + 1
          /\ i + (j - (i - 1)) = j + 1
      <4>1. from[j] = j + 1
        BY <2>2
      <4>2. j \in Nat /\ n \in Nat /\ j >= i /\ j < n
        BY <1>1, <1>2, <2>2
      <4> HIDE DEF from
      <4>3. j \in 1..(n - 1) /\ ~(j <= i - 1)
        BY <1>1, <4>2
      <4>4. j - (i - 1) \in 1..(n - i) /\ i + (j - (i - 1)) = j + 1
        BY <1>1, <4>2
      <4>5. QED
        BY <4>1, <4>3, <4>4
    <3>2. moved[j] = right[j - (i - 1)]
      BY <1>8, <1>10, <3>1
    <3>3. right[j - (i - 1)] = s[i + (j - (i - 1))]
      BY <1>6, <3>1
    <3>4. QED
      BY <3>1, <3>2, <3>3
  <2>3. CASE ~(j < n)
    <3>1. j = n /\ from[j] = i
      <4>1. j = n /\ ~(j < i)
        <5>1. j \in Nat /\ n \in Nat /\ j <= n /\ i <= n
          BY <1>1, <1>2
        <5>2. j = n
          BY <2>3, <5>1
        <5>3. QED
          BY <1>1, <5>1, <5>2
      <4>2. QED
        BY <2>3, <4>1
    <3>2. QED
      BY <1>10, <3>1
  <2>4. QED
    BY <2>1, <2>2, <2>3
<1>13. ASSUME NEW j \in 1..n, NEW k \in 1..n
       PROVE  /\ from[j] = from[k] => j = k
              /\ j < k => from[j] < from[k] \/ k = n
  <2>1. /\ i \in Nat /\ j \in Nat /\ k \in Nat /\ n \in Nat /\ j <= n /\ k <= n /\ i <= n
        /\ from[j] = IF j < i THEN j ELSE IF j < n THEN j + 1 ELSE i
        /\ from[k] = IF k < i THEN k ELSE IF k < n THEN k + 1 ELSE i
    BY <1>1, <1>2
  <2> HIDE DEF from
  <2>2. PICK a : a = from[j]
    OBVIOUS
  <2>3. PICK b : b = from[k]
    OBVIOUS
  <2>4. /\ (j < i /\ a = j) \/ (i <= j /\ j < n /\ a = j + 1) \/ (j = n /\ a = i)
        /\ (k < i /\ b = k) \/ (i <= k /\ k < n /\ b = k + 1) \/ (k = n /\ b = i)
    <3>1. a = IF j < i THEN j ELSE IF j < n THEN j + 1 ELSE i
      BY <2>1, <2>2
    <3>2. b = IF k < i THEN k ELSE IF k < n THEN k + 1 ELSE i
      BY <2>1, <2>3
    <3>3. (j < i \/ i <= j) /\ (j < n \/ j = n) /\ (k < i \/ i <= k) /\ (k < n \/ k = n)
      BY <2>1
    <3>4. (j < i /\ a = j) \/ (i <= j /\ j < n /\ a = j + 1) \/ (j = n /\ a = i)
      BY <2>1, <3>1, <3>3
    <3>5. (k < i /\ b = k) \/ (i <= k /\ k < n /\ b = k + 1) \/ (k = n /\ b = i)
      BY <2>1, <3>2, <3>3
    <3>6. QED
      BY <3>4, <3>5
  <2>5. a = b => j = k
    BY <2>1, <2>4
  <2>6. j < k => a < b \/ k = n
    BY <2>1, <2>4
  <2>7. QED
    BY <2>2, <2>3, <2>5, <2>6
<1>14. ASSUME NEW j \in 1..n PROVE \E k \in 1..n : from[k] = j
  <2>1. CASE j < i
    <3>1. from[j] = j
      BY <2>1
    <3>2. QED
      BY <3>1
  <2>2. CASE j = i
    <3>1. n \in 1..n /\ from[n] = i
      BY <1>1, <1>2
    <3>2. QED
      BY <2>2, <3>1
  <2>3. CASE j > i
    <3>1. j - 1 \in 1..n /\ from[j - 1] = j
      BY <1>1, <1>2, <2>3
    <3>2. QED
      BY <3>1
  <2>4. QED
    BY <1>1, <2>1, <2>2, <2>3
<1>20. from[n] = i
  BY <1>1, <1>2
<1> HIDE DEF from
<1>15. DOMAIN s = 1..n
  BY <1>1, <1>2
<1>16. MovesTo(s, i, moved, from)
  BY <1>2, <1>12, <1>13, <1>14, <1>15, <1>20 DEF MovesTo
<1>17. from \in [DOMAIN s -> DOMAIN s]
  BY <1>11, <1>15
<1>18. QED
  BY <1>2, <1>10, <1>15, <1>16, <1>17, <1>21 DEF IsMoved

LEMMA CellsBegin == CellsInit => CellsInv
<1> SUFFICES ASSUME CellsInit PROVE CellsInv
  OBVIOUS
<1>1. /\ cells = <<>> /\ asked = <<>> /\ cellQueries = 0 /\ hits = 0 /\ answer = {}
      /\ <<>> \in Seq(Entry) /\ <<>> \in Seq(Positions) /\ Len(<<>>) = 0
  BY EmptySeq DEF CellsInit
<1>2. DOMAIN cells = {} /\ DOMAIN asked = {}
  BY <1>1
<1>3. CellsTypeOK
  BY <1>1, <1>2, CellAssumption DEF CellsTypeOK
<1>4. QED
  BY <1>1, <1>2, <1>3 DEF CellsInv, EntriesFit, InOrder, Forgotten, AnswersTheCell

(* A hit: the other entries keep their order, the one asked for comes last. *)
LEMMA HitKeeps ==
  ASSUME CellsInv, NEW p \in Positions, Query(p), Hit(p)
  PROVE  CellsInv'
<1> DEFINE c0 == Cell[p]
<1>1. /\ CellsTypeOK /\ EntriesFit /\ InOrder /\ Forgotten
      /\ asked' = Append(asked, p) /\ cellQueries' = cellQueries + 1
  BY DEF CellsInv, Query
<1>2. /\ asked' \in Seq(Positions) /\ Last(asked') = p /\ Len(asked') = Len(asked) + 1
      /\ \A t \in DOMAIN asked : t \in DOMAIN asked' /\ asked'[t] = asked[t]
      /\ \A t \in DOMAIN asked' : t \in DOMAIN asked \/ asked'[t] = p
      /\ \A c, d : c # c0 /\ (Later(c, d) \/ d = c0) => Later(c, d)'
  BY <1>1, AskedMore
<1>3. PICK i \in DOMAIN cells :
        /\ cells[i].cell = c0
        /\ cells' = Append(RemoveAt(cells, i), cells[i])
        /\ hits' = hits + 1 /\ answer' = {cells[i].position}
  BY DEF Hit, Cached, MovedToEnd
<1>4. /\ cells \in Seq(Entry) /\ Len(cells) <= Capacity /\ Len(cells) \in Nat
      /\ DOMAIN cells = 1..Len(cells) /\ \A j \in DOMAIN cells : cells[j] \in Entry
      /\ \A j, k \in DOMAIN cells : cells[j].cell = cells[k].cell => j = k
      /\ cellQueries \in Nat /\ hits \in 0..cellQueries
      /\ asked \in Seq(Positions) /\ Len(asked) \in Nat /\ DOMAIN asked = 1..Len(asked)
  BY <1>1, LenProperties, ElementOfSeq DEF CellsTypeOK
<1>5. PICK moved : moved = Append(RemoveAt(cells, i), cells[i])
  OBVIOUS
<1>6. /\ moved \in Seq(Entry) /\ Len(moved) = Len(cells) /\ DOMAIN moved = DOMAIN cells
      /\ moved = cells'
      /\ \E from \in [DOMAIN cells -> DOMAIN cells] : MovesTo(cells, i, moved, from)
  <2>1. moved = cells'
    BY <1>3, <1>5
  <2>2. PICK s \in Seq(Entry) : s = cells
    BY <1>4
  <2>3. i \in DOMAIN s /\ moved = Append(RemoveAt(s, i), s[i])
    BY <1>5, <2>2
  <2>4. IsMoved(Entry, s, i, moved)
    BY <2>3, MovedEntries
  <2>5. QED
    BY <2>1, <2>2, <2>4 DEF IsMoved
<1>7. PICK from \in [DOMAIN cells -> DOMAIN cells] :
           /\ \A j \in DOMAIN cells : moved[j] = cells[from[j]]
           /\ \A j, k \in DOMAIN cells : from[j] = from[k] => j = k
           /\ from[Len(cells)] = i
           /\ \A j, k \in DOMAIN cells : j < k => from[j] < from[k] \/ k = Len(cells)
           /\ \A j \in DOMAIN cells : \E k \in DOMAIN cells : from[k] = j
  BY <1>6 DEF MovesTo
<1>8. CellsTypeOK'
  <2>1. \A j, k \in DOMAIN moved : moved[j].cell = moved[k].cell => j = k
    <3>1. SUFFICES ASSUME NEW j \in DOMAIN cells, NEW k \in DOMAIN cells,
                          moved[j].cell = moved[k].cell
                   PROVE  j = k
      BY <1>6
    <3>2. cells[from[j]].cell = cells[from[k]].cell
      BY <1>7, <3>1
    <3>3. from[j] \in DOMAIN cells /\ from[k] \in DOMAIN cells
      OBVIOUS
    <3>4. from[j] = from[k]
      BY <1>4, <3>2, <3>3
    <3>5. QED
      BY <1>7, <3>4
  <2>2. cells[i].position \in Positions
    BY <1>3, <1>4 DEF Entry
  <2>3. cellQueries + 1 \in Nat /\ hits + 1 \in 0..(cellQueries + 1)
    BY <1>4
  <2>4. QED
    BY <1>1, <1>2, <1>3, <1>4, <1>6, <2>1, <2>2, <2>3 DEF CellsTypeOK
<1>9. EntriesFit'
  <2>1. ASSUME NEW j \in DOMAIN moved
        PROVE  /\ Cell[moved[j].position] = moved[j].cell
               /\ \E t \in DOMAIN asked' : asked'[t] = moved[j].position
    <3>1. from[j] \in DOMAIN cells /\ moved[j] = cells[from[j]]
      BY <1>6, <1>7, <2>1
    <3>2. /\ Cell[moved[j].position] = moved[j].cell
          /\ \E t \in DOMAIN asked : asked[t] = moved[j].position
      BY <1>1, <3>1 DEF EntriesFit
    <3>3. QED
      BY <1>2, <3>2
  <2>2. QED
    BY <1>6, <2>1 DEF EntriesFit
<1>10. InOrder'
  <2>1. ASSUME NEW j \in DOMAIN moved, NEW k \in DOMAIN moved, j < k
        PROVE  Later(moved[j].cell, moved[k].cell)'
    <3>1. /\ from[j] \in DOMAIN cells /\ moved[j] = cells[from[j]]
          /\ from[k] \in DOMAIN cells /\ moved[k] = cells[from[k]]
          /\ from[j] < from[k] \/ k = Len(cells)
      BY <1>6, <1>7, <2>1
    <3>2. PICK a, b : a = moved[j].cell /\ b = moved[k].cell
      OBVIOUS
    <3>3. a # c0
      <4>1. Len(cells) \in DOMAIN cells /\ j # Len(cells)
        BY <1>4, <1>6, <2>1
      <4>2. from[j] # i
        BY <1>6, <1>7, <2>1, <4>1
      <4>3. QED
        BY <1>3, <1>4, <3>1, <3>2, <4>2
    <3>6. Later(a, b) \/ b = c0
      <4>1. CASE k = Len(cells)
        BY <1>3, <1>7, <3>1, <3>2, <4>1
      <4>2. CASE k # Len(cells)
        BY <1>1, <3>1, <3>2, <4>2 DEF InOrder
      <4>3. QED
        BY <4>1, <4>2
    <3>4. Later(a, b)'
      BY <1>2, <3>3, <3>6
    <3>5. QED
      BY <3>2, <3>4 DEF Later
  <2>2. QED
    BY <1>6, <2>1 DEF InOrder, Later
<1>11. Forgotten'
  <2>1. ASSUME NEW c, NEW j \in DOMAIN cells, cells[j].cell = c PROVE Held(c)'
    <3>1. PICK k \in DOMAIN cells : from[k] = j
      BY <1>7
    <3>2. k \in DOMAIN cells' /\ cells'[k] = cells[j]
      BY <1>6, <1>7, <3>1
    <3>3. QED
      BY <2>1, <3>2 DEF Held
  <2>2. ASSUME NEW t \in DOMAIN asked', NEW c, c = Cell[asked'[t]], ~Held(c)'
        PROVE  Len(cells') = Capacity /\ \A j \in DOMAIN cells' : Later(c, cells[j].cell)'
    <3>1. ~Held(c)
      BY <2>1, <2>2 DEF Held
    <3>2. c # c0
      BY <1>3, <2>1, <2>2
    <3>3. t \in DOMAIN asked /\ c = Cell[asked[t]]
      BY <1>2, <2>2, <3>2
    <3>4. Len(cells) = Capacity /\ \A j \in DOMAIN cells : Later(c, cells[j].cell)
      BY <1>1, <3>1, <3>3 DEF Forgotten
    <3>5. ASSUME NEW j \in DOMAIN cells' PROVE Later(c, cells[j].cell)'
      <4>1. PICK d : d = cells'[j].cell
        OBVIOUS
      <4>2. from[j] \in DOMAIN cells /\ d = cells[from[j]].cell
        BY <1>6, <1>7, <3>5, <4>1
      <4>3. Later(c, d)
        BY <3>4, <4>2
      <4>4. Later(c, d)'
        BY <1>2, <3>2, <4>3
      <4>5. QED
        BY <4>1, <4>4 DEF Later
    <3>6. QED
      BY <1>6, <3>4, <3>5
  <2>3. QED
    BY <2>2 DEF Forgotten, Later, Held
<1>12. AnswersTheCell'
  <2>1. PICK q : q = cells[i].position
    OBVIOUS
  <2>2. Cell[q] = c0 /\ \E t \in DOMAIN asked : asked[t] = q
    BY <1>1, <1>3, <2>1 DEF EntriesFit
  <2>3. PICK t \in DOMAIN asked : asked[t] = q
    BY <2>2
  <2>4. t \in 1..(Len(asked') - 1) /\ asked'[t] = q
    BY <1>2, <1>4, <2>3
  <2>5. answer' = {q}
    BY <1>3, <2>1
  <2>6. QED
    BY <1>2, <2>2, <2>4, <2>5 DEF AnswersTheCell
<1>13. QED
  BY <1>8, <1>9, <1>10, <1>11, <1>12 DEF CellsInv

(* A miss: the new entry is the last, the others come before it as they    *)
(* were, less the oldest of them when the cache was full (d = 1).          *)
IsKept(K, s, e, d, kept) ==
  /\ kept \in Seq(K) /\ Len(kept) = Len(s) + 1 - d /\ DOMAIN kept = 1..(Len(s) + 1 - d)
  /\ kept[Len(s) + 1 - d] = e
  /\ \A j \in 1..(Len(s) - d) : kept[j] = s[j + d]

LEMMA KeptEntries ==
  ASSUME NEW K, NEW s \in Seq(K), NEW e \in K
  PROVE  /\ IsKept(K, s, e, 0, Append(s, e))
         /\ Len(s) > 0 => IsKept(K, s, e, 1, Tail(Append(s, e)))
<1>1. PICK n : n = Len(s)
  OBVIOUS
<1>2. PICK t : t = Append(s, e)
  OBVIOUS
<1>3. /\ n \in Nat /\ DOMAIN s = 1..n
      /\ t \in Seq(K) /\ Len(t) = n + 1 /\ DOMAIN t = 1..(n + 1)
      /\ t[n + 1] = e /\ \A j \in 1..n : t[j] = s[j]
  BY <1>1, <1>2, AppendProperties, LenProperties
<1>4. IsKept(K, s, e, 0, t)
  <2>1. n + 1 - 0 = n + 1 /\ n - 0 = n /\ \A j \in 1..n : j + 0 = j
    BY <1>3
  <2>2. QED
    BY <1>1, <1>3, <2>1 DEF IsKept
<1>5. ASSUME n > 0 PROVE IsKept(K, s, e, 1, Tail(t))
  <2>1. t # <<>>
    BY <1>3, EmptySeq
  <2>2. PICK u : u = Tail(t)
    OBVIOUS
  <2>3. /\ u \in Seq(K) /\ Len(u) = Len(t) - 1
        /\ \A j \in 1..Len(u) : u[j] = t[j + 1]
    BY <1>3, <2>1, <2>2, HeadTailProperties
  <2>4. Len(u) = n /\ DOMAIN u = 1..n /\ n + 1 - 1 = n
    BY <1>3, <2>3, LenProperties
  <2>5. u[n] = e
    BY <1>3, <1>5, <2>3, <2>4
  <2>6. ASSUME NEW j \in 1..(n - 1) PROVE u[j] = s[j + 1]
    <3>1. j \in 1..n /\ j + 1 \in 1..n
      BY <1>3, <2>6
    <3>2. QED
      BY <1>3, <2>3, <2>4, <3>1
  <2>7. QED
    BY <1>1, <2>2, <2>3, <2>4, <2>5, <2>6 DEF IsKept
<1>6. QED
  BY <1>1, <1>2, <1>4, <1>5

LEMMA MissKeeps ==
  ASSUME CellsInv, NEW p \in Positions, Query(p), Miss(p)
  PROVE  CellsInv'
<1> DEFINE c0 == Cell[p]
<1>1. /\ CellsTypeOK /\ EntriesFit /\ InOrder /\ Forgotten
      /\ asked' = Append(asked, p) /\ cellQueries' = cellQueries + 1
  BY DEF CellsInv, Query
<1>2. /\ asked' \in Seq(Positions) /\ Last(asked') = p /\ Len(asked') = Len(asked) + 1
      /\ \A t \in DOMAIN asked : t \in DOMAIN asked' /\ asked'[t] = asked[t]
      /\ \A t \in DOMAIN asked' : t \in DOMAIN asked \/ asked'[t] = p
      /\ \A c, d : c # c0 /\ (Later(c, d) \/ d = c0) => Later(c, d)'
  BY <1>1, AskedMore
<1>3. PICK e : e = [cell |-> c0, position |-> p]
  OBVIOUS
<1>4. /\ cells' = Kept(e) /\ hits' = hits /\ answer' = {p}
      /\ \A j \in DOMAIN cells : cells[j].cell # c0
  BY <1>3 DEF Miss, Cached
<1>5. /\ e \in Entry /\ e.cell = c0 /\ e.position = p /\ c0 \in Cells
  BY <1>3, CellAssumption DEF Entry
<1>6. /\ cells \in Seq(Entry) /\ Len(cells) <= Capacity /\ Len(cells) \in Nat /\ Capacity \in Nat
      /\ DOMAIN cells = 1..Len(cells) /\ \A j \in DOMAIN cells : cells[j] \in Entry
      /\ \A j, k \in DOMAIN cells : cells[j].cell = cells[k].cell => j = k
      /\ cellQueries \in Nat /\ hits \in 0..cellQueries
      /\ asked \in Seq(Positions) /\ Len(asked) \in Nat /\ DOMAIN asked = 1..Len(asked)
  BY <1>1, LenProperties, ElementOfSeq, CellAssumption DEF CellsTypeOK
<1>13. PICK m : m = Len(cells)
  OBVIOUS
<1>14. m \in Nat /\ Capacity \in Nat /\ (m < Capacity \/ m = Capacity) /\ DOMAIN cells = 1..m
  <2>1. m <= Capacity /\ m \in Nat /\ Capacity \in Nat /\ DOMAIN cells = 1..m
    BY <1>6, <1>13
  <2>2. QED
    BY <2>1
<1>7. \E t \in DOMAIN asked' : asked'[t] = p
  BY <1>1, <1>6, AppendProperties, LenProperties
<1>8. AnswersTheCell'
  <2>1. \A q \in answer' : q = p
    BY <1>4
  <2>2. QED
    BY <1>2, <2>1 DEF AnswersTheCell
<1>9. cellQueries' \in Nat /\ hits' \in 0..cellQueries' /\ answer' \subseteq Positions
  BY <1>1, <1>4, <1>6
<1>10. CASE Capacity = 0
  <2>1. cells' = cells /\ Len(cells) = 0 /\ DOMAIN cells = {}
    BY <1>4, <1>6, <1>10 DEF Kept
  <2>2. CellsTypeOK'
    BY <1>2, <1>6, <1>9, <2>1 DEF CellsTypeOK
  <2>3. EntriesFit' /\ InOrder' /\ Forgotten'
    BY <1>10, <2>1 DEF EntriesFit, InOrder, Forgotten
  <2>4. QED
    BY <1>8, <2>2, <2>3 DEF CellsInv
<1>11. CASE Capacity > 0
  <2>1. PICK d, kept :
             /\ d \in {0, 1}
             /\ IsKept(Entry, cells, e, d, kept) /\ kept = cells'
             /\ d = 1 <=> m = Capacity
    <3>1. PICK s \in Seq(Entry) : s = cells
      BY <1>6
    <3>2. CASE m < Capacity
      <4>1. cells' = Append(s, e)
        BY <1>4, <1>11, <1>13, <1>14, <3>1, <3>2 DEF Kept
      <4>2. IsKept(Entry, s, e, 0, Append(s, e))
        BY <1>5, KeptEntries
      <4>3. m # Capacity /\ 0 # 1
        BY <1>14, <3>2
      <4>4. IsKept(Entry, cells, e, 0, cells')
        BY <3>1, <4>1, <4>2
      <4>5. 0 \in {0, 1} /\ (0 = 1 <=> m = Capacity)
        BY <4>3
      <4>6. QED
        BY <4>4, <4>5
    <3>3. CASE m = Capacity
      <4>1. cells' = Tail(Append(s, e))
        BY <1>4, <1>11, <1>13, <1>14, <3>1, <3>3 DEF Kept
      <4>2. IsKept(Entry, s, e, 1, Tail(Append(s, e)))
        BY <1>5, <1>11, <1>13, <3>1, <3>3, KeptEntries
      <4>3. IsKept(Entry, cells, e, 1, cells')
        BY <3>1, <4>1, <4>2
      <4>4. 1 \in {0, 1} /\ (1 = 1 <=> m = Capacity)
        BY <3>3
      <4>5. QED
        BY <4>3, <4>4
    <3>4. QED
      BY <1>14, <3>2, <3>3
  <2>2. PICK n : n = m + 1 - d
    OBVIOUS
  <2>10. d \in {0, 1} /\ n \in Nat /\ n <= Capacity /\ n > 0 /\ n = m + 1 - d
    <3>1. CASE d = 0
      <4>1. m < Capacity
        BY <1>14, <2>1, <3>1
      <4>2. QED
        BY <1>14, <2>2, <3>1, <4>1
    <3>2. CASE d = 1
      <4>1. m = Capacity
        BY <2>1, <3>2
      <4>2. QED
        BY <1>11, <1>14, <2>2, <3>2, <4>1
    <3>3. QED
      BY <2>1, <3>1, <3>2
  <2>3. /\ kept \in Seq(Entry) /\ Len(kept) = n /\ DOMAIN kept = 1..n
        /\ kept[n] = e /\ n \in Nat /\ n <= Capacity /\ n > 0
    BY <1>13, <2>1, <2>10 DEF IsKept
  <2>4. \A j \in 1..n : j # n => j + d \in DOMAIN cells /\ kept[j] = cells[j + d]
    <3>1. SUFFICES ASSUME NEW j \in 1..n, j # n
                   PROVE  j + d \in DOMAIN cells /\ kept[j] = cells[j + d]
      OBVIOUS
    <3>2. j + d \in 1..m /\ j \in 1..(m - d)
      BY <1>14, <2>10, <3>1
    <3>3. QED
      BY <1>13, <1>14, <2>1, <3>2 DEF IsKept
  <2>5. CellsTypeOK'
    <3>1. \A j, k \in DOMAIN kept : kept[j].cell = kept[k].cell => j = k
      <4>1. SUFFICES ASSUME NEW j \in 1..n, NEW k \in 1..n, kept[j].cell = kept[k].cell
                     PROVE  j = k
        BY <2>3
      <4>2. CASE j # n /\ k # n
        <5>1. j + d = k + d
          BY <1>6, <2>4, <4>1, <4>2
        <5>2. QED
          BY <2>10, <5>1
      <4>3. CASE j = n \/ k = n
        BY <1>4, <1>5, <2>3, <2>4, <4>1, <4>3
      <4>4. QED
        BY <4>2, <4>3
    <3>2. QED
      BY <1>2, <1>9, <2>1, <2>3, <3>1 DEF CellsTypeOK
  <2>6. EntriesFit'
    <3>1. ASSUME NEW j \in 1..n
          PROVE  /\ Cell[kept[j].position] = kept[j].cell
                 /\ \E t \in DOMAIN asked' : asked'[t] = kept[j].position
      <4>1. CASE j = n
        BY <1>5, <1>7, <2>3, <4>1
      <4>2. CASE j # n
        <5>1. j + d \in DOMAIN cells /\ kept[j] = cells[j + d]
          BY <2>4, <4>2
        <5>2. /\ Cell[kept[j].position] = kept[j].cell
              /\ \E t \in DOMAIN asked : asked[t] = kept[j].position
          BY <1>1, <5>1 DEF EntriesFit
        <5>3. QED
          BY <1>2, <5>2
      <4>3. QED
        BY <4>1, <4>2
    <3>2. QED
      BY <2>1, <2>3, <3>1 DEF EntriesFit
  <2>7. InOrder'
    <3>1. ASSUME NEW j \in 1..n, NEW k \in 1..n, j < k
          PROVE  Later(kept[j].cell, kept[k].cell)'
      <4>1. j # n /\ j + d \in DOMAIN cells /\ kept[j] = cells[j + d]
        BY <2>3, <2>4, <3>1
      <4>2. PICK a, b : a = kept[j].cell /\ b = kept[k].cell
        OBVIOUS
      <4>3. a # c0
        BY <1>4, <4>1, <4>2
      <4>4. Later(a, b) \/ b = c0
        <5>1. CASE k = n
          BY <1>5, <2>3, <4>2, <5>1
        <5>2. CASE k # n
          <6>1. k + d \in DOMAIN cells /\ kept[k] = cells[k + d] /\ j + d < k + d
            BY <2>4, <2>10, <3>1, <5>2
          <6>2. QED
            BY <1>1, <4>1, <4>2, <6>1 DEF InOrder
        <5>3. QED
          BY <5>1, <5>2
      <4>5. Later(a, b)'
        BY <1>2, <4>3, <4>4
      <4>6. QED
        BY <4>2, <4>5 DEF Later
    <3>2. QED
      BY <2>1, <2>3, <3>1 DEF InOrder, Later
  <2>8. Forgotten'
    <3>1. ASSUME NEW t \in DOMAIN asked', NEW c, c = Cell[asked'[t]], ~Held(c)'
          PROVE  Len(kept) = Capacity /\ \A j \in 1..n : Later(c, kept[j].cell)'
      <4>1. \A j \in 1..n : kept[j].cell # c
        BY <2>1, <2>3, <3>1 DEF Held
      <4>2. c # c0
        BY <1>5, <2>3, <4>1
      <4>3. t \in DOMAIN asked /\ c = Cell[asked[t]]
        BY <1>2, <3>1, <4>2
      <4>4. m = Capacity /\ \A j \in DOMAIN cells : j + d \in DOMAIN cells => Later(c, cells[j + d].cell)
        <5>1. CASE ~Held(c)
          BY <1>1, <1>13, <4>3, <5>1 DEF Forgotten
        <5>2. CASE Held(c)
          <6>1. PICK k \in DOMAIN cells : cells[k].cell = c
            BY <5>2 DEF Held
          <6>2. ~(k - d \in 1..(n - 1))
            <7>1. SUFFICES ASSUME k - d \in 1..(n - 1) PROVE FALSE
              OBVIOUS
            <7>2. k - d \in 1..n /\ k - d # n /\ (k - d) + d = k
              BY <1>14, <2>10, <7>1
            <7>3. kept[k - d] = cells[k]
              BY <2>4, <7>2
            <7>4. QED
              BY <4>1, <6>1, <7>2, <7>3
          <6>3. d = 1 /\ k = 1
            BY <1>14, <2>10, <6>2
          <6>4. \A j \in DOMAIN cells : k < j + d
            BY <1>14, <6>3
          <6>5. QED
            BY <1>1, <2>1, <6>1, <6>3, <6>4 DEF InOrder
        <5>3. QED
          BY <5>1, <5>2
      <4>5. Len(kept) = Capacity
        <5>1. d = 1
          BY <2>1, <4>4
        <5>2. QED
          BY <1>14, <2>3, <2>10, <4>4, <5>1
      <4>6. ASSUME NEW j \in 1..n PROVE Later(c, kept[j].cell)'
        <5>1. PICK b : b = kept[j].cell
          OBVIOUS
        <5>2. Later(c, b) \/ b = c0
          <6>1. CASE j = n
            BY <1>5, <2>3, <5>1, <6>1
          <6>2. CASE j # n
            <7>1. j \in DOMAIN cells /\ j + d \in DOMAIN cells /\ kept[j] = cells[j + d]
              <8>1. j + d \in DOMAIN cells /\ kept[j] = cells[j + d]
                BY <2>4, <6>2
              <8>2. QED
                BY <1>14, <2>10, <6>2, <8>1
            <7>2. QED
              BY <4>4, <5>1, <7>1
          <6>3. QED
            BY <6>1, <6>2
        <5>3. Later(c, b)'
          BY <1>2, <4>2, <5>2
        <5>4. QED
          BY <5>1, <5>3 DEF Later
      <4>7. QED
        BY <4>5, <4>6
    <3>2. QED
      BY <2>1, <2>3, <3>1 DEF Forgotten, Later, Held
  <2>9. QED
    BY <1>8, <2>5, <2>6, <2>7, <2>8 DEF CellsInv
<1>12. QED
  BY <1>10, <1>11, <1>14

LEMMA CellsStep == CellsInv /\ [CellsNext]_cellVars => CellsInv'
<1> SUFFICES ASSUME CellsInv, [CellsNext]_cellVars PROVE CellsInv'
  OBVIOUS
<1>1. CASE CellsNext
  <2>1. PICK p \in Positions : Query(p)
    BY <1>1 DEF CellsNext
  <2>2. Hit(p) \/ Miss(p)
    BY <2>1 DEF Query
  <2>3. CASE Hit(p)
    BY <2>1, <2>3, HitKeeps
  <2>4. CASE Miss(p)
    BY <2>1, <2>4, MissKeeps
  <2>5. QED
    BY <2>2, <2>3, <2>4
<1>2. CASE UNCHANGED cellVars
  BY <1>2 DEF cellVars, CellsInv, CellsTypeOK, EntriesFit, InOrder, Forgotten, Held, Later, AnswersTheCell
<1>3. QED
  BY <1>1, <1>2

(* The cells of the entries are as many as the entries.                    *)
LEMMA CellsHeld ==
  ASSUME CellsTypeOK, NEW H, H = {cells[k].cell : k \in DOMAIN cells}
  PROVE  IsFiniteSet(H) /\ Cardinality(H) = Len(cells)
<1>1. PICK n : n = Len(cells)
  OBVIOUS
<1>2. n \in Nat /\ DOMAIN cells = 1..n /\ H = {cells[k].cell : k \in 1..n}
  BY <1>1, LenProperties DEF CellsTypeOK
<1>3. PICK f : f = [k \in 1..n |-> cells[k].cell]
  OBVIOUS
<1>4. /\ f \in [1..n -> H] /\ \A x, y \in 1..n : f[x] = f[y] => x = y
      /\ \A h \in H : \E k \in 1..n : f[k] = h
  BY <1>2, <1>3 DEF CellsTypeOK
<1>5. ExistsBijection(1..n, H)
  <2>1. f \in Injection(1..n, H)
    BY <1>4 DEF Injection, IsInjective
  <2>2. f \in Surjection(1..n, H)
    BY <1>4 DEF Surjection
  <2>3. QED
    BY <2>1, <2>2 DEF ExistsBijection, Bijection
<1>6. IsFiniteSet(H)
  BY <1>2, <1>5, FS_NatBijection
<1>7. QED
  BY <1>1, <1>2, <1>5, <1>6, FS_CountingElements

LEMMA AskedIsFinite ==
  ASSUME CellsTypeOK, NEW i \in DOMAIN asked
  PROVE  IsFiniteSet(CellsSince(i))
<1>1. PICK n : n = Len(asked)
  OBVIOUS
<1>2. n \in Nat /\ DOMAIN asked = 1..n /\ i \in 1..n
  BY <1>1, LenProperties DEF CellsTypeOK
<1>3. PICK f : f = [j \in i..n |-> Cell[asked[j]]]
  OBVIOUS
<1>4. f \in Surjection(i..n, CellsSince(i))
  BY <1>1, <1>3 DEF CellsSince, Surjection
<1>5. IsFiniteSet(i..n)
  BY <1>2, FS_Interval
<1>6. QED
  BY <1>4, <1>5, FS_Surjection

LEMMA RecentAreHeld == CellsInv => RecentCellsAreHeld
<1> SUFFICES ASSUME CellsInv PROVE RecentCellsAreHeld
  OBVIOUS
<1>1. CellsTypeOK /\ Forgotten
  BY DEF CellsInv
<1>2. SUFFICES ASSUME NEW i \in DOMAIN asked, Cardinality(CellsSince(i)) <= Capacity,
                      NEW c \in CellsSince(i)
               PROVE  Held(c)
  BY DEF RecentCellsAreHeld, Held, ToSet
<1>3. SUFFICES ASSUME ~Held(c) PROVE FALSE
  OBVIOUS
<1>4. Len(asked) \in Nat /\ DOMAIN asked = 1..Len(asked) /\ Capacity \in Nat
  BY <1>1, LenProperties, CellAssumption DEF CellsTypeOK
<1>5. PICK j \in i..Len(asked) : c = Cell[asked[j]]
  BY <1>2 DEF CellsSince
<1>6. j \in DOMAIN asked
  BY <1>4, <1>5
<1>7. Len(cells) = Capacity /\ \A k \in DOMAIN cells : Later(c, cells[k].cell)
  BY <1>1, <1>3, <1>5, <1>6 DEF Forgotten
<1>8. PICK H : H = {cells[k].cell : k \in DOMAIN cells}
  OBVIOUS
<1>9. IsFiniteSet(H) /\ Cardinality(H) = Capacity
  BY <1>1, <1>7, <1>8, CellsHeld
<1>10. ASSUME NEW k \in DOMAIN cells PROVE cells[k].cell \in CellsSince(i)
  <2>1. PICK u \in DOMAIN asked : j < u /\ Cell[asked[u]] = cells[k].cell
    BY <1>5, <1>6, <1>7 DEF Later
  <2>2. u \in i..Len(asked)
    BY <1>4, <1>5, <2>1
  <2>3. QED
    BY <2>1, <2>2 DEF CellsSince
<1>11. H \cup {c} \subseteq CellsSince(i) /\ c \notin H
  BY <1>2, <1>3, <1>8, <1>10 DEF Held
<1>12. IsFiniteSet(H \cup {c}) /\ Cardinality(H \cup {c}) = Capacity + 1
  BY <1>9, <1>11, FS_AddElement
<1>13. IsFiniteSet(CellsSince(i))
  BY <1>1, AskedIsFinite
<1>14. Capacity + 1 <= Cardinality(CellsSince(i)) /\ Cardinality(CellsSince(i)) \in Nat
  <2>1. Cardinality(H \cup {c}) <= Cardinality(CellsSince(i))
    BY <1>11, <1>13, FS_Subset
  <2>2. QED
    BY <1>12, <1>13, <2>1, FS_CardinalityType
<1>15. QED
  BY <1>2, <1>4, <1>14

(* The cache of the simulator keeps the cells that were asked for last, up *)
(* to its bound, and answers with a route of the cell that was asked for,  *)
(* for any positions and cells and any order of the queries                *)
(* (routing_engine.py:67-110).                                             *)
THEOREM CacheHolds == CellsSpec => []CacheIsFaithful
<1>1. CellsInv => CacheIsFaithful
  BY RecentAreHeld DEF CellsInv, CacheIsFaithful
<1>2. QED
  BY <1>1, CellsBegin, CellsStep, PTL DEF CellsSpec

(* Both caches of routes are faithful: the simulation to the real cache,   *)
(* the cache of the simulator to what it was asked (routing_v3.py:15-51,   *)
(* routing_engine.py:67-110).                                              *)
THEOREM CachesAreFaithfulHolds == ShadowSpec /\ CellsSpec => []CachesAreFaithful
<1>1. Simulates /\ CacheIsFaithful => CachesAreFaithful
  BY DEF CachesAreFaithful
<1>2. QED
  BY <1>1, ShadowSimulates, CacheHolds, PTL

-----------------------------------------------------------------------------
(* Run is the function its recursive definition describes.                 *)
IsRun(run, step, start, seq, m) ==
  run = [n \in 0..m |-> IF n = 0 THEN start ELSE step[seq[n]][run[n - 1]]]

LEMMA RunUnfolds ==
  ASSUME NEW K, NEW seq \in Seq(K), NEW step, NEW start
  PROVE  IsRun(Run(step, start, seq), step, start, seq, Len(seq))
<1> DEFINE undefined == {m \in 0..Len(seq) : ~ \E run : IsRun(run, step, start, seq, m)}
<1>1. undefined = {}
  <2> SUFFICES ASSUME undefined # {} PROVE FALSE
    OBVIOUS
  <2>1. Len(seq) \in Nat /\ undefined \in SUBSET Nat
    BY LenProperties
  <2>2. PICK m \in undefined : \A n \in undefined : ~(n < m)
    BY <2>1, LeastElement
  <2>3. CASE m = 0
    <3>1. IsRun([n \in 0..0 |-> start], step, start, seq, 0)
      BY DEF IsRun
    <3>2. QED
      BY <2>2, <2>3, <3>1
  <2>4. CASE m # 0
    <3> DEFINE next(f, n) == IF n = 0 THEN start ELSE step[seq[n]][f[n - 1]]
    <3>1. m \in Nat /\ m - 1 \in 0..Len(seq) /\ m - 1 < m
      BY <2>1, <2>2, <2>4
    <3>2. PICK f : IsRun(f, step, start, seq, m - 1)
      BY <2>2, <3>1
    <3>3. f = [n \in 0..(m - 1) |-> next(f, n)]
      BY <3>2 DEF IsRun
    <3> DEFINE g == [n \in 0..m |-> next(f, n)]
    <3>4. \A n \in 0..m : n # 0 => g[n - 1] = f[n - 1]
      <4> HIDE DEF next
      <4>1. QED
        BY <3>1, <3>3
    <3>5. \A n \in 0..m : next(g, n) = next(f, n)
      <4> HIDE DEF g
      <4>1. QED
        BY <3>4
    <3>6. g = [n \in 0..m |-> next(g, n)]
      <4> HIDE DEF next
      <4>1. QED
        BY <3>5, Zenon
    <3>7. IsRun(g, step, start, seq, m)
      BY <3>6 DEF IsRun
    <3>8. QED
      BY <2>2, <3>7
  <2>5. QED
    BY <2>3, <2>4
<1>2. Len(seq) \in 0..Len(seq)
  BY LenProperties
<1>3. \E run : IsRun(run, step, start, seq, Len(seq))
  BY <1>1, <1>2
<1>4. Run(step, start, seq) = CHOOSE run : IsRun(run, step, start, seq, Len(seq))
  BY Zenon DEF Run, IsRun
<1>5. QED
  BY <1>3, <1>4

LEMMA RunSteps ==
  ASSUME NEW K, NEW seq \in Seq(K), NEW step, NEW start
  PROVE  /\ Run(step, start, seq)[0] = start
         /\ \A n \in 1..Len(seq) :
              Run(step, start, seq)[n] = step[seq[n]][Run(step, start, seq)[n - 1]]
<1>1. PICK run : run = Run(step, start, seq)
  OBVIOUS
<1>2. Len(seq) \in Nat
  BY LenProperties
<1>3. \A n \in 0..Len(seq) : run[n] = IF n = 0 THEN start ELSE step[seq[n]][run[n - 1]]
  BY <1>1, RunUnfolds DEF IsRun
<1>4. run[0] = start /\ \A n \in 1..Len(seq) : run[n] = step[seq[n]][run[n - 1]]
  BY <1>2, <1>3
<1>5. QED
  BY <1>1, <1>4

(* What holds of the start and is kept by every step holds all along.      *)
LEMMA RunKeeps ==
  ASSUME NEW K, NEW seq \in Seq(K), NEW step, NEW start, NEW Good,
         <<0, start>> \in Good,
         \A n \in 1..Len(seq) : \A s : <<n - 1, s>> \in Good => <<n, step[seq[n]][s]>> \in Good
  PROVE  \A n \in 0..Len(seq) : <<n, Run(step, start, seq)[n]>> \in Good
<1>1. PICK run : run = Run(step, start, seq)
  OBVIOUS
<1>2. /\ Len(seq) \in Nat /\ run[0] = start
      /\ \A n \in 1..Len(seq) : run[n] = step[seq[n]][run[n - 1]]
  BY <1>1, RunSteps, LenProperties
<1> DEFINE bad == {n \in 0..Len(seq) : <<n, run[n]>> \notin Good}
<1>3. SUFFICES ASSUME bad # {} PROVE FALSE
  BY <1>1
<1>4. bad \in SUBSET Nat
  BY <1>2
<1>5. PICK m \in bad : \A n \in bad : ~(n < m)
  BY <1>3, <1>4, LeastElement
<1>6. m # 0 /\ m \in 0..Len(seq) /\ <<m, run[m]>> \notin Good
  BY <1>2, <1>5
<1>7. m \in 1..Len(seq) /\ m - 1 \in 0..Len(seq) /\ m - 1 < m
  BY <1>2, <1>6
<1>8. <<m - 1, run[m - 1]>> \in Good
  BY <1>5, <1>7
<1>9. QED
  BY <1>2, <1>6, <1>7, <1>8

LEMMA AfterNothing ==
  ASSUME NEW step, NEW start
  PROVE  After(step, start, <<>>) = start
<1>1. PICK seq \in Seq({}) : seq = <<>> /\ Len(seq) = 0
  BY EmptySeq
<1>2. Run(step, start, seq)[0] = start
  BY RunSteps
<1>3. QED
  BY <1>1, <1>2 DEF After

(* The first element may as well be taken first.                           *)
LEMMA AfterFirst ==
  ASSUME NEW K, NEW seq \in Seq(K), seq # <<>>, NEW step, NEW start
  PROVE  After(step, start, seq) = After(step, step[Head(seq)][start], Tail(seq))
<1>1. PICK next : next = step[Head(seq)][start]
  OBVIOUS
<1>2. PICK rest : rest = Tail(seq)
  OBVIOUS
<1>3. PICK m : m = Len(seq)
  OBVIOUS
<1>4. /\ rest \in Seq(K) /\ m \in Nat \ {0} /\ Len(rest) = m - 1 /\ Head(seq) = seq[1]
      /\ \A i \in 1..(m - 1) : rest[i] = seq[i + 1]
  BY <1>2, <1>3, HeadTailProperties, LenProperties, EmptySeq
<1>5. PICK run : run = Run(step, start, seq)
  OBVIOUS
<1>6. run[0] = start /\ \A n \in 1..m : run[n] = step[seq[n]][run[n - 1]]
  BY <1>3, <1>5, RunSteps
<1> DEFINE Good == {ns \in (0..(m - 1)) \X {run[i] : i \in 1..m} : ns[2] = run[ns[1] + 1]}
<1>7. <<0, next>> \in Good
  <2>1. 1 \in 1..m /\ 0 \in 0..(m - 1) /\ 0 + 1 = 1 /\ 1 - 1 = 0
    BY <1>4
  <2>2. next = run[1]
    BY <1>1, <1>4, <1>6, <2>1
  <2>3. QED
    BY <2>1, <2>2
<1>8. ASSUME NEW n \in 1..Len(rest), NEW s, <<n - 1, s>> \in Good
      PROVE  <<n, step[rest[n]][s]>> \in Good
  <2>1. n \in 1..(m - 1) /\ n \in 0..(m - 1) /\ n + 1 \in 1..m /\ (n - 1) + 1 = n /\ (n + 1) - 1 = n
    BY <1>4
  <2>2. s = run[n]
    BY <1>8, <2>1
  <2>3. run[n + 1] = step[seq[n + 1]][run[n]]
    BY <1>6, <2>1
  <2>4. step[rest[n]][s] = run[n + 1]
    BY <1>4, <2>1, <2>2, <2>3
  <2>5. QED
    BY <2>1, <2>4
<1>9. \A n \in 0..Len(rest) : <<n, Run(step, next, rest)[n]>> \in Good
  <2> HIDE DEF Good
  <2>1. QED
    BY <1>4, <1>7, <1>8, RunKeeps
<1>10. m - 1 \in 0..Len(rest) /\ (m - 1) + 1 = m
  BY <1>4
<1>11. Run(step, next, rest)[m - 1] = run[m]
  BY <1>9, <1>10
<1>12. QED
  BY <1>1, <1>2, <1>3, <1>4, <1>5, <1>11 DEF After

LEMMA SetOfSeq ==
  ASSUME NEW K, NEW s \in Seq(K)
  PROVE  ToSet(s) \subseteq K
  BY LenProperties, ElementOfSeq DEF ToSet

(* The exact cache keeps to its bound and holds what is put last.          *)
LEMMA ExactMoved ==
  ASSUME NEW l \in ExactCache, NEW a \in ToSet(l)
  PROVE  MoveToEnd(l, a) \in ExactCache /\ ToSet(MoveToEnd(l, a)) = ToSet(l)
<1>1. l \in Seq(Arcs) /\ IsInjective(l) /\ Len(l) <= CacheSize /\ a \in Arcs
  BY SetOfSeq DEF ExactCache
<1>2. PICK w : w = Without(l, {a})
  OBVIOUS
<1>3. w \in Seq(Arcs) /\ ToSet(w) = ToSet(l) \ {a} /\ IsInjective(w)
  BY <1>1, <1>2, WithoutFacts
<1>4. Len(w) = Len(l) - 1
  BY <1>1, <1>2, WithoutOne
<1>5. PICK m : m = Append(w, a)
  OBVIOUS
<1>6. /\ m \in Seq(Arcs) /\ Len(m) = Len(w) + 1 /\ ToSet(m) = ToSet(w) \cup {a}
      /\ IsInjective(m)
  BY <1>1, <1>3, <1>5, AppendProperties, SetOfAppend, InjectiveAppend
<1>7. Len(m) <= CacheSize
  <2>1. Len(l) \in Nat
    BY <1>1, LenProperties
  <2>2. QED
    BY <1>1, <1>4, <1>6, <2>1
<1>8. m \in ExactCache /\ ToSet(m) = ToSet(l)
  BY <1>3, <1>6, <1>7 DEF ExactCache
<1>9. QED
  BY <1>2, <1>5, <1>8 DEF MoveToEnd

LEMMA ExactKept ==
  ASSUME NEW l \in ExactCache, NEW a \in Arcs
  PROVE  /\ KeepLast(l, CacheSize, a) \in ExactCache
         /\ ToSet(KeepLast(l, CacheSize, a)) \subseteq ToSet(l) \cup {a}
<1>1. l \in Seq(Arcs) /\ IsInjective(l) /\ Len(l) <= CacheSize /\ CacheSize \in Nat
  BY EpochAssumption DEF ExactCache
<1>2. CASE CacheSize = 0
  BY <1>2 DEF KeepLast
<1>3. CASE CacheSize # 0
  <2>1. PICK w : w = Without(l, {a})
    OBVIOUS
  <2>2. w \in Seq(Arcs) /\ ToSet(w) = ToSet(l) \ {a} /\ IsInjective(w)
    BY <1>1, <2>1, WithoutFacts
  <2>3. Len(w) <= Len(l)
    <3>1. Len(w) = IF a \in ToSet(l) THEN Len(l) - 1 ELSE Len(l)
      BY <1>1, <2>1, WithoutOne
    <3>2. Len(l) \in Nat
      BY <1>1, LenProperties
    <3>3. QED
      BY <3>1, <3>2
  <2>4. PICK m : m = Append(w, a)
    OBVIOUS
  <2>5. /\ m \in Seq(Arcs) /\ Len(m) = Len(w) + 1 /\ ToSet(m) = ToSet(w) \cup {a}
        /\ IsInjective(m) /\ m # <<>> /\ Len(w) \in Nat /\ Len(l) \in Nat
    BY <1>1, <2>2, <2>4, AppendProperties, LenProperties, SetOfAppend, InjectiveAppend
  <2>6. KeepLast(l, CacheSize, a) = IF Len(m) > CacheSize THEN Tail(m) ELSE m
    BY <1>3, <2>1, <2>4 DEF KeepLast, Evict, MoveToEnd
  <2>7. CASE Len(m) > CacheSize
    <3>1. /\ Tail(m) \in Seq(Arcs) /\ IsInjective(Tail(m)) /\ ToSet(Tail(m)) \subseteq ToSet(m)
          /\ Len(Tail(m)) = Len(m) - 1
      BY <2>5, SetOfTail, HeadTailProperties
    <3>2. Len(m) - 1 <= CacheSize
      BY <1>1, <2>3, <2>5
    <3>3. QED
      BY <2>2, <2>5, <2>6, <2>7, <3>1, <3>2 DEF ExactCache
  <2>8. CASE ~(Len(m) > CacheSize)
    <3>1. Len(m) <= CacheSize
      BY <1>1, <2>5, <2>8
    <3>2. QED
      BY <2>2, <2>5, <2>6, <2>8, <3>1 DEF ExactCache
  <2>9. QED
    BY <2>7, <2>8
<1>4. QED
  BY <1>2, <1>3

(* An alias that is filled stays filled.                                   *)
LEMMA AliasFilled ==
  ASSUME NEW c \in AliasCache, NEW a \in Arcs
  PROVE  /\ Fill(c, a) \in AliasCache /\ Aliased(c) \subseteq Aliased(Fill(c, a))
  BY EpochAssumption DEF AliasCache, Fill, Aliased

(* One row, looked up in the exact cache or asked for.                     *)
HitOrLeft(a, s, t) ==
  /\ t \in Replay /\ t.number = s.number /\ t.queried = s.queried
  /\ ToSet(t.lru) = ToSet(s.lru) /\ Aliased(s.cache) \subseteq Aliased(t.cache)
  /\ s.found \subseteq t.found
  /\ IF a \in ToSet(s.lru)
     THEN /\ t.cache = Fill(s.cache, a) /\ t.lru = MoveToEnd(s.lru, a)
          /\ t.uncached = s.uncached /\ <<s.number, a, a>> \in t.found
     ELSE /\ t.cache = s.cache /\ t.lru = s.lru /\ t.found = s.found
          /\ t.uncached = Append(s.uncached, a)

LEMMA ExactHitDoes ==
  ASSUME NEW a \in Arcs, NEW s \in Replay
  PROVE  HitOrLeft(a, s, ExactHit[a][s])
<1> PICK t : t = ExactHit[a][s]
  OBVIOUS
<1> SUFFICES HitOrLeft(a, s, t)
  OBVIOUS
<1> USE DEF HitOrLeft
<1>1. /\ s.cache \in AliasCache /\ s.lru \in ExactCache /\ s.number \in Nat
      /\ s.found \in SUBSET (Nat \X Arcs \X Arcs) /\ s.uncached \in Seq(Arcs)
      /\ s.queried \in SUBSET Arcs
  BY DEF Replay
<1>2. t = IF a \in ToSet(s.lru)
          THEN [s EXCEPT !.cache = Fill(s.cache, a), !.lru = MoveToEnd(s.lru, a),
                         !.found = s.found \cup {<<s.number, a, a>>}]
          ELSE [s EXCEPT !.uncached = Append(s.uncached, a)]
  BY DEF ExactHit
<1>3. CASE a \in ToSet(s.lru)
  <2>1. PICK c : c = Fill(s.cache, a)
    OBVIOUS
  <2>2. PICK l : l = MoveToEnd(s.lru, a)
    OBVIOUS
  <2>3. PICK f : f = s.found \cup {<<s.number, a, a>>}
    OBVIOUS
  <2>4. /\ c \in AliasCache /\ Aliased(s.cache) \subseteq Aliased(c) /\ l \in ExactCache
        /\ ToSet(l) = ToSet(s.lru) /\ f \in SUBSET (Nat \X Arcs \X Arcs)
    BY <1>1, <1>3, <2>1, <2>2, <2>3, AliasFilled, ExactMoved
  <2>5. t = [s EXCEPT !.cache = c, !.lru = l, !.found = f]
    BY <1>2, <1>3, <2>1, <2>2, <2>3
  <2>6. /\ t \in Replay /\ t.number = s.number /\ t.queried = s.queried /\ t.cache = c
        /\ t.lru = l /\ t.found = f /\ t.uncached = s.uncached
    BY <1>1, <2>4, <2>5 DEF Replay
  <2>7. QED
    BY <1>3, <2>1, <2>2, <2>3, <2>4, <2>6
<1>4. CASE a \notin ToSet(s.lru)
  <2>1. PICK u : u = Append(s.uncached, a)
    OBVIOUS
  <2>2. u \in Seq(Arcs)
    BY <1>1, <2>1, AppendProperties
  <2>3. t = [s EXCEPT !.uncached = u]
    BY <1>2, <1>4, <2>1
  <2>4. /\ t \in Replay /\ t.number = s.number /\ t.queried = s.queried /\ t.cache = s.cache
        /\ t.lru = s.lru /\ t.found = s.found /\ t.uncached = u
    BY <1>1, <2>2, <2>3 DEF Replay
  <2>5. QED
    BY <1>4, <2>1, <2>4
<1>5. QED
  BY <1>3, <1>4

AskedRow(unroutable, a, s, t) ==
  /\ t \in Replay /\ t.number = s.number /\ t.queried = s.queried \cup {a}
  /\ t.uncached = s.uncached
  /\ IF a \in unroutable
     THEN t.cache = s.cache /\ t.lru = s.lru /\ t.found = s.found
     ELSE /\ t.cache = Fill(s.cache, a) /\ t.lru = KeepLast(s.lru, CacheSize, a)
          /\ t.found = s.found \cup {<<s.number, a, a>>}

LEMMA AskedDoes ==
  ASSUME NEW unroutable, NEW a \in Arcs, NEW s \in Replay
  PROVE  AskedRow(unroutable, a, s, Asked(unroutable)[a][s])
<1> PICK t : t = Asked(unroutable)[a][s]
  OBVIOUS
<1> SUFFICES AskedRow(unroutable, a, s, t)
  OBVIOUS
<1> USE DEF AskedRow
<1>1. /\ s.cache \in AliasCache /\ s.lru \in ExactCache /\ s.number \in Nat
      /\ s.found \in SUBSET (Nat \X Arcs \X Arcs) /\ s.uncached \in Seq(Arcs)
      /\ s.queried \in SUBSET Arcs
  BY DEF Replay
<1>2. PICK q : q = s.queried \cup {a}
  OBVIOUS
<1>3. q \in SUBSET Arcs
  BY <1>1, <1>2
<1>4. PICK c : c = Fill(s.cache, a)
  OBVIOUS
<1>5. PICK l : l = KeepLast(s.lru, CacheSize, a)
  OBVIOUS
<1>6. PICK f : f = s.found \cup {<<s.number, a, a>>}
  OBVIOUS
<1>7. c \in AliasCache /\ l \in ExactCache /\ f \in SUBSET (Nat \X Arcs \X Arcs)
  BY <1>1, <1>4, <1>5, <1>6, AliasFilled, ExactKept
<1>8. t = IF a \in unroutable THEN [s EXCEPT !.queried = q]
          ELSE [s EXCEPT !.queried = q, !.cache = c, !.lru = l, !.found = f]
  BY <1>2, <1>4, <1>5, <1>6 DEF Asked
<1>9. /\ t \in Replay /\ t.number = s.number /\ t.queried = q /\ t.uncached = s.uncached
      /\ IF a \in unroutable
         THEN t.cache = s.cache /\ t.lru = s.lru /\ t.found = s.found
         ELSE t.cache = c /\ t.lru = l /\ t.found = f
  BY <1>1, <1>3, <1>7, <1>8 DEF Replay
<1>10. QED
  BY <1>2, <1>4, <1>5, <1>6, <1>9

LEMMA BatchHits ==
  ASSUME NEW s \in Replay, NEW batch \in Seq(Arcs)
  PROVE  /\ Hits(s.number + 1, s.cache, batch) \in SUBSET (Nat \X Arcs \X Arcs)
         /\ \A a \in ToSet(batch) \cap Aliased(s.cache) :
              \E e \in Arcs : <<s.number + 1, a, e>> \in Hits(s.number + 1, s.cache, batch)
<1>1. ASSUME NEW a \in ToSet(batch) \cap Aliased(s.cache)
      PROVE  a \in Arcs /\ s.cache[Alias[a]] \in Arcs
  BY EpochAssumption DEF Aliased, AliasCache, Replay
<1>2. s.number + 1 \in Nat
  BY DEF Replay
<1>3. QED
  BY <1>1, <1>2 DEF Hits

LEMMA OpenedDoes ==
  ASSUME NEW s \in Replay, NEW batch \in Seq(Arcs), NEW t, t = Opened(s, batch)
  PROVE  /\ t \in Replay /\ t.number = s.number + 1 /\ t.uncached = <<>>
         /\ t.found = s.found \cup Hits(s.number + 1, s.cache, batch)
         /\ t.queried = s.queried /\ t.lru = s.lru /\ t.cache = s.cache
<1>1. PICK f : f = s.found \cup Hits(s.number + 1, s.cache, batch)
  OBVIOUS
<1>2. s.number + 1 \in Nat /\ <<>> \in Seq(Arcs) /\ f \in SUBSET (Nat \X Arcs \X Arcs)
  BY <1>1, BatchHits, EmptySeq DEF Replay
<1>3. t = [s EXCEPT !.number = s.number + 1, !.uncached = <<>>, !.found = f]
  BY <1>1 DEF Opened
<1>4. QED
  BY <1>1, <1>2, <1>3 DEF Replay

(* A batch looked up: every arc was found or is left to be asked for.      *)
FoundOrLeft(s, batch, t) ==
  /\ t \in Replay /\ t.number = s.number + 1 /\ t.queried = s.queried
  /\ ToSet(t.lru) = ToSet(s.lru) /\ Aliased(s.cache) \subseteq Aliased(t.cache)
  /\ s.found \subseteq t.found
  /\ ToSet(t.uncached) \subseteq ToSet(batch) \ Aliased(s.cache)
  /\ \A a \in ToSet(batch) :
       a \in ToSet(t.uncached) \/ \E e \in Arcs : <<t.number, a, e>> \in t.found

LEMMA LookedUpDoes ==
  ASSUME NEW s \in Replay, NEW batch \in Seq(Arcs), NEW t, t = LookedUp(s, batch)
  PROVE  FoundOrLeft(s, batch, t)
<1>1. /\ s.cache \in AliasCache /\ s.lru \in ExactCache /\ s.number \in Nat
      /\ s.found \in SUBSET (Nat \X Arcs \X Arcs) /\ s.uncached \in Seq(Arcs)
      /\ s.queried \in SUBSET Arcs
  BY DEF Replay
<1>2. PICK direct : direct = Hits(s.number + 1, s.cache, batch)
  OBVIOUS
<1>3. /\ direct \in SUBSET (Nat \X Arcs \X Arcs)
      /\ \A a \in ToSet(batch) \cap Aliased(s.cache) :
           \E e \in Arcs : <<s.number + 1, a, e>> \in direct
  BY <1>2, BatchHits
<1>4. PICK misses : misses = Misses(s.cache, batch)
  OBVIOUS
<1>5. misses \in Seq(Arcs) /\ ToSet(misses) = ToSet(batch) \ Aliased(s.cache)
  BY <1>4, WithoutFacts DEF Misses
<1>6. PICK begin : begin = Opened(s, batch)
  OBVIOUS
<1>7. /\ begin \in Replay /\ begin.number = s.number + 1 /\ begin.uncached = <<>>
      /\ begin.found = s.found \cup direct /\ begin.queried = s.queried
      /\ begin.lru = s.lru /\ begin.cache = s.cache
  BY <1>2, <1>6, OpenedDoes
<1>8. t = After(ExactHit, begin, misses)
  BY <1>4, <1>6 DEF LookedUp
<1>9. PICK m : m = Len(misses)
  OBVIOUS
<1>10. m \in Nat /\ DOMAIN misses = 1..m /\ \A i \in 1..m : misses[i] \in Arcs
  BY <1>5, <1>9, LenProperties, ElementOfSeq
<1> DEFINE Taken(n, u) ==
             \A i \in 1..n : \/ misses[i] \in ToSet(u.uncached)
                             \/ <<u.number, misses[i], misses[i]>> \in u.found
           Good == {nu \in (0..m) \X Replay :
                      /\ nu[2].number = begin.number /\ nu[2].queried = s.queried
                      /\ ToSet(nu[2].lru) = ToSet(s.lru)
                      /\ Aliased(s.cache) \subseteq Aliased(nu[2].cache)
                      /\ begin.found \subseteq nu[2].found
                      /\ ToSet(nu[2].uncached) \subseteq ToSet(misses)
                      /\ Taken(nu[1], nu[2])}
<1>11. <<0, begin>> \in Good
  <2>1. 0 \in 0..m /\ 1..0 = {}
    BY <1>10
  <2>2. QED
    BY <1>7, <2>1, SetOfEmpty
<1>12. ASSUME NEW n \in 1..m, NEW u, <<n - 1, u>> \in Good
       PROVE  <<n, ExactHit[misses[n]][u]>> \in Good
  <2>1. /\ n \in 0..m /\ n - 1 \in 0..m /\ \A i \in 1..n : i # n => i \in 1..(n - 1)
    BY <1>10
  <2>2. PICK a \in Arcs : a = misses[n] /\ a \in ToSet(misses)
    BY <1>10 DEF ToSet
  <2>3. /\ u \in Replay /\ u.number = begin.number /\ u.queried = s.queried
        /\ ToSet(u.lru) = ToSet(s.lru) /\ Aliased(s.cache) \subseteq Aliased(u.cache)
        /\ begin.found \subseteq u.found /\ ToSet(u.uncached) \subseteq ToSet(misses)
        /\ Taken(n - 1, u)
    BY <1>12
  <2>4. PICK v : v = ExactHit[a][u]
    OBVIOUS
  <2>5. /\ v \in Replay /\ v.number = u.number /\ v.queried = u.queried
        /\ ToSet(v.lru) = ToSet(u.lru) /\ Aliased(u.cache) \subseteq Aliased(v.cache)
        /\ u.found \subseteq v.found
        /\ \/ v.uncached = u.uncached /\ <<u.number, a, a>> \in v.found
           \/ v.uncached = Append(u.uncached, a)
    <3>1. HitOrLeft(a, u, v)
      BY <2>2, <2>3, <2>4, ExactHitDoes
    <3>2. QED
      BY <3>1 DEF HitOrLeft
  <2>6. /\ ToSet(u.uncached) \subseteq ToSet(v.uncached)
        /\ ToSet(v.uncached) \subseteq ToSet(u.uncached) \cup {a}
        /\ a \in ToSet(v.uncached) \/ <<v.number, a, a>> \in v.found
    <3>1. CASE v.uncached = u.uncached /\ <<u.number, a, a>> \in v.found
      BY <2>5, <3>1
    <3>2. CASE v.uncached = Append(u.uncached, a)
      <4>1. u.uncached \in Seq(Arcs)
        BY <2>3 DEF Replay
      <4>2. ToSet(v.uncached) = ToSet(u.uncached) \cup {a}
        BY <3>2, <4>1, SetOfAppend
      <4>3. QED
        BY <4>2
    <3>3. QED
      BY <2>5, <3>1, <3>2
  <2>7. Taken(n, v)
    <3>1. ASSUME NEW i \in 1..n
          PROVE  \/ misses[i] \in ToSet(v.uncached)
                 \/ <<v.number, misses[i], misses[i]>> \in v.found
      BY <2>1, <2>2, <2>3, <2>5, <2>6
    <3>2. QED
      BY <3>1
  <2>8. ToSet(v.uncached) \subseteq ToSet(misses)
    BY <2>2, <2>3, <2>6
  <2>9. <<n, v>> \in Good
    <3> HIDE DEF Taken
    <3>1. QED
      BY <2>1, <2>3, <2>5, <2>7, <2>8
  <2>10. QED
    BY <2>2, <2>4, <2>9
<1>13. <<m, t>> \in Good
  <2> HIDE DEF Good
  <2>1. \A n \in 0..Len(misses) : <<n, Run(ExactHit, begin, misses)[n]>> \in Good
    BY <1>5, <1>9, <1>11, <1>12, RunKeeps
  <2>2. QED
    BY <1>8, <1>9, <1>10, <2>1 DEF After
<1>14. /\ t \in Replay /\ t.number = s.number + 1 /\ t.queried = s.queried
       /\ ToSet(t.lru) = ToSet(s.lru) /\ Aliased(s.cache) \subseteq Aliased(t.cache)
       /\ s.found \cup direct \subseteq t.found
       /\ ToSet(t.uncached) \subseteq ToSet(misses) /\ Taken(m, t)
  <2> HIDE DEF Taken
  <2>1. QED
    BY <1>7, <1>13
<1>15. ASSUME NEW a \in ToSet(batch)
       PROVE  a \in ToSet(t.uncached) \/ \E e \in Arcs : <<t.number, a, e>> \in t.found
  <2>1. CASE a \in Aliased(s.cache)
    BY <1>3, <1>14, <2>1
  <2>2. CASE a \notin Aliased(s.cache)
    <3>1. PICK i \in 1..m : misses[i] = a
      BY <1>5, <1>10, <2>2 DEF ToSet
    <3>2. QED
      BY <1>10, <1>14, <3>1
  <2>3. QED
    BY <2>1, <2>2
<1>16. QED
  BY <1>5, <1>14, <1>15 DEF FoundOrLeft

LEMMA SettledDoes ==
  ASSUME NEW s \in Replay, NEW t, t = Settled(s)
  PROVE  /\ t \in Replay /\ t.uncached = <<>> /\ t.cache = s.cache /\ t.lru = s.lru
         /\ t.number = s.number /\ t.found = s.found /\ t.queried = s.queried
<1>1. <<>> \in Seq(Arcs)
  BY EmptySeq
<1>2. QED
  BY <1>1 DEF Settled, Replay

(* Rows asked for, one after another.                                      *)
LEMMA AllAsked ==
  ASSUME NEW unroutable, NEW s \in Replay, NEW list \in Seq(Arcs),
         NEW t, t = After(Asked(unroutable), s, list)
  PROVE  /\ t \in Replay /\ t.number = s.number /\ t.uncached = s.uncached
         /\ s.queried \cup ToSet(list) \subseteq t.queried
<1>1. PICK m : m = Len(list)
  OBVIOUS
<1>2. m \in Nat /\ DOMAIN list = 1..m /\ \A i \in 1..m : list[i] \in Arcs
  BY <1>1, LenProperties, ElementOfSeq
<1> DEFINE Good == {nu \in (0..m) \X Replay :
                      /\ nu[2].number = s.number /\ nu[2].uncached = s.uncached
                      /\ s.queried \subseteq nu[2].queried
                      /\ \A i \in 1..nu[1] : list[i] \in nu[2].queried}
<1>3. <<0, s>> \in Good
  <2>1. 0 \in 0..m /\ 1..0 = {}
    BY <1>2
  <2>2. QED
    BY <2>1
<1>4. ASSUME NEW n \in 1..m, NEW u, <<n - 1, u>> \in Good
      PROVE  <<n, Asked(unroutable)[list[n]][u]>> \in Good
  <2>1. n \in 0..m /\ \A i \in 1..n : i # n => i \in 1..(n - 1)
    BY <1>2
  <2>2. PICK v : v = Asked(unroutable)[list[n]][u]
    OBVIOUS
  <2>3. /\ u \in Replay /\ u.number = s.number /\ u.uncached = s.uncached
        /\ s.queried \subseteq u.queried /\ \A i \in 1..(n - 1) : list[i] \in u.queried
    BY <1>4
  <2>4. /\ v \in Replay /\ v.number = u.number /\ v.uncached = u.uncached
        /\ v.queried = u.queried \cup {list[n]}
    <3>1. AskedRow(unroutable, list[n], u, v)
      BY <1>2, <2>2, <2>3, AskedDoes
    <3>2. QED
      BY <3>1 DEF AskedRow
  <2>5. \A i \in 1..n : list[i] \in v.queried
    BY <2>1, <2>3, <2>4
  <2>6. <<n, v>> \in Good
    BY <2>1, <2>3, <2>4, <2>5
  <2>7. QED
    BY <2>2, <2>6
<1>5. <<m, t>> \in Good
  <2> HIDE DEF Good
  <2>1. \A n \in 0..Len(list) : <<n, Run(Asked(unroutable), s, list)[n]>> \in Good
    BY <1>1, <1>3, <1>4, RunKeeps
  <2>2. QED
    BY <1>1, <1>2, <2>1 DEF After
<1>6. QED
  BY <1>2, <1>5 DEF ToSet

LEMMA BatchDoes ==
  ASSUME NEW unroutable, NEW s \in Replay, NEW batch \in Seq(Arcs),
         NEW t, t = Sequentially(unroutable)[batch][s]
  PROVE  /\ t \in Replay /\ t.number = s.number + 1 /\ t.uncached = <<>>
         /\ s.queried \subseteq t.queried
         /\ t = After(Asked(unroutable), Settled(LookedUp(s, batch)), LookedUp(s, batch).uncached)
<1>1. PICK hit : hit = LookedUp(s, batch)
  OBVIOUS
<1>2. hit \in Replay /\ hit.number = s.number + 1 /\ hit.queried = s.queried
  BY <1>1, LookedUpDoes DEF FoundOrLeft
<1>3. PICK settled : settled = Settled(hit)
  OBVIOUS
<1>4. /\ settled \in Replay /\ settled.uncached = <<>> /\ settled.number = s.number + 1
      /\ settled.queried = s.queried
  BY <1>2, <1>3, SettledDoes
<1>5. t = After(Asked(unroutable), settled, hit.uncached)
  BY <1>1, <1>3 DEF Sequentially
<1>6. hit.uncached \in Seq(Arcs)
  BY <1>2 DEF Replay
<1>7. QED
  BY <1>1, <1>3, <1>4, <1>5, <1>6, AllAsked

(* Batches answered one after another ask for more and more.               *)
LEMMA SequenceDoes ==
  ASSUME NEW unroutable, NEW start \in Replay, NEW list \in Seq(Seq(Arcs)),
         NEW run, run = Run(Sequentially(unroutable), start, list)
  PROVE  /\ run[0] = start
         /\ \A n \in 1..Len(list) : run[n] = Sequentially(unroutable)[list[n]][run[n - 1]]
         /\ \A n \in 0..Len(list) : /\ run[n] \in Replay
                                    /\ run[n].queried \subseteq run[Len(list)].queried
<1>1. PICK m : m = Len(list)
  OBVIOUS
<1>2. m \in Nat /\ \A i \in 1..m : list[i] \in Seq(Arcs)
  BY <1>1, LenProperties, ElementOfSeq
<1>3. /\ run[0] = start
      /\ \A n \in 1..m : run[n] = Sequentially(unroutable)[list[n]][run[n - 1]]
  <2>1. PICK step : step = Sequentially(unroutable)
    OBVIOUS
  <2>2. /\ Run(step, start, list)[0] = start
        /\ \A n \in 1..Len(list) :
             Run(step, start, list)[n] = step[list[n]][Run(step, start, list)[n - 1]]
    BY RunSteps
  <2>3. QED
    BY <1>1, <2>1, <2>2
<1> DEFINE Good == {nu \in (0..m) \X Replay :
                      /\ nu[2] = run[nu[1]]
                      /\ \A i \in 0..nu[1] : run[i].queried \subseteq nu[2].queried}
<1>4. <<0, start>> \in Good
  <2>1. 0 \in 0..m /\ 0..0 = {0}
    BY <1>2
  <2>2. QED
    BY <1>3, <2>1
<1>5. ASSUME NEW n \in 1..m, NEW u, <<n - 1, u>> \in Good
      PROVE  <<n, Sequentially(unroutable)[list[n]][u]>> \in Good
  <2>1. n \in 0..m /\ \A i \in 0..n : i # n => i \in 0..(n - 1)
    BY <1>2
  <2>2. PICK v : v = Sequentially(unroutable)[list[n]][u]
    OBVIOUS
  <2>3. /\ u \in Replay /\ u = run[n - 1]
        /\ \A i \in 0..(n - 1) : run[i].queried \subseteq u.queried
    BY <1>5
  <2>4. v \in Replay /\ u.queried \subseteq v.queried
    BY <1>2, <2>2, <2>3, BatchDoes
  <2>5. v = run[n]
    BY <1>3, <2>2, <2>3
  <2>6. \A i \in 0..n : run[i].queried \subseteq v.queried
    BY <2>1, <2>3, <2>4, <2>5
  <2>7. <<n, v>> \in Good
    BY <2>1, <2>4, <2>5, <2>6
  <2>8. QED
    BY <2>2, <2>7
<1>6. \A n \in 0..m : <<n, run[n]>> \in Good
  <2> HIDE DEF Good
  <2>1. \A n \in 0..Len(list) : <<n, Run(Sequentially(unroutable), start, list)[n]>> \in Good
    BY <1>1, <1>4, <1>5, RunKeeps
  <2>2. QED
    BY <1>1, <2>1
<1>7. m \in 0..m
  BY <1>2
<1>8. QED
  BY <1>1, <1>3, <1>6, <1>7

(* Two loops over the same sequence stay together as long as each step     *)
(* keeps them together.                                                    *)
LEMMA RunTogether ==
  ASSUME NEW K, NEW seq \in Seq(K), NEW step, NEW other, NEW start, NEW begin, NEW Pairs,
         <<start, begin>> \in Pairs,
         \A x \in K : \A s, t : <<s, t>> \in Pairs => <<step[x][s], other[x][t]>> \in Pairs
  PROVE  <<After(step, start, seq), After(other, begin, seq)>> \in Pairs
<1>1. PICK m : m = Len(seq)
  OBVIOUS
<1>2. m \in Nat /\ \A i \in 1..m : seq[i] \in K
  BY <1>1, LenProperties, ElementOfSeq
<1>3. PICK run : run = Run(other, begin, seq)
  OBVIOUS
<1>4. run[0] = begin /\ \A n \in 1..m : run[n] = other[seq[n]][run[n - 1]]
  BY <1>1, <1>3, RunSteps
<1>5. PICK first : first = Run(step, start, seq)
  OBVIOUS
<1>6. first[0] = start /\ \A n \in 1..m : first[n] = step[seq[n]][first[n - 1]]
  BY <1>1, <1>5, RunSteps
<1> DEFINE bad == {n \in 0..m : <<first[n], run[n]>> \notin Pairs}
<1>7. bad = {}
  <2> SUFFICES ASSUME bad # {} PROVE FALSE
    OBVIOUS
  <2>1. bad \in SUBSET Nat
    BY <1>2
  <2>2. PICK n \in bad : \A i \in bad : ~(i < n)
    BY <2>1, LeastElement
  <2>3. n # 0 /\ n \in 0..m /\ <<first[n], run[n]>> \notin Pairs
    BY <1>4, <1>6, <2>2
  <2>4. n \in 1..m /\ n - 1 \in 0..m /\ n - 1 < n
    BY <1>2, <2>3
  <2>5. <<first[n - 1], run[n - 1]>> \in Pairs
    BY <2>2, <2>4
  <2>6. <<step[seq[n]][first[n - 1]], other[seq[n]][run[n - 1]]>> \in Pairs
    BY <1>2, <2>4, <2>5
  <2>7. QED
    BY <1>4, <1>6, <2>3, <2>4, <2>6
<1>8. m \in 0..m
  BY <1>2
<1>9. <<first[m], run[m]>> \in Pairs
  BY <1>7, <1>8
<1>10. QED
  BY <1>1, <1>3, <1>5, <1>9 DEF After

(* The plan sees what sequential calls would see.                          *)
PlansFor(p, s) ==
  /\ p \in Plan /\ s \in Replay
  /\ p.cache = s.cache /\ p.uncached = s.uncached /\ p.needed = s.queried
  /\ Fits(p.shadow, s.lru) /\ p.shadow.capacity = CacheSize

LEMMA PlanHitFor ==
  ASSUME NEW a \in Arcs, NEW p, NEW s, PlansFor(p, s)
  PROVE  PlansFor(PlanHit[a][p], ExactHit[a][s])
<1>1. PICK t : t = ExactHit[a][s]
  OBVIOUS
<1>2. HitOrLeft(a, s, t) /\ p \in Plan /\ s \in Replay
  BY <1>1, ExactHitDoes DEF PlansFor
<1>3. PICK q : q = PlanHit[a][p]
  OBVIOUS
<1>4. q = IF Holds(p.shadow, a)
          THEN [p EXCEPT !.shadow = ShadowGet(p.shadow, a), !.cache = Fill(p.cache, a)]
          ELSE [p EXCEPT !.uncached = Append(p.uncached, a)]
  BY <1>2, <1>3 DEF PlanHit
<1>5. /\ p.cache \in AliasCache /\ p.shadow \in Shadows /\ p.uncached \in Seq(Arcs)
      /\ p.needed \in SUBSET Arcs
  BY <1>2 DEF Plan
<1>6. /\ p.cache = s.cache /\ p.uncached = s.uncached /\ p.needed = s.queried
      /\ Fits(p.shadow, s.lru) /\ p.shadow.capacity = CacheSize
  BY DEF PlansFor
<1>7. a \in RouteKeys /\ (Holds(p.shadow, a) <=> a \in ToSet(s.lru))
  BY <1>6, RealCache, EpochAssumption
<1>8. CASE Holds(p.shadow, a)
  <2>1. PICK shade : shade = ShadowGet(p.shadow, a)
    OBVIOUS
  <2>2. PICK c : c = Fill(p.cache, a)
    OBVIOUS
  <2>3. Fits(shade, MoveToEnd(s.lru, a)) /\ shade.capacity = CacheSize
    <3>1. Touch(s.lru, a) = MoveToEnd(s.lru, a)
      BY <1>7, <1>8 DEF Touch
    <3>2. QED
      BY <1>6, <1>7, <2>1, <3>1, LookedFits
  <2>4. shade \in Shadows /\ c \in AliasCache
    BY <1>5, <2>2, <2>3, AliasFilled DEF Fits
  <2>5. q = [p EXCEPT !.shadow = shade, !.cache = c]
    BY <1>4, <1>8, <2>1, <2>2
  <2>6. /\ q \in Plan /\ q.shadow = shade /\ q.cache = c /\ q.uncached = p.uncached
        /\ q.needed = p.needed
    BY <1>2, <1>5, <2>4, <2>5 DEF Plan
  <2>7. /\ t \in Replay /\ t.cache = Fill(s.cache, a) /\ t.lru = MoveToEnd(s.lru, a)
        /\ t.uncached = s.uncached /\ t.queried = s.queried
    BY <1>2, <1>7, <1>8 DEF HitOrLeft
  <2>8. PlansFor(q, t)
    BY <1>6, <2>2, <2>3, <2>6, <2>7 DEF PlansFor
  <2>9. QED
    BY <1>1, <1>3, <2>8
<1>9. CASE ~Holds(p.shadow, a)
  <2>1. PICK left : left = Append(p.uncached, a)
    OBVIOUS
  <2>2. left \in Seq(Arcs)
    BY <1>5, <2>1, AppendProperties
  <2>3. q = [p EXCEPT !.uncached = left]
    BY <1>4, <1>9, <2>1
  <2>4. /\ q \in Plan /\ q.shadow = p.shadow /\ q.cache = p.cache /\ q.uncached = left
        /\ q.needed = p.needed
    BY <1>2, <1>5, <2>2, <2>3 DEF Plan
  <2>5. /\ t \in Replay /\ t.cache = s.cache /\ t.lru = s.lru
        /\ t.uncached = Append(s.uncached, a) /\ t.queried = s.queried
    BY <1>2, <1>7, <1>9 DEF HitOrLeft
  <2>6. PlansFor(q, t)
    BY <1>6, <2>1, <2>4, <2>5 DEF PlansFor
  <2>7. QED
    BY <1>1, <1>3, <2>6
<1>10. QED
  BY <1>8, <1>9

LEMMA PlanMissFor ==
  ASSUME NEW a \in Arcs, NEW p, NEW s, PlansFor(p, s)
  PROVE  PlansFor(PlanMiss[a][p], Asked({})[a][s])
<1>1. PICK t : t = Asked({})[a][s]
  OBVIOUS
<1>2. p \in Plan /\ s \in Replay
  BY DEF PlansFor
<1>3. /\ t \in Replay /\ t.queried = s.queried \cup {a} /\ t.uncached = s.uncached
      /\ t.cache = Fill(s.cache, a) /\ t.lru = KeepLast(s.lru, CacheSize, a)
  <2>1. AskedRow({}, a, s, t)
    BY <1>1, <1>2, AskedDoes
  <2>2. QED
    BY <2>1 DEF AskedRow
<1>4. PICK q : q = PlanMiss[a][p]
  OBVIOUS
<1>5. PICK shade : shade = ShadowPut(p.shadow, a)
  OBVIOUS
<1>6. PICK c : c = Fill(p.cache, a)
  OBVIOUS
<1>7. PICK wanted : wanted = p.needed \cup {a}
  OBVIOUS
<1>8. q = [p EXCEPT !.shadow = shade, !.cache = c, !.needed = wanted]
  BY <1>2, <1>4, <1>5, <1>6, <1>7 DEF PlanMiss
<1>9. /\ p.cache \in AliasCache /\ p.shadow \in Shadows /\ p.uncached \in Seq(Arcs)
      /\ p.needed \in SUBSET Arcs
  BY <1>2 DEF Plan
<1>10. /\ p.cache = s.cache /\ p.uncached = s.uncached /\ p.needed = s.queried
       /\ Fits(p.shadow, s.lru) /\ p.shadow.capacity = CacheSize
  BY DEF PlansFor
<1>11. Fits(shade, KeepLast(s.lru, CacheSize, a)) /\ shade.capacity = CacheSize
  <2>1. a \in RouteKeys
    BY EpochAssumption
  <2>2. QED
    BY <1>5, <1>10, <2>1, FilledFits
<1>12. shade \in Shadows /\ c \in AliasCache /\ wanted \in SUBSET Arcs
  BY <1>6, <1>7, <1>9, <1>11, AliasFilled DEF Fits
<1>13. /\ q \in Plan /\ q.shadow = shade /\ q.cache = c /\ q.uncached = p.uncached
       /\ q.needed = wanted
  BY <1>2, <1>8, <1>9, <1>12 DEF Plan
<1>14. PlansFor(q, t)
  BY <1>3, <1>6, <1>7, <1>10, <1>11, <1>13 DEF PlansFor
<1>15. QED
  BY <1>1, <1>4, <1>14

LEMMA PlanBatchFor ==
  ASSUME NEW batch \in Seq(Arcs), NEW p, NEW s, PlansFor(p, s)
  PROVE  PlansFor(PlanBatch[batch][p], Sequentially({})[batch][s])
<1> DEFINE Pairs == {ps \in Plan \X Replay : PlansFor(ps[1], ps[2])}
<1>1. \A q, t : <<q, t>> \in Pairs <=> PlansFor(q, t)
  BY DEF PlansFor
<1>2. /\ p \in Plan /\ s \in Replay /\ <<>> \in Seq(Arcs)
      /\ p.cache = s.cache /\ p.uncached = s.uncached /\ p.needed = s.queried
      /\ Fits(p.shadow, s.lru) /\ p.shadow.capacity = CacheSize
  BY EmptySeq DEF PlansFor
<1>3. PICK misses : misses = Misses(s.cache, batch)
  OBVIOUS
<1>4. misses \in Seq(Arcs)
  BY <1>3, WithoutFacts DEF Misses
<1>5. PICK begin : begin = Opened(s, batch)
  OBVIOUS
<1>6. /\ begin \in Replay /\ begin.uncached = <<>> /\ begin.queried = s.queried
      /\ begin.lru = s.lru /\ begin.cache = s.cache
  BY <1>2, <1>5, OpenedDoes
<1>7. PICK start : start = [p EXCEPT !.uncached = <<>>]
  OBVIOUS
<1>8. PlansFor(start, begin)
  <2>1. /\ start \in Plan /\ start.uncached = <<>> /\ start.cache = p.cache
        /\ start.needed = p.needed /\ start.shadow = p.shadow
    BY <1>2, <1>7 DEF Plan
  <2>2. QED
    BY <1>2, <1>6, <2>1 DEF PlansFor
<1>9. PICK plan : plan = After(PlanHit, start, misses)
  OBVIOUS
<1>10. PICK hit : hit = LookedUp(s, batch)
  OBVIOUS
<1>11. hit = After(ExactHit, begin, misses)
  BY <1>3, <1>5, <1>10 DEF LookedUp
<1>12. PlansFor(plan, hit)
  <2> HIDE DEF Pairs
  <2>1. <<start, begin>> \in Pairs
    BY <1>1, <1>8
  <2>2. ASSUME NEW x \in Arcs, NEW q, NEW t, <<q, t>> \in Pairs
        PROVE  <<PlanHit[x][q], ExactHit[x][t]>> \in Pairs
    BY <1>1, <2>2, PlanHitFor
  <2>3. <<plan, hit>> \in Pairs
    BY <1>4, <1>9, <1>11, <2>1, <2>2, RunTogether
  <2>4. QED
    BY <1>1, <2>3
<1>13. /\ plan \in Plan /\ hit \in Replay /\ plan.uncached = hit.uncached
       /\ hit.uncached \in Seq(Arcs)
  BY <1>12 DEF PlansFor, Replay
<1>14. PICK next : next = [plan EXCEPT !.uncached = <<>>]
  OBVIOUS
<1>15. PICK settled : settled = Settled(hit)
  OBVIOUS
<1>16. PlansFor(next, settled)
  <2>1. /\ next \in Plan /\ next.uncached = <<>> /\ next.cache = plan.cache
        /\ next.needed = plan.needed /\ next.shadow = plan.shadow
    BY <1>2, <1>13, <1>14 DEF Plan
  <2>2. /\ settled \in Replay /\ settled.uncached = <<>> /\ settled.cache = hit.cache
        /\ settled.lru = hit.lru /\ settled.queried = hit.queried
    BY <1>13, <1>15, SettledDoes
  <2>3. QED
    BY <1>12, <2>1, <2>2 DEF PlansFor
<1>17. PICK asking : asking = Asked({})
  OBVIOUS
<1>18. PlansFor(After(PlanMiss, next, hit.uncached), After(asking, settled, hit.uncached))
  <2> HIDE DEF Pairs
  <2>1. <<next, settled>> \in Pairs
    BY <1>1, <1>16
  <2>2. ASSUME NEW x \in Arcs, NEW q, NEW t, <<q, t>> \in Pairs
        PROVE  <<PlanMiss[x][q], asking[x][t]>> \in Pairs
    BY <1>1, <1>17, <2>2, PlanMissFor
  <2>3. <<After(PlanMiss, next, hit.uncached), After(asking, settled, hit.uncached)>> \in Pairs
    BY <1>13, <2>1, <2>2, RunTogether
  <2>4. QED
    BY <1>1, <2>3
<1>19. PlanBatch[batch][p] = After(PlanMiss, next, hit.uncached)
  <2>1. PlanBatch[batch][p] = After(PlanMiss, [plan EXCEPT !.uncached = <<>>], plan.uncached)
    BY <1>2, <1>3, <1>7, <1>9 DEF PlanBatch
  <2>2. QED
    BY <1>13, <1>14, <2>1
<1>20. Sequentially({})[batch][s] = After(asking, settled, hit.uncached)
  BY <1>2, <1>10, <1>15, <1>17 DEF Sequentially
<1>21. QED
  BY <1>18, <1>19, <1>20

(* The plan of the demand adapter (routing_v3.py:125-162): run on the      *)
(* simulated cache, without any answer, it names exactly the routes that   *)
(* sequential calls would ask for if every route could be computed.        *)
THEOREM PlanIsQueried ==
  ASSUME NEW s \in Replay, s.uncached = <<>>, s.queried = {}, NEW list \in Seq(Seq(Arcs))
  PROVE  DemandPlan(s.cache, s.lru, list) = After(Sequentially({}), s, list).queried
<1> DEFINE Pairs == {ps \in Plan \X Replay : PlansFor(ps[1], ps[2])}
<1>1. \A q, t : <<q, t>> \in Pairs <=> PlansFor(q, t)
  BY DEF PlansFor
<1>2. PICK shade : shade = Shadow(s.lru, CacheSize)
  OBVIOUS
<1>3. s.cache \in AliasCache /\ s.lru \in Seq(Arcs) /\ IsInjective(s.lru)
  BY DEF Replay, ExactCache
<1>4. s.lru \in Seq(RouteKeys)
  <2>1. Seq(Arcs) \subseteq Seq(RouteKeys)
    BY EpochAssumption
  <2>2. QED
    BY <1>3, <2>1
<1>5. Fits(shade, s.lru) /\ shade.capacity = CacheSize
  BY <1>2, <1>3, <1>4, ShadowOfFits, EpochAssumption
<1>6. PICK start : start = [cache |-> s.cache, shadow |-> shade, uncached |-> <<>>, needed |-> {}]
  OBVIOUS
<1>7. PlansFor(start, s)
  <2>1. shade \in Shadows /\ <<>> \in Seq(Arcs) /\ {} \in SUBSET Arcs
    BY <1>5, EmptySeq DEF Fits
  <2>2. /\ start \in Plan /\ start.cache = s.cache /\ start.shadow = shade
        /\ start.uncached = <<>> /\ start.needed = {}
    BY <1>3, <1>6, <2>1 DEF Plan
  <2>3. QED
    BY <1>5, <2>2 DEF PlansFor
<1>8. PICK step : step = Sequentially({})
  OBVIOUS
<1>9. PlansFor(After(PlanBatch, start, list), After(step, s, list))
  <2> HIDE DEF Pairs
  <2>1. <<start, s>> \in Pairs
    BY <1>1, <1>7
  <2>2. ASSUME NEW batch \in Seq(Arcs), NEW q, NEW t, <<q, t>> \in Pairs
        PROVE  <<PlanBatch[batch][q], step[batch][t]>> \in Pairs
    BY <1>1, <1>8, <2>2, PlanBatchFor
  <2>3. <<After(PlanBatch, start, list), After(step, s, list)>> \in Pairs
    BY <2>1, <2>2, RunTogether
  <2>4. QED
    BY <1>1, <2>3
<1>10. After(PlanBatch, start, list).needed = After(step, s, list).queried
  BY <1>9 DEF PlansFor
<1>11. QED
  BY <1>2, <1>6, <1>8, <1>10 DEF DemandPlan

LEMMA HeadAndTail ==
  ASSUME NEW K, NEW s \in Seq(K), s # <<>>
  PROVE  /\ Head(s) \in K /\ Tail(s) \in Seq(K)
         /\ ToSet(s) = ToSet(Tail(s)) \cup {Head(s)}
<1>1. PICK t : t = Tail(s)
  OBVIOUS
<1>2. PICK m : m = Len(s)
  OBVIOUS
<1>3. /\ Head(s) \in K /\ Head(s) = s[1] /\ t \in Seq(K) /\ Len(t) = m - 1 /\ m \in Nat \ {0}
      /\ DOMAIN s = 1..m /\ DOMAIN t = 1..(m - 1)
      /\ \A i \in 1..(m - 1) : t[i] = s[i + 1]
  BY <1>1, <1>2, HeadTailProperties, LenProperties, EmptySeq
<1>4. ASSUME NEW i \in 1..m PROVE s[i] \in ToSet(t) \cup {Head(s)}
  <2>1. CASE i = 1
    BY <1>3, <2>1
  <2>2. CASE i # 1
    <3>1. i - 1 \in 1..(m - 1) /\ (i - 1) + 1 = i
      BY <1>3, <2>2
    <3>2. s[i] = t[i - 1]
      BY <1>3, <3>1
    <3>3. QED
      BY <1>3, <3>1, <3>2 DEF ToSet
  <2>3. QED
    BY <2>1, <2>2
<1>5. ToSet(s) \subseteq ToSet(t) \cup {Head(s)}
  BY <1>3, <1>4 DEF ToSet
<1>6. ASSUME NEW i \in 1..(m - 1) PROVE t[i] \in ToSet(s)
  <2>1. i + 1 \in 1..m /\ t[i] = s[i + 1]
    BY <1>3
  <2>2. QED
    BY <1>3, <2>1 DEF ToSet
<1>7. ToSet(t) \subseteq ToSet(s)
  BY <1>3, <1>6 DEF ToSet
<1>8. 1 \in 1..m
  BY <1>3
<1>9. Head(s) \in ToSet(s)
  BY <1>3, <1>8 DEF ToSet
<1>10. QED
  BY <1>1, <1>3, <1>5, <1>7, <1>9

-----------------------------------------------------------------------------
(* The epoch.  What the replay has made of the batches so far is what      *)
(* sequential calls make of them, up to the rows it still has to answer.   *)
Begun == pc # "idle"
Sequence == Run(Sequentially(broken), before, batches)

AnswersAreTrue ==
  ~flaky => /\ (disk \cup ToSet(lru)) \cap broken = {}
            /\ \A a \in Arcs : /\ answers[a] = "ok" => a \notin broken
                               /\ answers[a] = "error" => a \in broken

InStep == Begun /\ ~flaky => After(Asked(broken), Now, rows) = Sequence[number]

(* What was planned is still to be asked for or has been answered.         *)
Expected(a) == a \in needed \/ ~Unanswered(a)

DemandsAsPlanned ==
  Begun /\ mode = "demand" /\ broken = {} /\ ~flaky =>
    /\ ~unplanned /\ needed \cup computed \subseteq Reference.queried
    /\ \A a \in Reference.queried : Expected(a)

QueuesAhead ==
  pc = "busy" /\ mode = "queue" =>
    /\ \A a \in ToSet(rows) : Expected(a)
    /\ \A n \in (number + 1)..Len(batches) : \A a \in ToSet(batches[n]) :
         a \in Aliased(cache) \/ Expected(a)

(* A failed query backs one reported failure, or none so far.              *)
FailuresAreBacked ==
  \A a \in Arcs :
    failures[a] + (IF answers[a] = "error" /\ a \notin consumed THEN 1 ELSE 0) <= queries[a]

Reported(n, a) == failures[a] > 0 \/ \E e \in Arcs : <<n, a, e>> \in found

NothingLeftOut ==
  Begun => \A n \in 1..number : \A a \in ToSet(batches[n]) :
    Reported(n, a) \/ (n = number /\ a \in ToSet(rows))

NothingLeft == Ended => number = Len(batches) /\ rows = <<>>

EpochInv ==
  /\ EpochTypeOK /\ AnswersAreTrue /\ InStep /\ DemandsAsPlanned /\ QueuesAhead
  /\ FailuresAreBacked /\ NothingLeftOut /\ NothingLeft

LEMMA NowIs ==
  ASSUME EpochTypeOK
  PROVE  /\ Now \in Replay /\ Now.cache = cache /\ Now.lru = lru /\ Now.number = number
         /\ Now.found = found /\ Now.uncached = <<>> /\ Now.queried = consumed
<1>1. /\ <<>> \in Seq(Arcs) /\ cache \in AliasCache /\ lru \in ExactCache /\ number \in Nat
      /\ found \in SUBSET (Nat \X Arcs \X Arcs) /\ consumed \in SUBSET Arcs
  BY EmptySeq DEF EpochTypeOK
<1>2. QED
  BY <1>1 DEF Now, Replay

LEMMA ReferenceIs ==
  ASSUME EpochTypeOK
  PROVE  /\ Reference = Sequence[Len(batches)] /\ Reference \in Replay
         /\ Reference.queried \subseteq Arcs
         /\ Sequence[number] \in Replay /\ Sequence[number].queried \subseteq Reference.queried
         /\ \A n \in 1..Len(batches) :
              Sequence[n] = Sequentially(broken)[batches[n]][Sequence[n - 1]]
<1>1. PICK b : b = before
  OBVIOUS
<1>2. PICK list : list = batches
  OBVIOUS
<1>3. PICK gone : gone = broken
  OBVIOUS
<1>4. b \in Replay /\ list \in Seq(Seq(Arcs)) /\ Len(list) \in Nat /\ number \in 0..Len(list)
  BY <1>1, <1>2, LenProperties DEF EpochTypeOK
<1>5. PICK run : run = Run(Sequentially(gone), b, list)
  OBVIOUS
<1>6. Sequence = run /\ Reference = run[Len(list)]
  BY <1>1, <1>2, <1>3, <1>5 DEF Sequence, Reference, After
<1>7. /\ \A n \in 1..Len(list) : run[n] = Sequentially(gone)[list[n]][run[n - 1]]
      /\ \A n \in 0..Len(list) : /\ run[n] \in Replay
                                 /\ run[n].queried \subseteq run[Len(list)].queried
  BY <1>4, <1>5, SequenceDoes
<1>8. Len(list) \in 0..Len(list)
  BY <1>4
<1>9. run[Len(list)] \in Replay /\ run[Len(list)].queried \subseteq Arcs
  BY <1>7, <1>8 DEF Replay
<1>10. QED
  BY <1>2, <1>3, <1>4, <1>6, <1>7, <1>9

LEMMA ArcsOfRows ==
  ASSUME EpochTypeOK
  PROVE  /\ ToSet(rows) \subseteq Arcs
         /\ \A n \in 1..Len(batches) : batches[n] \in Seq(Arcs) /\ ToSet(batches[n]) \subseteq Arcs
         /\ \A n \in (number + 1)..Len(batches) : ToSet(batches[n]) \subseteq Arcs
<1>1. rows \in Seq(Arcs) /\ batches \in Seq(Seq(Arcs)) /\ number \in 0..Len(batches)
  BY DEF EpochTypeOK
<1>2. ToSet(rows) \subseteq Arcs
  BY <1>1, SetOfSeq
<1>3. \A n \in 1..Len(batches) : batches[n] \in Seq(Arcs)
  BY <1>1, LenProperties, ElementOfSeq
<1>4. \A n \in 1..Len(batches) : ToSet(batches[n]) \subseteq Arcs
  BY <1>3, SetOfSeq
<1>5. Len(batches) \in Nat /\ \A n \in (number + 1)..Len(batches) : n \in 1..Len(batches)
  BY <1>1, LenProperties
<1>6. QED
  BY <1>2, <1>3, <1>4, <1>5

LEMMA ArcsBegun ==
  ASSUME EpochTypeOK, NEW n \in 1..number
  PROVE  ToSet(batches[n]) \subseteq Arcs
<1>1. number \in 0..Len(batches) /\ Len(batches) \in Nat
  BY LenProperties DEF EpochTypeOK
<1>2. n \in 1..Len(batches)
  BY <1>1
<1>3. QED
  BY <1>2, ArcsOfRows

LEMMA ErrorCounted ==
  ASSUME NEW counter \in [Arcs -> Nat], NEW a \in Arcs, NEW outcome,
         NEW t, t = Counted(counter, a, outcome)
  PROVE  /\ t \in [Arcs -> Nat]
         /\ \A c \in Arcs : t[c] = IF c = a /\ outcome = "error" THEN counter[c] + 1 ELSE counter[c]
<1>1. CASE outcome = "error"
  <2>1. t = [counter EXCEPT ![a] = counter[a] + 1]
    BY <1>1 DEF Counted
  <2>2. QED
    BY <1>1, <2>1
<1>2. CASE outcome # "error"
  <2>1. t = counter
    BY <1>2 DEF Counted
  <2>2. QED
    BY <1>2, <2>1
<1>3. QED
  BY <1>1, <1>2

LEMMA EpochBegins == EpochInit => EpochInv
<1> SUFFICES ASSUME EpochInit PROVE EpochInv
  OBVIOUS
<1>1. /\ <<>> \in Seq(Arcs) /\ <<>> \in Seq(Seq(Arcs)) /\ Len(<<>>) = 0 /\ ToSet(<<>>) = {}
      /\ IsInjective(<<>>)
  BY EmptySeq, SetOfEmpty DEF IsInjective
<1>2. <<>> \in ExactCache
  BY <1>1, EpochAssumption DEF ExactCache
<1>3. [x \in Aliases |-> NoArc] \in AliasCache
  BY DEF AliasCache
<1>4. Zero \in [Arcs -> Nat] /\ \A a \in Arcs : Zero[a] = 0
  BY DEF Zero
<1>5. before \in Replay
  BY <1>1, <1>2, <1>3 DEF EpochInit, Now, Replay
<1>6. EpochTypeOK
  <2>1. /\ mode \in Modes /\ broken \subseteq Arcs /\ flaky \in BOOLEAN /\ disk \subseteq Arcs
        /\ cache \in AliasCache /\ lru \in ExactCache
    BY <1>2, <1>3, EpochAssumption DEF EpochInit
  <2>2. /\ pc \in Pc /\ batches \in Seq(Seq(Arcs)) /\ number \in 0..Len(batches)
    BY <1>1 DEF EpochInit, Pc
  <2>3. /\ answers \in [Arcs -> {"none", "ok", "error"}] /\ needed \subseteq Arcs
        /\ computed \subseteq Arcs /\ consumed \subseteq Arcs /\ rows \in Seq(Arcs)
        /\ found \subseteq Nat \X Arcs \X Arcs
        /\ queries \in [Arcs -> Nat] /\ failures \in [Arcs -> Nat] /\ unplanned \in BOOLEAN
    BY <1>1, <1>4 DEF EpochInit
  <2>4. QED
    BY <1>5, <2>1, <2>2, <2>3 DEF EpochTypeOK
<1>7. AnswersAreTrue
  BY <1>1 DEF EpochInit, AnswersAreTrue
<1>8. FailuresAreBacked
  <2>1. ASSUME NEW a \in Arcs PROVE answers[a] # "error" /\ failures[a] = 0 /\ queries[a] = 0
    BY <1>4 DEF EpochInit
  <2>2. QED
    BY <2>1 DEF FailuresAreBacked
<1>9. InStep /\ DemandsAsPlanned /\ QueuesAhead /\ NothingLeftOut /\ NothingLeft
  BY DEF EpochInit, InStep, DemandsAsPlanned, QueuesAhead, NothingLeftOut, NothingLeft, Begun,
         Ended
<1>10. QED
  BY <1>6, <1>7, <1>8, <1>9 DEF EpochInv

(* The plan is what sequential calls would ask for, or every arc without   *)
(* an alias; what the caches know of it is answered.                       *)
LEMMA StartKeeps == EpochInv /\ Start => EpochInv'
<1> SUFFICES ASSUME EpochInv, Start PROVE EpochInv'
  OBVIOUS
<1> PICK list \in Batches, onDisk \in SUBSET disk :
       LET wanted == IF mode = "demand" THEN DemandPlan(cache, lru, list)
                     ELSE QueuePlan(cache, list)
           inMemory == IF mode = "queue" THEN ToSet(lru) ELSE {}
           known == wanted \cap (onDisk \cup inMemory)
       IN /\ batches' = list
          /\ needed' = wanted \ known
          /\ answers' = [a \in Arcs |-> IF a \in known THEN "ok" ELSE "none"]
  BY DEF Start
<1>1. PICK wanted : wanted = IF mode = "demand" THEN DemandPlan(cache, lru, list)
                             ELSE QueuePlan(cache, list)
  OBVIOUS
<1>2. PICK known : /\ known \subseteq wanted \cap (disk \cup ToSet(lru))
                   /\ batches' = list /\ needed' = wanted \ known
                   /\ answers' = [a \in Arcs |-> IF a \in known THEN "ok" ELSE "none"]
  BY <1>1
<1>3. /\ mode' = mode /\ broken' = broken /\ flaky' = flaky /\ cache' = cache /\ lru' = lru
      /\ disk' = disk /\ pc' = "busy" /\ number' = 0 /\ computed' = {} /\ consumed' = {}
      /\ rows' = <<>> /\ found' = {} /\ queries' = Zero /\ failures' = Zero
      /\ unplanned' = FALSE /\ before' = Now'
  BY DEF Start, caches
<1>4. /\ <<>> \in Seq(Arcs) /\ ToSet(<<>>) = {} /\ list \in Seq(Seq(Arcs)) /\ Len(list) \in Nat
      /\ DOMAIN list = 1..Len(list) /\ \A n \in 1..Len(list) : list[n] \in Seq(Arcs)
  BY EmptySeq, SetOfEmpty, EpochAssumption, LenProperties, ElementOfSeq
<1>5. PICK b : b = before'
  OBVIOUS
<1>6. /\ b \in Replay /\ b.cache = cache /\ b.lru = lru /\ b.uncached = <<>> /\ b.queried = {}
      /\ b = Now'
  <2>1. cache \in AliasCache /\ lru \in ExactCache
    BY DEF EpochInv, EpochTypeOK
  <2>2. b = [cache |-> cache, lru |-> lru, number |-> 0, found |-> {}, uncached |-> <<>>,
             queried |-> {}]
    BY <1>3, <1>5 DEF Now
  <2>3. QED
    BY <1>3, <1>4, <1>5, <2>1, <2>2 DEF Replay
<1>7. PICK run : run = Run(Sequentially(broken), b, list)
  OBVIOUS
<1>8. Sequence' = run /\ Reference' = run[Len(list)] /\ run[0] = b
      /\ run[Len(list)] \in Replay
  <2>1. Sequence' = run
    BY <1>2, <1>3, <1>5, <1>7 DEF Sequence
  <2>2. Reference' = run[Len(list)]
    BY <1>2, <1>3, <1>5, <1>7 DEF Reference, After
  <2>3. Len(list) \in 0..Len(list)
    BY <1>4
  <2>4. QED
    BY <1>4, <1>6, <1>7, <2>1, <2>2, <2>3, SequenceDoes
<1>9. DemandPlan(cache, lru, list) = After(Sequentially({}), b, list).queried
  BY <1>4, <1>6, PlanIsQueried
<1>10. wanted \subseteq Arcs
  <2>1. CASE mode = "demand"
    <3>1. PICK r : r = Run(Sequentially({}), b, list)
      OBVIOUS
    <3>2. Len(list) \in 0..Len(list)
      BY <1>4
    <3>3. r[Len(list)] \in Replay
      BY <1>4, <1>6, <3>1, <3>2, SequenceDoes
    <3>4. After(Sequentially({}), b, list) \in Replay
      BY <3>1, <3>3 DEF After
    <3>5. QED
      BY <1>1, <1>9, <2>1, <3>4 DEF Replay
  <2>2. CASE mode # "demand"
    BY <1>1, <2>2 DEF QueuePlan
  <2>3. QED
    BY <2>1, <2>2
<1>11. Zero \in [Arcs -> Nat] /\ \A a \in Arcs : Zero[a] = 0
  BY DEF Zero
<1>12. EpochTypeOK'
  <2>1. 0 \in 0..Len(list)
    BY <1>4
  <2>2. known \subseteq Arcs /\ answers' \in [Arcs -> {"none", "ok", "error"}]
    BY <1>2, <1>10
  <2>3. QED
    BY <1>2, <1>3, <1>4, <1>5, <1>6, <1>10, <1>11, <2>1, <2>2 DEF EpochInv, EpochTypeOK, Pc
<1>13. AnswersAreTrue'
  <2>1. \A a \in Arcs : answers'[a] # "error" /\ (answers'[a] = "ok" => a \in known)
    BY <1>2
  <2>2. QED
    BY <1>2, <1>3, <2>1 DEF EpochInv, AnswersAreTrue
<1>14. InStep'
  <2>1. After(Asked(broken), b, <<>>) = b
    BY AfterNothing
  <2>2. QED
    BY <1>3, <1>6, <1>8, <2>1 DEF InStep
<1>15. \A a \in wanted : Expected(a)'
  BY <1>2, <1>10 DEF Expected, Unanswered
<1>16. DemandsAsPlanned'
  <2>1. ASSUME mode = "demand", broken = {} PROVE Reference'.queried = wanted
    <3>1. After(Sequentially({}), b, list) = Reference'
      BY <1>7, <1>8, <2>1 DEF After
    <3>2. QED
      BY <1>1, <1>9, <2>1, <3>1
  <2>2. needed' \cup computed' \subseteq wanted
    BY <1>2, <1>3
  <2>3. QED
    BY <1>3, <1>15, <2>1, <2>2 DEF DemandsAsPlanned
<1>17. QueuesAhead'
  <2>1. SUFFICES ASSUME mode = "queue", NEW n \in 1..Len(list), NEW a \in ToSet(list[n])
                 PROVE  a \in Aliased(cache) \/ Expected(a)'
    <3>1. 0 + 1 = 1
      OBVIOUS
    <3>2. QED
      BY <1>2, <1>3, <1>4, <3>1 DEF QueuesAhead
  <2>2. a \in wanted \/ a \in Aliased(cache)
    <3>1. wanted = QueuePlan(cache, list)
      BY <1>1, <2>1
    <3>2. n \in DOMAIN list /\ a \in Arcs
      BY <1>4, <2>1, SetOfSeq
    <3>3. QED
      BY <2>1, <3>1, <3>2 DEF QueuePlan
  <2>3. QED
    BY <1>15, <2>2
<1>18. FailuresAreBacked'
  <2>1. ASSUME NEW a \in Arcs
        PROVE  answers'[a] # "error" /\ failures'[a] = 0 /\ queries'[a] = 0
    BY <1>2, <1>3, <1>11
  <2>2. QED
    BY <2>1 DEF FailuresAreBacked
<1>19. NothingLeftOut' /\ NothingLeft'
  <2>1. 1..0 = {}
    OBVIOUS
  <2>2. QED
    BY <1>3, <2>1 DEF NothingLeftOut, NothingLeft, Ended
<1>20. QED
  BY <1>12, <1>13, <1>14, <1>16, <1>17, <1>18, <1>19 DEF EpochInv

LEMMA EvaluateKeeps == EpochInv /\ Evaluate => EpochInv'
<1> SUFFICES ASSUME EpochInv, Evaluate PROVE EpochInv'
  OBVIOUS
<1> PICK a \in needed : \E outcome \in Outcomes(a) :
        /\ answers' = [answers EXCEPT ![a] = outcome]
        /\ queries' = Counted(queries, a, outcome)
        /\ disk' = IF outcome = "ok" THEN disk \cup {a} ELSE disk
        /\ computed' = computed \cup {a}
        /\ needed' = needed \ {a}
  BY DEF Evaluate
<1>1. PICK outcome \in Outcomes(a) :
        /\ answers' = [answers EXCEPT ![a] = outcome]
        /\ queries' = Counted(queries, a, outcome)
        /\ disk' = IF outcome = "ok" THEN disk \cup {a} ELSE disk
        /\ computed' = computed \cup {a}
        /\ needed' = needed \ {a}
  OBVIOUS
<1>2. /\ mode' = mode /\ broken' = broken /\ flaky' = flaky /\ cache' = cache /\ lru' = lru
      /\ pc' = pc /\ pc = "busy" /\ batches' = batches /\ number' = number
      /\ consumed' = consumed /\ rows' = rows /\ found' = found /\ failures' = failures
      /\ unplanned' = unplanned /\ before' = before
  BY DEF Evaluate, caches, replay, fixed
<1>3. EpochTypeOK
  BY DEF EpochInv
<1>4. /\ a \in Arcs /\ outcome \in {"ok", "error"}
      /\ ~flaky => (outcome = "ok" <=> a \notin broken)
  BY <1>1, <1>3 DEF EpochTypeOK, Outcomes
<1>5. /\ queries' \in [Arcs -> Nat]
      /\ \A c \in Arcs : queries'[c] = IF c = a /\ outcome = "error" THEN queries[c] + 1
                                       ELSE queries[c]
  <2>1. PICK q : q = queries
    OBVIOUS
  <2>2. PICK t : t = Counted(q, a, outcome)
    OBVIOUS
  <2>3. q \in [Arcs -> Nat]
    BY <1>3, <2>1 DEF EpochTypeOK
  <2>4. /\ t \in [Arcs -> Nat]
        /\ \A c \in Arcs : t[c] = IF c = a /\ outcome = "error" THEN q[c] + 1 ELSE q[c]
    BY <1>4, <2>2, <2>3, ErrorCounted
  <2>5. queries' = t
    BY <1>1, <2>1, <2>2
  <2>6. QED
    BY <2>1, <2>4, <2>5
<1>6. EpochTypeOK'
  <2>1. /\ answers' \in [Arcs -> {"none", "ok", "error"}] /\ disk' \subseteq Arcs
        /\ computed' \subseteq Arcs /\ needed' \subseteq Arcs
    BY <1>1, <1>3, <1>4 DEF EpochTypeOK
  <2>2. QED
    BY <1>2, <1>3, <1>5, <2>1 DEF EpochTypeOK
<1>7. \A c \in Arcs : answers'[c] = IF c = a THEN outcome ELSE answers[c]
  BY <1>1, <1>3 DEF EpochTypeOK
<1>8. \A c \in Arcs : Expected(c) => Expected(c)'
  BY <1>1, <1>4, <1>7 DEF Expected, Unanswered
<1>9. AnswersAreTrue'
  <2>1. disk' \subseteq disk \cup {a} /\ (outcome = "error" => disk' = disk)
    BY <1>1, <1>4
  <2>2. QED
    BY <1>2, <1>4, <1>7, <2>1 DEF EpochInv, AnswersAreTrue
<1>10. Sequence' = Sequence /\ Reference' = Reference /\ Now' = Now
  BY <1>2 DEF Sequence, Reference, Now
<1>11. InStep'
  BY <1>2, <1>10 DEF EpochInv, InStep, Begun
<1>12. DemandsAsPlanned'
  <2>1. SUFFICES ASSUME mode = "demand", broken = {}, ~flaky
                 PROVE  /\ ~unplanned /\ needed' \cup computed' \subseteq Reference.queried
                        /\ \A c \in Reference.queried : Expected(c)'
    BY <1>2, <1>10 DEF DemandsAsPlanned, Begun
  <2>2. /\ ~unplanned /\ needed \cup computed \subseteq Reference.queried
        /\ \A c \in Reference.queried : Expected(c)
    BY <1>2, <2>1 DEF EpochInv, DemandsAsPlanned, Begun
  <2>3. Reference.queried \subseteq Arcs
    BY <1>3, ReferenceIs
  <2>4. QED
    BY <1>1, <1>8, <2>2, <2>3
<1>13. QueuesAhead'
  BY <1>2, <1>3, <1>8, ArcsOfRows DEF EpochInv, QueuesAhead
<1>14. FailuresAreBacked'
  <2>1. ASSUME NEW c \in Arcs
        PROVE  failures'[c] + (IF answers'[c] = "error" /\ c \notin consumed' THEN 1 ELSE 0)
                 <= queries'[c]
    <3>1. /\ failures[c] \in Nat /\ queries[c] \in Nat
          /\ failures[c] + (IF answers[c] = "error" /\ c \notin consumed THEN 1 ELSE 0) <= queries[c]
      BY <1>3 DEF EpochInv, EpochTypeOK, FailuresAreBacked
    <3>2. CASE c = a /\ outcome = "error"
      <4>1. queries'[c] = queries[c] + 1 /\ failures[c] <= queries[c]
        BY <1>5, <3>1, <3>2
      <4>2. QED
        BY <1>2, <3>1, <4>1
    <3>3. CASE ~(c = a /\ outcome = "error")
      <4>1. queries'[c] = queries[c] /\ (answers'[c] = "error" => answers[c] = "error")
        BY <1>5, <1>7, <3>1, <3>3
      <4>2. QED
        BY <1>2, <3>1, <4>1
    <3>4. QED
      BY <3>2, <3>3
  <2>2. QED
    BY <2>1 DEF FailuresAreBacked
<1>15. NothingLeftOut' /\ NothingLeft'
  BY <1>2 DEF EpochInv, NothingLeftOut, NothingLeft, Begun, Reported, Ended
<1>16. QED
  BY <1>6, <1>9, <1>11, <1>12, <1>13, <1>14, <1>15 DEF EpochInv

(* What sequential calls make of the next batch, and the rows it leaves.   *)
LEMMA NextBatchKeeps == EpochInv /\ NextBatch => EpochInv'
<1> SUFFICES ASSUME EpochInv, NextBatch PROVE EpochInv'
  OBVIOUS
<1>1. EpochTypeOK
  BY DEF EpochInv
<1>2. PICK b : b = batches[number + 1]
  OBVIOUS
<1>3. PICK now : now = Now
  OBVIOUS
<1>4. PICK hit : hit = LookedUp(now, b)
  OBVIOUS
<1>5. /\ pc = "busy" /\ needed = {} /\ rows = <<>> /\ number < Len(batches)
      /\ cache' = hit.cache /\ lru' = hit.lru /\ number' = hit.number
      /\ found' = hit.found /\ rows' = hit.uncached
  BY <1>2, <1>3, <1>4 DEF NextBatch
<1>6. /\ mode' = mode /\ broken' = broken /\ flaky' = flaky /\ disk' = disk
      /\ pc' = pc /\ batches' = batches /\ needed' = needed /\ computed' = computed
      /\ answers' = answers /\ consumed' = consumed /\ queries' = queries
      /\ failures' = failures /\ unplanned' = unplanned /\ before' = before
  BY DEF NextBatch, work, fixed
<1>7. PICK m : m = number + 1
  OBVIOUS
<1>8. /\ number \in Nat /\ Len(batches) \in Nat /\ m \in 1..Len(batches) /\ m \in 0..Len(batches)
      /\ m - 1 = number /\ (m + 1)..Len(batches) \subseteq m..Len(batches)
      /\ \A n \in 1..m : n # m => n \in 1..number
  <2>1. number \in 0..Len(batches) /\ Len(batches) \in Nat
    BY <1>1, LenProperties DEF EpochTypeOK
  <2>2. QED
    BY <1>5, <1>7, <2>1
<1>9. b \in Seq(Arcs) /\ ToSet(b) \subseteq Arcs /\ b = batches[m]
  BY <1>1, <1>2, <1>7, <1>8, ArcsOfRows
<1>10. /\ now \in Replay /\ now.cache = cache /\ now.lru = lru /\ now.number = number
       /\ now.found = found /\ now.uncached = <<>> /\ now.queried = consumed
  BY <1>1, <1>3, NowIs
<1>11. /\ hit \in Replay /\ hit.number = m /\ hit.queried = consumed
       /\ ToSet(hit.lru) = ToSet(lru) /\ Aliased(cache) \subseteq Aliased(hit.cache)
       /\ found \subseteq hit.found
       /\ ToSet(hit.uncached) \subseteq ToSet(b) \ Aliased(cache)
       /\ \A a \in ToSet(b) :
            a \in ToSet(hit.uncached) \/ \E e \in Arcs : <<hit.number, a, e>> \in hit.found
  <2>1. FoundOrLeft(now, b, hit)
    BY <1>4, <1>9, <1>10, LookedUpDoes
  <2>2. QED
    BY <1>7, <1>10, <2>1 DEF FoundOrLeft
<1>12. PICK settled : settled = Settled(hit)
  OBVIOUS
<1>13. /\ settled \in Replay /\ settled.uncached = <<>> /\ settled.cache = hit.cache
       /\ settled.lru = hit.lru /\ settled.number = hit.number /\ settled.found = hit.found
       /\ settled.queried = hit.queried
  BY <1>11, <1>12, SettledDoes
<1>14. EpochTypeOK'
  <2>1. /\ hit.cache \in AliasCache /\ hit.lru \in ExactCache /\ hit.uncached \in Seq(Arcs)
        /\ hit.found \subseteq Nat \X Arcs \X Arcs
    BY <1>11 DEF Replay
  <2>2. QED
    BY <1>1, <1>5, <1>6, <1>8, <1>11, <2>1 DEF EpochTypeOK
<1>15. Now' = settled
  <2>1. Now' = [cache |-> hit.cache, lru |-> hit.lru, number |-> hit.number,
                found |-> hit.found, uncached |-> <<>>, queried |-> consumed]
    BY <1>5, <1>6 DEF Now
  <2>2. settled = [cache |-> settled.cache, lru |-> settled.lru, number |-> settled.number,
                   found |-> settled.found, uncached |-> settled.uncached,
                   queried |-> settled.queried]
    BY <1>13 DEF Replay
  <2>3. QED
    BY <1>11, <1>13, <2>1, <2>2
<1>16. Sequence' = Sequence /\ Reference' = Reference
  BY <1>6 DEF Sequence, Reference
<1>17. AnswersAreTrue'
  BY <1>5, <1>6, <1>11 DEF EpochInv, AnswersAreTrue
<1>18. InStep'
  <2>1. SUFFICES ASSUME ~flaky PROVE After(Asked(broken), settled, hit.uncached) = Sequence[m]
    BY <1>5, <1>6, <1>11, <1>15, <1>16 DEF InStep
  <2>2. After(Asked(broken), now, <<>>) = Sequence[number]
    BY <1>3, <1>5, <2>1 DEF EpochInv, InStep, Begun
  <2>3. now = Sequence[number]
    BY <2>2, AfterNothing
  <2>4. Sequence[m] = Sequentially(broken)[b][now]
    BY <1>1, <1>8, <1>9, <2>3, ReferenceIs
  <2>5. PICK t : t = Sequentially(broken)[b][now]
    OBVIOUS
  <2>6. t = After(Asked(broken), Settled(LookedUp(now, b)), LookedUp(now, b).uncached)
    BY <1>9, <1>10, <2>5, BatchDoes
  <2>7. QED
    BY <1>4, <1>12, <2>4, <2>5, <2>6
<1>19. DemandsAsPlanned'
  BY <1>5, <1>6, <1>16 DEF EpochInv, DemandsAsPlanned, Begun, Expected, Unanswered
<1>20. QueuesAhead'
  <2>1. SUFFICES ASSUME mode = "queue"
                 PROVE  /\ \A a \in ToSet(hit.uncached) : Expected(a)
                        /\ \A n \in (m + 1)..Len(batches) : \A a \in ToSet(batches[n]) :
                             a \in Aliased(hit.cache) \/ Expected(a)
    BY <1>5, <1>6, <1>11 DEF QueuesAhead, Expected, Unanswered
  <2>2. \A n \in m..Len(batches) : \A a \in ToSet(batches[n]) :
          a \in Aliased(cache) \/ Expected(a)
    BY <1>5, <1>7, <2>1 DEF EpochInv, QueuesAhead
  <2>3. m \in m..Len(batches)
    BY <1>8
  <2>4. QED
    BY <1>8, <1>9, <1>11, <2>2, <2>3
<1>21. FailuresAreBacked'
  BY <1>6 DEF EpochInv, FailuresAreBacked
<1>22. NothingLeftOut'
  <2>1. SUFFICES ASSUME NEW n \in 1..m, NEW a \in ToSet(batches[n])
                 PROVE  Reported(n, a)' \/ (n = m /\ a \in ToSet(hit.uncached))
    BY <1>5, <1>6, <1>11 DEF NothingLeftOut
  <2>2. CASE n = m
    BY <1>5, <1>9, <1>11, <2>1, <2>2 DEF Reported
  <2>3. CASE n # m
    <3>1. n \in 1..number
      BY <1>8, <2>3
    <3>2. Reported(n, a) \/ a \in ToSet(rows)
      BY <1>5, <2>1, <3>1 DEF EpochInv, NothingLeftOut, Begun
    <3>3. Reported(n, a)
      BY <1>5, <3>2, SetOfEmpty
    <3>4. QED
      BY <1>5, <1>6, <1>11, <3>3 DEF Reported
  <2>4. QED
    BY <2>2, <2>3
<1>23. NothingLeft'
  BY <1>5, <1>6 DEF NothingLeft, Ended
<1>24. QED
  BY <1>14, <1>17, <1>18, <1>19, <1>20, <1>21, <1>22, <1>23 DEF EpochInv

(* The answer of a row does what asking for it does.  The assumptions are  *)
(* what a planned and a repeated query have in common.                     *)
Backed(a, outcome) ==
  /\ outcome \in {"ok", "error"} /\ (~flaky => (outcome = "ok" <=> a \notin broken))
  /\ queries' \in [Arcs -> Nat] /\ \A c \in Arcs : queries[c] <= queries'[c]
  /\ outcome = "error" =>
       (answers[a] = "error" /\ a \notin consumed) \/ queries[a] + 1 <= queries'[a]
  /\ disk \subseteq disk' /\ disk' \subseteq disk \cup {a} /\ (outcome = "error" => disk' = disk)
  /\ unplanned' = (unplanned \/ Unanswered(a))

LEMMA AnswerKeeps ==
  ASSUME EpochInv, pc = "busy", needed = {}, rows # <<>>, NEW a, a = Head(rows),
         NEW outcome, Answer(a, outcome), Backed(a, outcome),
         mode' = mode, broken' = broken, flaky' = flaky, batches' = batches, before' = before
  PROVE  EpochInv'
<1>1. EpochTypeOK
  BY DEF EpochInv
<1>2. /\ answers' = [answers EXCEPT ![a] = outcome] /\ consumed' = consumed \cup {a}
      /\ rows' = Tail(rows) /\ failures' = Counted(failures, a, outcome)
      /\ number' = number /\ needed' = needed /\ computed' = computed /\ pc' = pc
      /\ IF outcome = "ok"
         THEN /\ found' = found \cup {<<number, a, a>>} /\ cache' = Fill(cache, a)
              /\ lru' = KeepLast(lru, CacheSize, a)
         ELSE found' = found /\ cache' = cache /\ lru' = lru
  BY DEF Answer, work, fixed, caches
<1>3. /\ a \in Arcs /\ Tail(rows) \in Seq(Arcs) /\ ToSet(rows) = ToSet(Tail(rows)) \cup {a}
      /\ rows \in Seq(Arcs)
  BY <1>1, HeadAndTail DEF EpochTypeOK
<1>4. /\ failures' \in [Arcs -> Nat]
      /\ \A c \in Arcs : failures'[c] = IF c = a /\ outcome = "error" THEN failures[c] + 1
                                        ELSE failures[c]
  <2>1. PICK f : f = failures
    OBVIOUS
  <2>2. PICK t : t = Counted(f, a, outcome)
    OBVIOUS
  <2>3. f \in [Arcs -> Nat]
    BY <1>1, <2>1 DEF EpochTypeOK
  <2>4. /\ t \in [Arcs -> Nat]
        /\ \A c \in Arcs : t[c] = IF c = a /\ outcome = "error" THEN f[c] + 1 ELSE f[c]
    BY <1>3, <2>2, <2>3, ErrorCounted
  <2>5. failures' = t
    BY <1>2, <2>1, <2>2
  <2>6. QED
    BY <2>1, <2>4, <2>5
<1>5. PICK now : now = Now
  OBVIOUS
<1>6. /\ now \in Replay /\ now.cache = cache /\ now.lru = lru /\ now.number = number
      /\ now.found = found /\ now.uncached = <<>> /\ now.queried = consumed
  BY <1>1, <1>5, NowIs
<1>7. /\ cache' \in AliasCache /\ Aliased(cache) \subseteq Aliased(cache')
      /\ lru' \in ExactCache /\ ToSet(lru') \subseteq ToSet(lru) \cup {a}
      /\ outcome = "error" => lru' = lru
      /\ found' \subseteq Nat \X Arcs \X Arcs /\ found \subseteq found'
      /\ outcome = "ok" => <<number, a, a>> \in found'
  <2>1. /\ cache \in AliasCache /\ lru \in ExactCache /\ number \in Nat
        /\ found \subseteq Nat \X Arcs \X Arcs
    BY <1>6 DEF Replay
  <2>2. CASE outcome = "ok"
    <3>1. Fill(cache, a) \in AliasCache /\ Aliased(cache) \subseteq Aliased(Fill(cache, a))
      BY <1>3, <2>1, AliasFilled
    <3>2. /\ KeepLast(lru, CacheSize, a) \in ExactCache
          /\ ToSet(KeepLast(lru, CacheSize, a)) \subseteq ToSet(lru) \cup {a}
      BY <1>3, <2>1, ExactKept
    <3>3. QED
      BY <1>2, <1>3, <2>1, <2>2, <3>1, <3>2
  <2>3. CASE outcome # "ok"
    BY <1>2, <2>1, <2>3
  <2>4. QED
    BY <2>2, <2>3
<1>8. \A c \in Arcs : answers'[c] = IF c = a THEN outcome ELSE answers[c]
  BY <1>1, <1>2 DEF EpochTypeOK
<1>9. EpochTypeOK'
  <2>1. answers' \in [Arcs -> {"none", "ok", "error"}] /\ disk' \subseteq Arcs
        /\ unplanned' \in BOOLEAN /\ queries' \in [Arcs -> Nat] /\ consumed' \subseteq Arcs
    BY <1>1, <1>2, <1>3 DEF EpochTypeOK, Backed
  <2>2. QED
    BY <1>1, <1>2, <1>3, <1>4, <1>7, <2>1 DEF EpochTypeOK
<1>10. AnswersAreTrue'
  BY <1>1, <1>3, <1>7, <1>8 DEF EpochInv, AnswersAreTrue, Backed
<1>11. Sequence' = Sequence /\ Reference' = Reference
  BY DEF Sequence, Reference
<1>12. InStep'
  <2>1. SUFFICES ASSUME ~flaky
                 PROVE  After(Asked(broken), Now', Tail(rows)) = Sequence[number]
    BY <1>2, <1>11 DEF InStep
  <2>2. After(Asked(broken), now, rows) = Sequence[number]
    BY <1>5, <2>1 DEF EpochInv, InStep, Begun
  <2>3. PICK t : t = Asked(broken)[a][now]
    OBVIOUS
  <2>4. After(Asked(broken), now, rows) = After(Asked(broken), t, Tail(rows))
    <3>1. PICK step : step = Asked(broken)
      OBVIOUS
    <3>2. After(step, now, rows) = After(step, step[Head(rows)][now], Tail(rows))
      BY <1>3, AfterFirst
    <3>3. QED
      BY <2>3, <3>1, <3>2
  <2>5. /\ t \in Replay /\ t.number = number /\ t.queried = consumed \cup {a}
        /\ t.uncached = <<>>
        /\ IF a \in broken THEN t.cache = cache /\ t.lru = lru /\ t.found = found
           ELSE /\ t.cache = Fill(cache, a) /\ t.lru = KeepLast(lru, CacheSize, a)
                /\ t.found = found \cup {<<number, a, a>>}
    <3>1. PICK gone : gone = broken
      OBVIOUS
    <3>2. AskedRow(gone, a, now, t)
      BY <1>3, <1>6, <2>3, <3>1, AskedDoes
    <3>3. QED
      BY <1>6, <3>1, <3>2 DEF AskedRow
  <2>6. t.cache = cache' /\ t.lru = lru' /\ t.found = found'
    <3>1. outcome = "ok" <=> a \notin broken
      BY <2>1 DEF Backed
    <3>2. QED
      BY <1>2, <2>5, <3>1
  <2>7. Now' = t
    <3>1. t = [cache |-> t.cache, lru |-> t.lru, number |-> t.number, found |-> t.found,
               uncached |-> t.uncached, queried |-> t.queried]
      BY <2>5 DEF Replay
    <3>2. Now' = [cache |-> cache', lru |-> lru', number |-> number, found |-> found',
                  uncached |-> <<>>, queried |-> consumed \cup {a}]
      BY <1>2 DEF Now
    <3>3. QED
      BY <2>5, <2>6, <3>1, <3>2
  <2>8. QED
    BY <2>2, <2>4, <2>7
<1>13. \A c \in Arcs : Expected(c) => Expected(c)'
  BY <1>2, <1>8 DEF Expected, Unanswered, Backed
<1>14. DemandsAsPlanned'
  <2>1. SUFFICES ASSUME mode = "demand", broken = {}, ~flaky
                 PROVE  /\ ~unplanned' /\ needed \cup computed \subseteq Reference.queried
                        /\ \A c \in Reference.queried : Expected(c)'
    BY <1>2, <1>11 DEF DemandsAsPlanned, Begun
  <2>2. /\ ~unplanned /\ needed \cup computed \subseteq Reference.queried
        /\ \A c \in Reference.queried : Expected(c)
    BY <2>1 DEF EpochInv, DemandsAsPlanned, Begun
  <2>3. Reference.queried \subseteq Arcs /\ Sequence[number].queried \subseteq Reference.queried
    BY <1>1, ReferenceIs
  <2>4. ToSet(rows) \subseteq Sequence[number].queried
    <3>1. PICK t : t = After(Asked(broken), now, rows)
      OBVIOUS
    <3>2. t = Sequence[number]
      BY <1>5, <2>1, <3>1 DEF EpochInv, InStep, Begun
    <3>3. now.queried \cup ToSet(rows) \subseteq t.queried
      BY <1>3, <1>6, <3>1, AllAsked
    <3>4. QED
      BY <3>2, <3>3
  <2>5. ~Unanswered(a)
    BY <1>3, <2>2, <2>3, <2>4 DEF Expected
  <2>6. QED
    BY <1>13, <2>2, <2>3, <2>5 DEF Backed
<1>15. QueuesAhead'
  <2>1. SUFFICES ASSUME mode = "queue"
                 PROVE  /\ \A c \in ToSet(Tail(rows)) : Expected(c)'
                        /\ \A n \in (number + 1)..Len(batches) : \A c \in ToSet(batches[n]) :
                             c \in Aliased(cache') \/ Expected(c)'
    BY <1>2 DEF QueuesAhead
  <2>2. /\ \A c \in ToSet(rows) : Expected(c)
        /\ \A n \in (number + 1)..Len(batches) : \A c \in ToSet(batches[n]) :
             c \in Aliased(cache) \/ Expected(c)
    BY <2>1 DEF EpochInv, QueuesAhead
  <2>3. /\ ToSet(rows) \subseteq Arcs
        /\ \A n \in (number + 1)..Len(batches) : ToSet(batches[n]) \subseteq Arcs
    BY <1>1, ArcsOfRows
  <2>4. QED
    BY <1>3, <1>7, <1>13, <2>2, <2>3
<1>16. FailuresAreBacked'
  <2>1. ASSUME NEW c \in Arcs
        PROVE  failures'[c] + (IF answers'[c] = "error" /\ c \notin consumed' THEN 1 ELSE 0)
                 <= queries'[c]
    <3>1. /\ failures[c] \in Nat /\ queries[c] \in Nat /\ queries'[c] \in Nat
          /\ queries[c] <= queries'[c]
          /\ failures[c] + (IF answers[c] = "error" /\ c \notin consumed THEN 1 ELSE 0) <= queries[c]
      BY <1>1 DEF EpochInv, EpochTypeOK, FailuresAreBacked, Backed
    <3>2. CASE c # a
      <4>1. /\ failures'[c] = failures[c] /\ answers'[c] = answers[c]
            /\ c \in consumed' <=> c \in consumed
        BY <1>2, <1>4, <1>8, <3>2
      <4>2. QED
        BY <3>1, <4>1
    <3>3. CASE c = a /\ outcome = "error"
      <4>1. failures'[c] = failures[c] + 1 /\ c \in consumed'
        BY <1>2, <1>4, <3>3
      <4>2. failures[c] + 1 <= queries'[c]
        <5>1. CASE answers[a] = "error" /\ a \notin consumed
          <6>1. failures[c] + 1 <= queries[c]
            BY <3>1, <3>3, <5>1
          <6>2. QED
            BY <3>1, <6>1
        <5>2. CASE queries[a] + 1 <= queries'[a]
          <6>1. failures[c] <= queries[c]
            BY <3>1
          <6>2. QED
            BY <3>1, <3>3, <5>2, <6>1
        <5>3. QED
          BY <3>3, <5>1, <5>2 DEF Backed
      <4>3. QED
        BY <3>1, <4>1, <4>2
    <3>4. CASE c = a /\ outcome # "error"
      <4>1. failures'[c] = failures[c] /\ c \in consumed'
        BY <1>2, <1>4, <3>4
      <4>2. failures[c] <= queries[c]
        BY <3>1
      <4>3. QED
        BY <3>1, <4>1, <4>2
    <3>5. QED
      BY <3>2, <3>3, <3>4
  <2>2. QED
    BY <2>1 DEF FailuresAreBacked
<1>17. NothingLeftOut'
  <2>1. SUFFICES ASSUME NEW n \in 1..number, NEW c \in ToSet(batches[n])
                 PROVE  Reported(n, c)' \/ (n = number /\ c \in ToSet(Tail(rows)))
    BY <1>2 DEF NothingLeftOut
  <2>2. Reported(n, c) \/ (n = number /\ c \in ToSet(rows))
    BY <2>1 DEF EpochInv, NothingLeftOut, Begun
  <2>3. ASSUME Reported(n, c) PROVE Reported(n, c)'
    <3>1. CASE failures[c] > 0
      <4>1. c \in Arcs
        BY <1>1, <2>1, ArcsBegun
      <4>2. failures[c] \in Nat
        BY <1>1, <4>1 DEF EpochTypeOK
      <4>3. failures'[c] > 0
        <5>1. failures'[c] = failures[c] + 1 \/ failures'[c] = failures[c]
          BY <1>4, <4>1
        <5>2. QED
          BY <3>1, <4>2, <5>1
      <4>4. QED
        BY <4>3 DEF Reported
    <3>2. CASE \E e \in Arcs : <<n, c, e>> \in found
      BY <1>7, <3>2 DEF Reported
    <3>3. QED
      BY <2>3, <3>1, <3>2 DEF Reported
  <2>4. CASE c = a /\ n = number
    <3>1. CASE outcome = "ok"
      BY <1>3, <1>7, <2>4, <3>1 DEF Reported
    <3>2. CASE outcome = "error"
      <4>1. failures[a] \in Nat /\ failures'[a] = failures[a] + 1
        BY <1>1, <1>3, <1>4, <3>2 DEF EpochTypeOK
      <4>2. failures'[a] > 0
        BY <4>1
      <4>3. QED
        BY <2>4, <4>2 DEF Reported
    <3>3. QED
      BY <3>1, <3>2 DEF Backed
  <2>5. QED
    BY <1>3, <2>2, <2>3, <2>4
<1>18. NothingLeft'
  BY <1>2 DEF NothingLeft, Ended
<1>19. QED
  BY <1>9, <1>10, <1>12, <1>14, <1>15, <1>16, <1>17, <1>18 DEF EpochInv

(* A planned row, and a row that is asked for again.                       *)
LEMMA RowKeeps == EpochInv /\ Row => EpochInv'
<1> SUFFICES ASSUME EpochInv, Row PROVE EpochInv'
  OBVIOUS
<1>1. EpochTypeOK
  BY DEF EpochInv
<1>2. PICK a : a = Head(rows)
  OBVIOUS
<1>3. PICK outcome : outcome = answers[a]
  OBVIOUS
<1>4. /\ pc = "busy" /\ needed = {} /\ rows # <<>> /\ ~NeedsQuery(a) /\ Answer(a, outcome)
      /\ disk' = disk /\ queries' = queries /\ unplanned' = unplanned
  BY <1>2, <1>3 DEF Row
<1>5. a \in Arcs
  BY <1>1, <1>2, <1>4, HeadAndTail DEF EpochTypeOK
<1>6. outcome \in {"ok", "error"} /\ (outcome = "error" => a \notin consumed) /\ ~Unanswered(a)
  BY <1>1, <1>3, <1>4, <1>5 DEF EpochTypeOK, NeedsQuery, Unanswered, UsedError
<1>7. ~flaky => (outcome = "ok" <=> a \notin broken)
  BY <1>3, <1>5, <1>6 DEF EpochInv, AnswersAreTrue
<1>8. queries' \in [Arcs -> Nat] /\ \A c \in Arcs : queries[c] <= queries'[c]
  BY <1>1, <1>4 DEF EpochTypeOK
<1>9. unplanned \in BOOLEAN
  BY <1>1 DEF EpochTypeOK
<1>10. Backed(a, outcome)
  BY <1>3, <1>4, <1>6, <1>7, <1>8, <1>9 DEF Backed
<1>11. mode' = mode /\ broken' = broken /\ flaky' = flaky /\ batches' = batches /\ before' = before
  BY <1>4 DEF Answer, fixed
<1>12. QED
  BY <1>2, <1>4, <1>10, <1>11, AnswerKeeps

LEMMA QueriedRowKeeps == EpochInv /\ QueriedRow => EpochInv'
<1> SUFFICES ASSUME EpochInv, QueriedRow PROVE EpochInv'
  OBVIOUS
<1>1. EpochTypeOK
  BY DEF EpochInv
<1>2. PICK a : a = Head(rows)
  OBVIOUS
<1>3. /\ pc = "busy" /\ needed = {} /\ rows # <<>>
      /\ unplanned' = (unplanned \/ Unanswered(a))
      /\ \E outcome \in Outcomes(a) :
           /\ Answer(a, outcome)
           /\ queries' = Counted(queries, a, outcome)
           /\ disk' = IF mode = "queue" /\ outcome = "ok" THEN disk \cup {a} ELSE disk
  BY <1>2 DEF QueriedRow
<1>4. PICK outcome \in Outcomes(a) :
           /\ Answer(a, outcome)
           /\ queries' = Counted(queries, a, outcome)
           /\ disk' = IF mode = "queue" /\ outcome = "ok" THEN disk \cup {a} ELSE disk
  BY <1>3
<1>5. a \in Arcs
  BY <1>1, <1>2, <1>3, HeadAndTail DEF EpochTypeOK
<1>6. outcome \in {"ok", "error"} /\ (~flaky => (outcome = "ok" <=> a \notin broken))
  BY <1>4, <1>5 DEF Outcomes
<1>7. /\ queries' \in [Arcs -> Nat]
      /\ \A c \in Arcs : queries'[c] = IF c = a /\ outcome = "error" THEN queries[c] + 1
                                       ELSE queries[c]
  <2>1. PICK q : q = queries
    OBVIOUS
  <2>2. PICK t : t = Counted(q, a, outcome)
    OBVIOUS
  <2>3. q \in [Arcs -> Nat]
    BY <1>1, <2>1 DEF EpochTypeOK
  <2>4. /\ t \in [Arcs -> Nat]
        /\ \A c \in Arcs : t[c] = IF c = a /\ outcome = "error" THEN q[c] + 1 ELSE q[c]
    BY <1>5, <2>2, <2>3, ErrorCounted
  <2>5. queries' = t
    BY <1>4, <2>1, <2>2
  <2>6. QED
    BY <2>1, <2>4, <2>5
<1>8. \A c \in Arcs : queries[c] <= queries'[c]
  <2>1. ASSUME NEW c \in Arcs PROVE queries[c] <= queries'[c]
    <3>1. queries[c] \in Nat
      BY <1>1, <2>1 DEF EpochTypeOK
    <3>2. queries'[c] = queries[c] + 1 \/ queries'[c] = queries[c]
      BY <1>7, <2>1
    <3>3. QED
      BY <3>1, <3>2
  <2>2. QED
    BY <2>1
<1>9. outcome = "error" => queries[a] + 1 <= queries'[a]
  <2>1. SUFFICES ASSUME outcome = "error" PROVE queries[a] + 1 <= queries'[a]
    OBVIOUS
  <2>2. queries[a] \in Nat /\ queries'[a] = queries[a] + 1
    BY <1>1, <1>5, <1>7, <2>1 DEF EpochTypeOK
  <2>3. QED
    BY <2>2
<1>10. disk \subseteq disk' /\ disk' \subseteq disk \cup {a} /\ (outcome = "error" => disk' = disk)
  BY <1>4, <1>6
<1>11. Backed(a, outcome)
  BY <1>3, <1>6, <1>7, <1>8, <1>9, <1>10 DEF Backed
<1>12. mode' = mode /\ broken' = broken /\ flaky' = flaky /\ batches' = batches /\ before' = before
  BY <1>4 DEF Answer, fixed
<1>13. QED
  BY <1>2, <1>3, <1>4, <1>11, <1>12, AnswerKeeps

LEMMA EndKeeps == EpochInv /\ End => EpochInv'
<1> SUFFICES ASSUME EpochInv, End PROVE EpochInv'
  OBVIOUS
<1>1. /\ mode' = mode /\ broken' = broken /\ flaky' = flaky /\ cache' = cache /\ lru' = lru
      /\ disk' = disk /\ pc = "busy" /\ pc' = "ended" /\ batches' = batches /\ number' = number
      /\ needed' = needed /\ answers' = answers /\ computed' = computed
      /\ consumed' = consumed /\ rows' = rows /\ found' = found /\ queries' = queries
      /\ failures' = failures /\ unplanned' = unplanned /\ before' = before
      /\ rows = <<>> /\ number = Len(batches)
  BY DEF End, caches, replay, work, fixed
<1>2. EpochTypeOK'
  BY <1>1 DEF EpochInv, EpochTypeOK, Pc
<1>3. Sequence' = Sequence /\ Reference' = Reference /\ Now' = Now
  BY <1>1 DEF Sequence, Reference, Now
<1>4. AnswersAreTrue' /\ FailuresAreBacked'
  BY <1>1 DEF EpochInv, AnswersAreTrue, FailuresAreBacked
<1>5. InStep'
  BY <1>1, <1>3 DEF EpochInv, InStep, Begun
<1>6. DemandsAsPlanned'
  BY <1>1, <1>3 DEF EpochInv, DemandsAsPlanned, Begun, Expected, Unanswered
<1>7. QueuesAhead' /\ NothingLeft'
  BY <1>1 DEF QueuesAhead, NothingLeft
<1>8. NothingLeftOut'
  BY <1>1 DEF EpochInv, NothingLeftOut, Begun, Reported
<1>9. QED
  BY <1>2, <1>4, <1>5, <1>6, <1>7, <1>8 DEF EpochInv

LEMMA ClearAliasesKeeps == EpochInv /\ ClearAliases => EpochInv'
<1> SUFFICES ASSUME EpochInv, ClearAliases PROVE EpochInv'
  OBVIOUS
<1>1. /\ mode' = mode /\ broken' = broken /\ flaky' = flaky /\ lru' = lru
      /\ disk' = disk /\ pc' = "idle" /\ batches' = batches /\ number' = number
      /\ needed' = needed /\ answers' = answers /\ computed' = computed
      /\ consumed' = consumed /\ rows' = rows /\ found' = found /\ queries' = queries
      /\ failures' = failures /\ unplanned' = unplanned /\ before' = before
      /\ cache' = [x \in Aliases |-> NoArc]
  BY DEF ClearAliases, replay, work, fixed
<1>2. cache' \in AliasCache
  BY <1>1 DEF AliasCache
<1>3. EpochTypeOK'
  BY <1>1, <1>2 DEF EpochInv, EpochTypeOK, Pc
<1>4. AnswersAreTrue' /\ FailuresAreBacked'
  BY <1>1 DEF EpochInv, AnswersAreTrue, FailuresAreBacked
<1>5. InStep' /\ DemandsAsPlanned' /\ QueuesAhead' /\ NothingLeftOut' /\ NothingLeft'
  BY <1>1 DEF InStep, DemandsAsPlanned, QueuesAhead, NothingLeftOut, NothingLeft, Begun, Ended
<1>6. QED
  BY <1>3, <1>4, <1>5 DEF EpochInv

LEMMA EpochStep == EpochInv /\ [EpochNext]_epochVars => EpochInv'
<1> SUFFICES ASSUME EpochInv, [EpochNext]_epochVars PROVE EpochInv'
  OBVIOUS
<1>1. CASE UNCHANGED epochVars
  <2>1. /\ mode' = mode /\ broken' = broken /\ flaky' = flaky /\ cache' = cache /\ lru' = lru
        /\ disk' = disk /\ pc' = pc /\ batches' = batches /\ number' = number
        /\ needed' = needed /\ answers' = answers /\ computed' = computed
        /\ consumed' = consumed /\ rows' = rows /\ found' = found /\ queries' = queries
        /\ failures' = failures /\ unplanned' = unplanned /\ before' = before
    BY <1>1 DEF epochVars, caches, replay, work, fixed
  <2>2. QED
    BY <2>1 DEF EpochInv, EpochTypeOK, AnswersAreTrue, InStep, DemandsAsPlanned, QueuesAhead,
                FailuresAreBacked, NothingLeftOut, NothingLeft, Begun, Ended, Sequence,
                Reference, Now, Expected, Unanswered, Reported
<1>2. CASE EpochNext
  BY <1>2, StartKeeps, EvaluateKeeps, NextBatchKeeps, RowKeeps, QueriedRowKeeps, EndKeeps,
     ClearAliasesKeeps DEF EpochNext
<1>3. QED
  BY <1>1, <1>2

LEMMA EpochIsSafe == EpochInv => EpochIsFaithful
<1> SUFFICES ASSUME EpochInv PROVE EpochIsFaithful
  OBVIOUS
<1>1. EpochTypeOK
  BY DEF EpochInv
<1>2. ASSUME Ended, ~flaky PROVE Now = Reference
  <2>1. Begun /\ number = Len(batches) /\ rows = <<>>
    BY <1>2 DEF EpochInv, NothingLeft, Ended, Begun
  <2>2. After(Asked(broken), Now, <<>>) = Sequence[Len(batches)]
    BY <1>2, <2>1 DEF EpochInv, InStep
  <2>3. After(Asked(broken), Now, <<>>) = Now
    BY AfterNothing
  <2>4. QED
    BY <1>1, <2>2, <2>3, ReferenceIs
<1>3. /\ Now.cache = cache /\ Now.lru = lru /\ Now.found = found /\ Now.queried = consumed
  BY <1>1, NowIs
<1>4. ReplaysInOrder
  BY <1>2, <1>3 DEF ReplaysInOrder
<1>5. PlanIsExact
  <2>1. SUFFICES ASSUME Ended, mode = "demand", broken = {}, ~flaky
                 PROVE  ~unplanned /\ computed \subseteq consumed
    BY DEF PlanIsExact
  <2>2. ~unplanned /\ needed \cup computed \subseteq Reference.queried
    BY <2>1 DEF EpochInv, DemandsAsPlanned, Begun, Ended
  <2>3. Reference.queried = consumed
    BY <1>2, <1>3, <2>1
  <2>4. QED
    BY <2>2, <2>3
<1>6. AnswersArePlanned
  BY DEF EpochInv, AnswersArePlanned, QueuesAhead, Expected
<1>7. FailuresAreOwn
  <2>1. ASSUME NEW a \in Arcs PROVE failures[a] <= queries[a]
    <3>1. /\ failures[a] \in Nat /\ queries[a] \in Nat
          /\ failures[a] + (IF answers[a] = "error" /\ a \notin consumed THEN 1 ELSE 0)
               <= queries[a]
      BY <1>1, <2>1 DEF EpochInv, EpochTypeOK, FailuresAreBacked
    <3>2. QED
      BY <3>1
  <2>2. QED
    BY <2>1 DEF FailuresAreOwn
<1>8. NothingOmitted
  <2>1. SUFFICES ASSUME Ended, NEW n \in DOMAIN batches, NEW a \in ToSet(batches[n])
                 PROVE  Reported(n, a)
    BY DEF NothingOmitted, Reported
  <2>2. Begun /\ number = Len(batches) /\ rows = <<>>
    BY <2>1 DEF EpochInv, NothingLeft, Ended, Begun
  <2>3. n \in 1..number
    BY <1>1, <2>1, <2>2, LenProperties DEF EpochTypeOK
  <2>4. Reported(n, a) \/ a \in ToSet(rows)
    BY <2>1, <2>2, <2>3 DEF EpochInv, NothingLeftOut
  <2>5. QED
    BY <2>2, <2>4, SetOfEmpty
<1>9. QED
  BY <1>1, <1>4, <1>5, <1>6, <1>7, <1>8 DEF EpochIsFaithful

(* Planning the routes of an epoch ahead changes no answer and no cache:   *)
(* both epoch adapters (deterministic_routing.py, routing_v3.py) find what *)
(* the calls one after another find and leave the same caches, ask for     *)
(* nothing in vain, omit no candidate and reuse no failure.                *)
THEOREM EpochIsFaithfulHolds == EpochSpec => []EpochIsFaithful
<1>1. QED
  BY EpochBegins, EpochStep, EpochIsSafe, PTL DEF EpochSpec
=============================================================================
