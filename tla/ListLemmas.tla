----------------------------- MODULE ListLemmas -----------------------------
(***************************************************************************)
(* Lemmas about lists of ids, counting and least elements, and on where    *)
(* the lines of an axis go: about Lists and AxisShift, for every list, every *)
(* index and every count.                                                  *)
(***************************************************************************)
EXTENDS Lists, AxisShift, FiniteSets, FiniteSetTheorems, FunctionTheorems, SequenceTheorems,
        WellFoundedInduction, TLAPS

NoRepeats(list) == \A m, n \in DOMAIN list : list[m] = list[n] => m = n

-----------------------------------------------------------------------------
(* Every set of natural numbers has a least element.  An induction is the   *)
(* search for the least counterexample.                                     *)
LEMMA LeastNatural ==
  ASSUME NEW S \in SUBSET Nat, S # {}
  PROVE  \E m \in S : \A n \in S : m <= n
<1>1. PICK x \in S : \A y \in S : <<y, x>> \notin OpToRel(<, Nat)
  BY NatLessThanWellFounded, WFMin
<1>2. \A y \in S : ~(y < x)
  BY <1>1 DEF OpToRel
<1> QED  BY <1>2

(* A set of numbers up to N has a greatest element.                         *)
LEMMA GreatestBelow ==
  ASSUME NEW N \in Nat, NEW S \in SUBSET (0 .. N), S # {}
  PROVE  \E m \in S : \A n \in S : n <= m
<1> DEFINE bounds == {b \in Nat : \A n \in S : n <= b}
<1>1. N \in bounds
  OBVIOUS
<1>2. PICK b \in bounds : \A c \in bounds : b <= c
  BY <1>1, LeastNatural
<1>3. CASE b \in S
  BY <1>2, <1>3
<1>4. CASE b \notin S
  <2>1. PICK x \in S : TRUE
    OBVIOUS
  <2>2. b - 1 \in bounds
    BY <1>4, <2>1
  <2> QED  BY <1>2, <2>2
<1> QED  BY <1>3, <1>4

-----------------------------------------------------------------------------
(* What filter does to the first n elements of the list.                    *)
Filtered(list, S, kept, n) ==
    kept = [m \in 0 .. n |->
              IF m = 0 THEN <<>>
              ELSE IF list[m] \in S THEN kept[m - 1] ELSE Append(kept[m - 1], list[m])]

LEMMA FilteredExists ==
  ASSUME NEW list, NEW S, Len(list) \in Nat
  PROVE  \E kept : Filtered(list, S, kept, Len(list))
<1> DEFINE bad == {n \in 0 .. Len(list) : ~ \E kept : Filtered(list, S, kept, n)}
<1> SUFFICES ASSUME bad # {}  PROVE FALSE
  OBVIOUS
<1>a. bad \in SUBSET Nat
  OBVIOUS
<1> HIDE DEF bad
<1>b. \E n \in bad : \A m \in bad : n <= m
  BY <1>a, LeastNatural
<1> USE DEF bad
<1>1. PICK n \in bad : \A m \in bad : n <= m
  BY <1>b
<1>2. CASE n = 0
  <2> DEFINE kept == [m \in 0 .. 0 |-> <<>>]
  <2>1. Filtered(list, S, kept, 0)
    BY DEF Filtered
  <2> QED  BY <1>2, <2>1
<1>3. CASE n > 0
  <2>1. n - 1 \in 0 .. Len(list) /\ n - 1 \notin bad
    BY <1>1, <1>3
  <2>2. PICK f : Filtered(list, S, f, n - 1)
    BY <2>1
  <2> DEFINE kept == [m \in 0 .. n |->
                 IF m < n THEN f[m]
                 ELSE IF list[m] \in S THEN f[m - 1] ELSE Append(f[m - 1], list[m])]
  <2>3. \A m \in 0 .. n - 1 : kept[m] = f[m]
    OBVIOUS
  <2>4. ASSUME NEW m \in 0 .. n
        PROVE  kept[m] = IF m = 0 THEN <<>>
                         ELSE IF list[m] \in S THEN kept[m - 1]
                         ELSE Append(kept[m - 1], list[m])
    <3>1. CASE m < n
      <4>1. f[m] = IF m = 0 THEN <<>>
                   ELSE IF list[m] \in S THEN f[m - 1] ELSE Append(f[m - 1], list[m])
        <5>1. m \in 0 .. n - 1
          BY <3>1
        <5> QED  BY <2>2, <5>1 DEF Filtered
      <4>2. m # 0 => kept[m - 1] = f[m - 1]
        BY <2>3, <3>1
      <4> QED  BY <3>1, <4>1, <4>2
    <3>2. CASE m = n
      BY <1>3, <2>3, <3>2
    <3> QED  BY <3>1, <3>2
  <2> HIDE DEF kept
  <2>5. kept = [m \in 0 .. n |-> kept[m]]
    BY DEF kept
  <2>6. Filtered(list, S, kept, n)
    BY <2>4, <2>5 DEF Filtered
  <2> QED  BY <2>6
<1> QED  BY <1>1, <1>2, <1>3

\* t is what filter leaves of the first n elements of the list.
KeptOf(list, S, t, n) ==
    /\ Len(t) <= n
    /\ \A k \in 1 .. Len(t) : \E m \in 1 .. n : t[k] = list[m] /\ list[m] \notin S
    /\ \A m \in 1 .. n : list[m] \notin S => \E k \in 1 .. Len(t) : t[k] = list[m]
    /\ NoRepeats(list) => NoRepeats(t)
    /\ n # 0 /\ list[1] \notin S => Len(t) >= 1 /\ t[1] = list[1]

LEMMA KeepOneMore ==
  ASSUME NEW R, NEW list \in Seq(R), NEW S, NEW n \in 1 .. Len(list), list[n] \notin S,
         NEW t \in Seq(R), KeptOf(list, S, t, n - 1)
  PROVE  Append(t, list[n]) \in Seq(R) /\ KeptOf(list, S, Append(t, list[n]), n)
<1> DEFINE u == Append(t, list[n])
<1>1. list[n] \in R /\ n - 1 \in Nat /\ Len(t) \in Nat /\ DOMAIN list = 1 .. Len(list)
  OBVIOUS
<1>2. /\ u \in Seq(R) /\ Len(u) = Len(t) + 1
      /\ \A k \in 1 .. Len(t) : u[k] = t[k]
      /\ u[Len(t) + 1] = list[n]
      /\ DOMAIN u = 1 .. Len(t) + 1 /\ DOMAIN t = 1 .. Len(t)
  BY <1>1, AppendProperties
<1> HIDE DEF u
<1>3. ASSUME NEW k \in 1 .. Len(u)
      PROVE  \E m \in 1 .. n : u[k] = list[m] /\ list[m] \notin S
  <2>1. CASE k = Len(t) + 1
    BY <1>1, <1>2, <2>1
  <2>2. CASE k # Len(t) + 1
    <3>1. k \in 1 .. Len(t)
      BY <1>1, <1>2, <2>2
    <3>2. PICK m \in 1 .. n - 1 : t[k] = list[m] /\ list[m] \notin S
      BY <3>1 DEF KeptOf
    <3> QED  BY <1>1, <1>2, <3>1, <3>2
  <2> QED  BY <2>1, <2>2
<1>4. ASSUME NEW m \in 1 .. n, list[m] \notin S
      PROVE  \E k \in 1 .. Len(u) : u[k] = list[m]
  <2>1. CASE m = n
    BY <1>1, <1>2, <2>1
  <2>2. CASE m # n
    <3>1. PICK k \in 1 .. Len(t) : t[k] = list[m]
      BY <1>1, <1>4, <2>2 DEF KeptOf
    <3> QED  BY <1>1, <1>2, <3>1
  <2> QED  BY <2>1, <2>2
<1>5. ASSUME NoRepeats(list), NEW j \in 1 .. Len(t) + 1, NEW k \in 1 .. Len(t) + 1, u[j] = u[k]
      PROVE  j = k
  <2>1. ASSUME NEW i \in 1 .. Len(t)  PROVE t[i] # list[n]
    <3>1. PICK m \in 1 .. n - 1 : t[i] = list[m]
      BY <1>1 DEF KeptOf
    <3>2. m \in DOMAIN list /\ n \in DOMAIN list /\ m # n
      BY <1>1
    <3> QED  BY <1>5, <3>1, <3>2 DEF NoRepeats
  <2>2. \A i, h \in 1 .. Len(t) : t[i] = t[h] => i = h
    BY <1>2, <1>5 DEF NoRepeats, KeptOf
  <2>3. CASE j \in 1 .. Len(t) /\ k \in 1 .. Len(t)
    BY <1>2, <1>5, <2>2, <2>3
  <2>4. CASE j = Len(t) + 1 \/ k = Len(t) + 1
    BY <1>1, <1>2, <1>5, <2>1, <2>4
  <2> QED  BY <1>1, <2>3, <2>4
<1>6. list[1] \notin S => Len(u) >= 1 /\ u[1] = list[1]
  BY <1>1, <1>2 DEF KeptOf
<1>7. Len(u) <= n /\ (NoRepeats(list) => NoRepeats(u))
  BY <1>1, <1>2, <1>5 DEF NoRepeats, KeptOf
<1>8. KeptOf(list, S, u, n)
  BY <1>3, <1>4, <1>6, <1>7 DEF KeptOf
<1> QED  BY <1>2, <1>8 DEF u

(* list.filter keeps the elements that are not in S, repeats none that was  *)
(* not repeated, and keeps the first one first.                             *)
LEMMA OmittingProperties ==
  ASSUME NEW R, NEW list \in Seq(R), NEW S
  PROVE  LET t == Omitting(list, S)
         IN  /\ t \in Seq(R)
             /\ Len(t) <= Len(list)
             /\ Elements(t) = Elements(list) \ S
             /\ NoRepeats(list) => NoRepeats(t)
             /\ list # <<>> /\ Head(list) \notin S => t # <<>> /\ Head(t) = Head(list)
<1>0. Len(list) \in Nat /\ DOMAIN list = 1 .. Len(list)
  OBVIOUS
<1>1. PICK kept : kept = CHOOSE f : Filtered(list, S, f, Len(list))
  OBVIOUS
<1>2. Filtered(list, S, kept, Len(list))
  BY <1>0, <1>1, FilteredExists
<1>3. Omitting(list, S) = kept[Len(list)]
  BY <1>1 DEF Omitting, Filtered
<1>a. /\ kept[0] = <<>>
      /\ \A n \in 1 .. Len(list) :
            kept[n] = IF list[n] \in S THEN kept[n - 1] ELSE Append(kept[n - 1], list[n])
  <2>1. \A n \in 0 .. Len(list) :
           kept[n] = IF n = 0 THEN <<>>
                     ELSE IF list[n] \in S THEN kept[n - 1]
                     ELSE Append(kept[n - 1], list[n])
    BY <1>2, Zenon DEF Filtered
  <2> QED  BY <1>0, <2>1
<1> DEFINE Good(n) == kept[n] \in Seq(R) /\ KeptOf(list, S, kept[n], n)
<1>4. Good(0)
  BY <1>a DEF NoRepeats, KeptOf
<1>5. ASSUME NEW n \in 1 .. Len(list), Good(n - 1)  PROVE Good(n)
  <2>1. CASE list[n] \in S
    <3>1. kept[n] = kept[n - 1] /\ n - 1 \in Nat
      BY <1>a, <2>1
    <3>2. KeptOf(list, S, kept[n], n - 1)
      BY <1>5, <3>1
    <3>3. Len(kept[n]) \in Nat /\ Len(kept[n]) <= n
      BY <1>5, <3>1, <3>2 DEF KeptOf
    <3>4. /\ \A k \in 1 .. Len(kept[n]) :
                \E m \in 1 .. n : kept[n][k] = list[m] /\ list[m] \notin S
          /\ \A m \in 1 .. n :
                list[m] \notin S => \E k \in 1 .. Len(kept[n]) : kept[n][k] = list[m]
      <4>1. \A k \in 1 .. Len(kept[n]) :
                \E m \in 1 .. n - 1 : kept[n][k] = list[m] /\ list[m] \notin S
        BY <3>2 DEF KeptOf
      <4>2. ASSUME NEW m \in 1 .. n, list[m] \notin S
            PROVE  \E k \in 1 .. Len(kept[n]) : kept[n][k] = list[m]
        <5>1. m \in 1 .. n - 1
          BY <2>1, <4>2
        <5> QED  BY <3>2, <4>2, <5>1 DEF KeptOf
      <4> QED  BY <4>1, <4>2
    <3>5. list[1] \notin S => Len(kept[n]) >= 1 /\ kept[n][1] = list[1]
      BY <2>1, <3>2 DEF KeptOf
    <3> QED  BY <1>5, <3>1, <3>2, <3>3, <3>4, <3>5 DEF KeptOf
  <2>2. CASE list[n] \notin S
    <3>1. kept[n] = Append(kept[n - 1], list[n])
      BY <1>a, <2>2
    <3> QED  BY <1>5, <2>2, <3>1, KeepOneMore
  <2> QED  BY <2>1, <2>2
<1> HIDE DEF Good
<1>6. Good(Len(list))
  <2> DEFINE bad == {n \in 0 .. Len(list) : ~Good(n)}
  <2> SUFFICES ASSUME bad # {}  PROVE FALSE
    BY <1>0
  <2>a. bad \in SUBSET Nat
    BY <1>0
  <2> HIDE DEF bad
  <2>b. \E n \in bad : \A m \in bad : n <= m
    BY <2>a, LeastNatural
  <2> USE DEF bad
  <2>1. PICK n \in bad : \A m \in bad : n <= m
    BY <2>b
  <2>2. n # 0
    BY <1>4, <2>1
  <2>3. n - 1 \notin bad /\ n - 1 \in 0 .. Len(list)
    BY <1>0, <2>1, <2>2
  <2> QED  BY <1>5, <2>1, <2>2, <2>3
<1> DEFINE t == kept[Len(list)]
<1>7. /\ t \in Seq(R) /\ Len(t) <= Len(list)
      /\ \A k \in 1 .. Len(t) : \E m \in 1 .. Len(list) : t[k] = list[m] /\ list[m] \notin S
      /\ \A m \in 1 .. Len(list) : list[m] \notin S => \E k \in 1 .. Len(t) : t[k] = list[m]
      /\ NoRepeats(list) => NoRepeats(t)
      /\ Len(list) # 0 /\ list[1] \notin S => Len(t) >= 1 /\ t[1] = list[1]
  BY <1>6 DEF Good, KeptOf
<1> HIDE DEF t
<1>8. DOMAIN t = 1 .. Len(t) /\ Len(t) \in Nat
  BY <1>7
<1>9. Elements(t) = Elements(list) \ S
  <2>1. \A x : x \in Elements(t) <=> \E k \in 1 .. Len(t) : x = t[k]
    BY <1>8 DEF Elements
  <2>2. \A x : x \in Elements(list) <=> \E m \in 1 .. Len(list) : x = list[m]
    BY <1>0 DEF Elements
  <2>3. ASSUME NEW x \in Elements(t)  PROVE x \in Elements(list) \ S
    <3>1. PICK k \in 1 .. Len(t) : x = t[k]
      BY <2>1
    <3>2. PICK m \in 1 .. Len(list) : t[k] = list[m] /\ list[m] \notin S
      BY <1>7
    <3> QED  BY <2>2, <3>1, <3>2, Zenon
  <2>4. ASSUME NEW x \in Elements(list) \ S  PROVE x \in Elements(t)
    <3>1. PICK m \in 1 .. Len(list) : x = list[m]
      BY <2>2, Zenon
    <3>2. PICK k \in 1 .. Len(t) : t[k] = list[m]
      BY <1>7, <3>1
    <3> QED  BY <2>1, <3>1, <3>2, Zenon
  <2> QED  BY <2>3, <2>4
<1>10. list # <<>> /\ Head(list) \notin S => t # <<>> /\ Head(t) = Head(list)
  <2> SUFFICES ASSUME list # <<>>, Head(list) \notin S
               PROVE  t # <<>> /\ Head(t) = Head(list)
    OBVIOUS
  <2>1. Head(list) = list[1] /\ Len(list) # 0
    BY <1>0
  <2>2. Len(t) >= 1 /\ t[1] = list[1]
    BY <1>7, <2>1
  <2> QED  BY <1>7, <1>8, <2>1, <2>2
<1> QED  BY <1>3, <1>7, <1>9, <1>10 DEF t

(* Append adds its element, and repeats nothing if it is new.               *)
LEMMA AppendElements ==
  ASSUME NEW R, NEW list \in Seq(R), NEW x \in R
  PROVE  LET t == Append(list, x)
         IN  /\ t \in Seq(R)
             /\ Len(t) = Len(list) + 1
             /\ Elements(t) = Elements(list) \cup {x}
             /\ NoRepeats(list) /\ x \notin Elements(list) => NoRepeats(t)
             /\ Head(t) = IF list = <<>> THEN x ELSE Head(list)
<1> DEFINE t == Append(list, x)
<1>1. /\ t \in Seq(R) /\ Len(t) = Len(list) + 1 /\ Len(list) \in Nat
      /\ \A k \in 1 .. Len(list) : t[k] = list[k]
      /\ t[Len(list) + 1] = x
      /\ DOMAIN t = 1 .. Len(list) + 1 /\ DOMAIN list = 1 .. Len(list)
  BY AppendProperties
<1>2. Head(t) = IF list = <<>> THEN x ELSE Head(list)
  BY HeadTailAppend
<1> HIDE DEF t
<1>3. Elements(t) = Elements(list) \cup {x}
  BY <1>1 DEF Elements
<1>4. NoRepeats(list) /\ x \notin Elements(list) => NoRepeats(t)
  BY <1>1 DEF Elements, NoRepeats
<1> QED  BY <1>1, <1>2, <1>3, <1>4 DEF t

(* A list without repeats is as long as it has elements.                    *)
LEMMA LengthCounts ==
  ASSUME NEW R, NEW list \in Seq(R), NoRepeats(list)
  PROVE  IsFiniteSet(Elements(list)) /\ Cardinality(Elements(list)) = Len(list)
<1>1. Len(list) \in Nat /\ list \in [1 .. Len(list) -> Elements(list)]
      /\ DOMAIN list = 1 .. Len(list)
  BY DEF Elements
<1>2. list \in Bijection(1 .. Len(list), Elements(list))
  BY <1>1 DEF Bijection, Injection, Surjection, Elements, NoRepeats, IsInjective
<1>3. ExistsBijection(1 .. Len(list), Elements(list))
  BY <1>2 DEF ExistsBijection
<1> QED  BY <1>1, <1>3, FS_CountingElements, FS_NatBijection

(* Taking the last element leaves the others.                               *)
LEMMA LastTaken ==
  ASSUME NEW R, NEW list \in Seq(R), list # <<>>
  PROVE  LET t == SubSeq(list, 1, Len(list) - 1)
         IN  /\ t \in Seq(R) /\ Len(t) = Len(list) - 1
             /\ Elements(t) \subseteq Elements(list)
             /\ list[Len(list)] \in Elements(list) /\ list[Len(list)] \in R
<1> DEFINE t == SubSeq(list, 1, Len(list) - 1)
<1>1. Len(list) \in Nat \ {0} /\ DOMAIN list = 1 .. Len(list)
  OBVIOUS
<1>2. /\ t \in Seq(R) /\ Len(t) = Len(list) - 1
      /\ \A k \in 1 .. Len(list) - 1 : t[k] = list[k]
  BY <1>1
<1> HIDE DEF t
<1>3. DOMAIN t = 1 .. Len(list) - 1
  BY <1>1, <1>2
<1>4. Elements(t) \subseteq Elements(list) /\ list[Len(list)] \in Elements(list)
  BY <1>1, <1>2, <1>3 DEF Elements
<1> QED  BY <1>1, <1>2, <1>4 DEF t

(* Putting the same element on the end of a list a number of times.         *)
LEMMA CopiesAdded ==
  ASSUME NEW R, NEW list \in Seq(R), NEW x \in R, NEW P \in Nat \ {0}
  PROVE  LET t == list \o [n \in 1 .. P |-> x]
         IN  /\ t \in Seq(R) /\ Len(t) = Len(list) + P
             /\ Elements(t) = Elements(list) \cup {x}
             /\ t[Len(t)] = x
<1> DEFINE copies == [n \in 1 .. P |-> x]
           t == list \o copies
<1>1. /\ copies \in Seq(R) /\ Len(copies) = P /\ \A n \in 1 .. P : copies[n] = x
      /\ Len(list) \in Nat /\ DOMAIN list = 1 .. Len(list)
  OBVIOUS
<1> HIDE DEF copies
<1>2. /\ t \in Seq(R) /\ Len(t) = Len(list) + P
      /\ \A k \in 1 .. Len(list) + P :
            t[k] = IF k <= Len(list) THEN list[k] ELSE copies[k - Len(list)]
  BY <1>1, ConcatProperties
<1> HIDE DEF t
<1>3. DOMAIN t = 1 .. Len(list) + P
  BY <1>1, <1>2
<1>5. \A k \in 1 .. Len(list) : t[k] = list[k]
  BY <1>1, <1>2
<1>a. ASSUME NEW k \in 1 .. Len(list) + P, ~(k <= Len(list))  PROVE t[k] = x
  <2>1. k - Len(list) \in 1 .. P
    BY <1>1, <1>a
  <2> QED  BY <1>1, <1>2, <1>a, <2>1
<1>4. t[Len(t)] = x
  <2>1. Len(list) + P \in 1 .. Len(list) + P /\ ~(Len(list) + P <= Len(list))
    BY <1>1
  <2> QED  BY <1>2, <1>a, <2>1
<1>6. Elements(t) = Elements(list) \cup {x}
  <2>1. ASSUME NEW k \in 1 .. Len(list) + P  PROVE t[k] \in Elements(list) \cup {x}
    <3>1. CASE k <= Len(list)
      BY <1>1, <1>5, <3>1 DEF Elements
    <3>2. CASE ~(k <= Len(list))
      BY <1>a, <3>2
    <3> QED  BY <3>1, <3>2
  <2>2. x \in Elements(t)
    BY <1>1, <1>2, <1>3, <1>4 DEF Elements
  <2>3. Elements(list) \subseteq Elements(t)
    BY <1>1, <1>3, <1>5 DEF Elements
  <2>4. Elements(t) \subseteq Elements(list) \cup {x}
    BY <1>3, <2>1 DEF Elements
  <2> QED  BY <2>2, <2>3, <2>4
<1> QED  BY <1>2, <1>4, <1>6 DEF t, copies

-----------------------------------------------------------------------------
(* Filtering step by step, and what two filtered lists have in common.      *)

\* What holds of 0, and of each number up to N with the one before, holds of them all.
LEMMA CountingUp ==
  ASSUME NEW N \in Nat, NEW G, 0 \in G, \A n \in 1 .. N : n - 1 \in G => n \in G
  PROVE  \A n \in 0 .. N : n \in G
<1> DEFINE bad == {n \in 0 .. N : n \notin G}
<1> SUFFICES ASSUME bad # {}  PROVE FALSE
  OBVIOUS
<1>1. bad \in SUBSET Nat
  OBVIOUS
<1> HIDE DEF bad
<1>2. \E n \in bad : \A m \in bad : n <= m
  BY <1>1, LeastNatural
<1> USE DEF bad
<1>3. PICK n \in bad : \A m \in bad : n <= m
  BY <1>2
<1>4. n \in 1 .. N /\ n - 1 \in 0 .. N /\ n - 1 \notin bad
  BY <1>3
<1> QED  BY <1>3, <1>4

\* kept[n] is what the filter leaves of the first n elements.
Sieve(list, S, kept) ==
    /\ kept[0] = <<>>
    /\ \A n \in 1 .. Len(list) :
          kept[n] = IF list[n] \in S THEN kept[n - 1] ELSE Append(kept[n - 1], list[n])

LEMMA OmittingSieve ==
  ASSUME NEW R, NEW list \in Seq(R), NEW S
  PROVE  \E kept : /\ Sieve(list, S, kept) /\ Omitting(list, S) = kept[Len(list)]
                   /\ \A n \in 0 .. Len(list) : kept[n] \in Seq(R) /\ KeptOf(list, S, kept[n], n)
<1>0. Len(list) \in Nat /\ DOMAIN list = 1 .. Len(list)
  OBVIOUS
<1>1. PICK kept : kept = CHOOSE f : Filtered(list, S, f, Len(list))
  OBVIOUS
<1>2. Filtered(list, S, kept, Len(list))
  BY <1>0, <1>1, FilteredExists
<1>3. Omitting(list, S) = kept[Len(list)]
  BY <1>1 DEF Omitting, Filtered
<1>4. Sieve(list, S, kept)
  <2>1. \A n \in 0 .. Len(list) :
           kept[n] = IF n = 0 THEN <<>>
                     ELSE IF list[n] \in S THEN kept[n - 1]
                     ELSE Append(kept[n - 1], list[n])
    BY <1>2, Zenon DEF Filtered
  <2> QED  BY <1>0, <2>1 DEF Sieve
<1> DEFINE G == {n \in 0 .. Len(list) : kept[n] \in Seq(R) /\ KeptOf(list, S, kept[n], n)}
<1>5. 0 \in G
  <2>1. kept[0] = <<>> /\ <<>> \in Seq(R) /\ Len(<<>>) = 0 /\ NoRepeats(<<>>)
    BY <1>4 DEF Sieve, NoRepeats
  <2> DEFINE none == kept[0]
  <2>2. none \in Seq(R) /\ Len(none) = 0 /\ NoRepeats(none)
    BY <2>1
  <2> HIDE DEF none
  <2>3. KeptOf(list, S, none, 0)
    BY <2>2 DEF KeptOf
  <2>4. 0 \in 0 .. Len(list)
    BY <1>0
  <2> QED  BY <2>2, <2>3, <2>4 DEF none
<1>6. ASSUME NEW n \in 1 .. Len(list), n - 1 \in G  PROVE n \in G
  <2>0. /\ kept[n] = IF list[n] \in S THEN kept[n - 1] ELSE Append(kept[n - 1], list[n])
        /\ kept[n - 1] \in Seq(R) /\ KeptOf(list, S, kept[n - 1], n - 1)
    BY <1>4, <1>6 DEF Sieve
  <2> DEFINE t == kept[n - 1]
  <2>1. CASE list[n] \in S
    <3>1. kept[n] = t /\ t \in Seq(R) /\ KeptOf(list, S, t, n - 1)
      BY <2>0, <2>1
    <3> HIDE DEF t
    <3>2. Len(t) \in Nat /\ Len(t) <= n
      BY <3>1 DEF KeptOf
    <3>3. /\ \A k \in 1 .. Len(t) : \E m \in 1 .. n : t[k] = list[m] /\ list[m] \notin S
          /\ \A m \in 1 .. n : list[m] \notin S => \E k \in 1 .. Len(t) : t[k] = list[m]
      <4>1. \A k \in 1 .. Len(t) : \E m \in 1 .. n - 1 : t[k] = list[m] /\ list[m] \notin S
        BY <3>1 DEF KeptOf
      <4>2. ASSUME NEW m \in 1 .. n, list[m] \notin S
            PROVE  \E k \in 1 .. Len(t) : t[k] = list[m]
        <5>1. m \in 1 .. n - 1
          BY <2>1, <4>2
        <5> QED  BY <3>1, <4>2, <5>1 DEF KeptOf
      <4>3. 1 .. n - 1 \subseteq 1 .. n
        OBVIOUS
      <4> QED  BY <4>1, <4>2, <4>3
    <3>4. list[1] \notin S => Len(t) >= 1 /\ t[1] = list[1]
      BY <2>1, <3>1 DEF KeptOf
    <3>5. KeptOf(list, S, t, n)
      BY <3>1, <3>2, <3>3, <3>4 DEF KeptOf
    <3> QED  BY <3>1, <3>5
  <2>2. CASE list[n] \notin S
    <3>1. t \in Seq(R) /\ KeptOf(list, S, t, n - 1) /\ kept[n] = Append(t, list[n])
      BY <2>0, <2>2
    <3> HIDE DEF t
    <3>2. Append(t, list[n]) \in Seq(R) /\ KeptOf(list, S, Append(t, list[n]), n)
      BY <2>2, <3>1, KeepOneMore
    <3>3. kept[n] \in Seq(R) /\ KeptOf(list, S, kept[n], n)
      BY <3>1, <3>2, Zenon
    <3> QED  BY <1>0, <3>3
  <2> QED  BY <2>1, <2>2
<1>7. \A n \in 0 .. Len(list) : n \in G
  <2> HIDE DEF G
  <2> QED  BY <1>0, <1>5, <1>6, CountingUp
<1> QED  BY <1>3, <1>4, <1>7

\* Two lists agree place by place on what is filtered out, and on what f and g show of
\* the rest.
FilteredAlike(one, S, two, T, f, g) ==
    /\ Len(one) = Len(two)
    /\ \A n \in 1 .. Len(one) : (one[n] \in S) = (two[n] \in T)
    /\ \A n \in 1 .. Len(one) : one[n] \notin S => f[one[n]] = g[two[n]]
ShownAlike(a, b, f, g) == Len(a) = Len(b) /\ \A k \in 1 .. Len(a) : f[a[k]] = g[b[k]]

\* Such lists leave lists that agree place by place.
LEMMA OmittingAlike ==
  ASSUME NEW R, NEW one \in Seq(R), NEW Q, NEW two \in Seq(Q), NEW S, NEW T, NEW f, NEW g,
         FilteredAlike(one, S, two, T, f, g)
  PROVE  ShownAlike(Omitting(one, S), Omitting(two, T), f, g)
<1>0. /\ Len(one) \in Nat /\ Len(one) = Len(two)
      /\ \A n \in 1 .. Len(one) : (one[n] \in S) = (two[n] \in T)
      /\ \A n \in 1 .. Len(one) : one[n] \notin S => f[one[n]] = g[two[n]]
  BY DEF FilteredAlike
<1>1. PICK p : /\ Sieve(one, S, p) /\ Omitting(one, S) = p[Len(one)]
               /\ \A n \in 0 .. Len(one) : p[n] \in Seq(R) /\ KeptOf(one, S, p[n], n)
  BY OmittingSieve
<1>2. PICK q : /\ Sieve(two, T, q) /\ Omitting(two, T) = q[Len(two)]
               /\ \A n \in 0 .. Len(two) : q[n] \in Seq(Q) /\ KeptOf(two, T, q[n], n)
  BY OmittingSieve
<1> DEFINE Alike(n) == Len(p[n]) = Len(q[n]) /\ \A k \in 1 .. Len(p[n]) : f[p[n][k]] = g[q[n][k]]
           G == {n \in 0 .. Len(one) : Alike(n)}
<1>3. 0 \in G
  BY <1>0, <1>1, <1>2 DEF Sieve
<1>4. ASSUME NEW n \in 1 .. Len(one), n - 1 \in G  PROVE n \in G
  <2> DEFINE a == p[n - 1]
             b == q[n - 1]
  <2>1. /\ a \in Seq(R) /\ b \in Seq(Q) /\ Len(a) = Len(b)
        /\ \A k \in 1 .. Len(a) : f[a[k]] = g[b[k]]
        /\ one[n] \in R /\ two[n] \in Q
    BY <1>0, <1>1, <1>2, <1>4
  <2>2. /\ p[n] = IF one[n] \in S THEN a ELSE Append(a, one[n])
        /\ q[n] = IF two[n] \in T THEN b ELSE Append(b, two[n])
    BY <1>0, <1>1, <1>2 DEF Sieve
  <2> HIDE DEF a, b
  <2>3. CASE one[n] \in S
    <3>1. p[n] = a /\ q[n] = b /\ n \in 0 .. Len(one)
      BY <1>0, <2>2, <2>3
    <3> QED  BY <2>1, <3>1
  <2>4. CASE one[n] \notin S
    <3>1. p[n] = Append(a, one[n]) /\ q[n] = Append(b, two[n]) /\ f[one[n]] = g[two[n]]
      BY <1>0, <2>2, <2>4
    <3>2. /\ Len(p[n]) = Len(a) + 1 /\ Len(q[n]) = Len(a) + 1
          /\ \A k \in 1 .. Len(a) : p[n][k] = a[k] /\ q[n][k] = b[k]
          /\ p[n][Len(a) + 1] = one[n] /\ q[n][Len(a) + 1] = two[n]
      BY <2>1, <3>1
    <3>3. ASSUME NEW k \in 1 .. Len(a) + 1  PROVE f[p[n][k]] = g[q[n][k]]
      <4>1. CASE k = Len(a) + 1
        BY <3>1, <3>2, <4>1
      <4>2. CASE k # Len(a) + 1
        <5>1. k \in 1 .. Len(a)
          BY <2>1, <4>2
        <5> QED  BY <2>1, <3>2, <5>1
      <4> QED  BY <4>1, <4>2
    <3>4. Len(p[n]) = Len(q[n]) /\ \A k \in 1 .. Len(p[n]) : f[p[n][k]] = g[q[n][k]]
      BY <3>2, <3>3
    <3>5. n \in 0 .. Len(one)
      BY <1>0
    <3> QED  BY <3>4, <3>5
  <2> QED  BY <2>3, <2>4
<1>5. \A n \in 0 .. Len(one) : n \in G
  <2> HIDE DEF G
  <2> QED  BY <1>0, <1>3, <1>4, CountingUp
<1>6. Alike(Len(one))
  BY <1>0, <1>5
<1> QED  BY <1>0, <1>1, <1>2, <1>6 DEF ShownAlike

\* Lists that begin alike leave lists that begin alike: r elements are left of the
\* first q, in both.
Begins(list, S, q, t, r) ==
    /\ r \in Nat /\ r <= Len(t)
    /\ \A k \in 1 .. r : \E m \in 1 .. q : t[k] = list[m]
    /\ \A m \in 1 .. q : list[m] \notin S => \E k \in 1 .. r : t[k] = list[m]
    /\ q # 0 /\ list[q] \notin S => r # 0 /\ t[r] = list[q]

SameBeginning(one, S, two, T, q) ==
    /\ q \in 0 .. Len(one) /\ q <= Len(two)
    /\ \A n \in 1 .. q : one[n] = two[n] /\ (one[n] \in S) = (two[n] \in T)
BeginningKept(one, S, two, T, q, r) ==
    /\ Begins(one, S, q, Omitting(one, S), r) /\ Begins(two, T, q, Omitting(two, T), r)
    /\ \A k \in 1 .. r : Omitting(one, S)[k] = Omitting(two, T)[k]
LEMMA OmittingFront ==
  ASSUME NEW R, NEW one \in Seq(R), NEW S, NEW two \in Seq(R), NEW T,
         NEW q, SameBeginning(one, S, two, T, q)
  PROVE  \E r : BeginningKept(one, S, two, T, q, r)
<1>0. /\ Len(one) \in Nat /\ Len(two) \in Nat /\ q \in Nat
      /\ q \in 0 .. Len(one) /\ q <= Len(two)
      /\ \A n \in 1 .. q : one[n] = two[n] /\ (one[n] \in S) = (two[n] \in T)
  BY DEF SameBeginning
<1>1. PICK u : /\ Sieve(one, S, u) /\ Omitting(one, S) = u[Len(one)]
               /\ \A n \in 0 .. Len(one) : u[n] \in Seq(R) /\ KeptOf(one, S, u[n], n)
  BY OmittingSieve
<1>2. PICK v : /\ Sieve(two, T, v) /\ Omitting(two, T) = v[Len(two)]
               /\ \A n \in 0 .. Len(two) : v[n] \in Seq(R) /\ KeptOf(two, T, v[n], n)
  BY OmittingSieve
<1> DEFINE G == {n \in 0 .. q : u[n] = v[n]}
<1>3. u[q] = v[q]
  <2>1. 0 \in G
    BY <1>0, <1>1, <1>2 DEF Sieve
  <2>2. ASSUME NEW n \in 1 .. q, n - 1 \in G  PROVE n \in G
    <3>1. n \in 1 .. Len(one) /\ n \in 1 .. Len(two) /\ n \in 0 .. q
      BY <1>0
    <3>2. /\ u[n] = IF one[n] \in S THEN u[n - 1] ELSE Append(u[n - 1], one[n])
          /\ v[n] = IF two[n] \in T THEN v[n - 1] ELSE Append(v[n - 1], two[n])
      BY <1>1, <1>2, <3>1 DEF Sieve
    <3>3. one[n] = two[n] /\ (one[n] \in S) = (two[n] \in T) /\ u[n - 1] = v[n - 1]
      BY <1>0, <2>2
    <3> QED  BY <3>1, <3>2, <3>3
  <2>3. \A n \in 0 .. q : n \in G
    <3> HIDE DEF G
    <3> QED  BY <1>0, <2>1, <2>2, CountingUp
  <2> QED  BY <1>0, <2>3
<1> DEFINE r == Len(u[q])
<1>4. /\ u[q] \in Seq(R) /\ r \in Nat /\ KeptOf(one, S, u[q], q) /\ KeptOf(two, T, u[q], q)
  BY <1>0, <1>1, <1>2, <1>3
<1>5. q # 0 /\ one[q] \notin S => r # 0 /\ u[q][r] = one[q]
  <2> SUFFICES ASSUME q # 0, one[q] \notin S  PROVE r # 0 /\ u[q][r] = one[q]
    OBVIOUS
  <2>1. q \in 1 .. Len(one) /\ u[q - 1] \in Seq(R) /\ one[q] \in R
    BY <1>0, <1>1
  <2>2. u[q] = Append(u[q - 1], one[q])
    BY <1>1, <2>1 DEF Sieve
  <2> QED  BY <2>1, <2>2
<1> HIDE DEF r
<1>6. ASSUME NEW list \in Seq(R), NEW U, NEW w, Sieve(list, U, w), q <= Len(list),
             \A n \in 0 .. Len(list) : w[n] \in Seq(R), w[q] = u[q]
      PROVE  r <= Len(w[Len(list)]) /\ \A k \in 1 .. r : w[Len(list)][k] = u[q][k]
  <2> DEFINE Starts(n) == r <= Len(w[n]) /\ \A k \in 1 .. r : w[n][k] = u[q][k]
             H == {n \in 0 .. Len(list) : n < q \/ Starts(n)}
  <2>0. Len(list) \in Nat /\ r = Len(u[q])
    BY DEF r
  <2>1. 0 \in H
    <3>1. q = 0 => Starts(0)
      BY <1>4, <1>6, <2>0
    <3> QED  BY <1>0, <2>0, <3>1
  <2>2. ASSUME NEW n \in 1 .. Len(list), n - 1 \in H  PROVE n \in H
    <3>1. CASE n < q
      BY <3>1
    <3>2. CASE n = q
      BY <1>4, <1>6, <2>0, <3>2
    <3>3. CASE n > q
      <4>1. Starts(n - 1) /\ w[n - 1] \in Seq(R) /\ list[n] \in R
        <5>1. n - 1 \in 0 .. Len(list) /\ ~(n - 1 < q)
          BY <1>0, <2>0, <3>3
        <5>2. Starts(n - 1)
          BY <2>2, <5>1
        <5> QED  BY <1>6, <5>1, <5>2
      <4>2. w[n] = IF list[n] \in U THEN w[n - 1] ELSE Append(w[n - 1], list[n])
        BY <1>6 DEF Sieve
      <4>3. Starts(n)
        <5> DEFINE before == w[n - 1]
        <5>1. /\ before \in Seq(R) /\ r <= Len(before) /\ \A k \in 1 .. r : before[k] = u[q][k]
              /\ w[n] = before \/ w[n] = Append(before, list[n])
          BY <4>1, <4>2
        <5> HIDE DEF before
        <5>2. CASE w[n] = before
          BY <5>1, <5>2
        <5>3. CASE w[n] = Append(before, list[n])
          <6>1. /\ Len(w[n]) = Len(before) + 1 /\ Len(before) \in Nat
                /\ \A k \in 1 .. Len(before) : w[n][k] = before[k]
            BY <4>1, <5>1, <5>3, AppendProperties
          <6> QED  BY <1>4, <5>1, <6>1
        <5> QED  BY <5>1, <5>2, <5>3
      <4> QED  BY <4>3
    <3> QED  BY <1>0, <3>1, <3>2, <3>3
  <2>3. \A n \in 0 .. Len(list) : n \in H
    <3> HIDE DEF H
    <3> QED  BY <2>0, <2>1, <2>2, CountingUp
  <2>4. Len(list) \in H /\ ~(Len(list) < q)
    BY <1>0, <1>6, <2>0, <2>3
  <2> QED  BY <2>4
<1> DEFINE a == Omitting(one, S)
           b == Omitting(two, T)
<1>7. r <= Len(a) /\ \A k \in 1 .. r : a[k] = u[q][k]
  BY <1>0, <1>1, <1>6
<1>8. r <= Len(b) /\ \A k \in 1 .. r : b[k] = u[q][k]
  BY <1>0, <1>2, <1>3, <1>6
<1> HIDE DEF a, b
<1>9. /\ \A k \in 1 .. r : \E m \in 1 .. q : u[q][k] = one[m]
      /\ \A m \in 1 .. q : one[m] \notin S => \E k \in 1 .. r : u[q][k] = one[m]
  BY <1>4 DEF KeptOf, r
<1>10. Begins(one, S, q, a, r)
  <2>1. \A k \in 1 .. r : \E m \in 1 .. q : a[k] = one[m]
    BY <1>7, <1>9
  <2>2. \A m \in 1 .. q : one[m] \notin S => \E k \in 1 .. r : a[k] = one[m]
    BY <1>7, <1>9
  <2>3. q # 0 /\ one[q] \notin S => r # 0 /\ a[r] = one[q]
    BY <1>4, <1>5, <1>7
  <2> QED  BY <1>4, <1>7, <2>1, <2>2, <2>3 DEF Begins
<1>11. Begins(two, T, q, b, r)
  <2>1. ASSUME NEW k \in 1 .. r  PROVE \E m \in 1 .. q : b[k] = two[m]
    <3>1. PICK m \in 1 .. q : u[q][k] = one[m]
      BY <1>9
    <3> QED  BY <1>0, <1>8, <3>1
  <2>2. ASSUME NEW m \in 1 .. q, two[m] \notin T  PROVE \E k \in 1 .. r : b[k] = two[m]
    <3>1. one[m] = two[m] /\ one[m] \notin S
      BY <1>0, <2>2
    <3> QED  BY <1>8, <1>9, <3>1
  <2>3. q # 0 /\ two[q] \notin T => r # 0 /\ b[r] = two[q]
    BY <1>0, <1>4, <1>5, <1>8
  <2> QED  BY <1>4, <1>8, <2>1, <2>2, <2>3 DEF Begins
<1> QED  BY <1>7, <1>8, <1>10, <1>11 DEF a, b, BeginningKept

-----------------------------------------------------------------------------
(* Cutting and splicing a list: the order of an axis.                       *)

(* SubSeq, in the cases the code uses: never out of bounds.                *)
LEMMA SubSeqAt ==
    ASSUME NEW S, NEW s \in Seq(S), NEW m \in Nat \ {0}, NEW n \in Nat, n <= Len(s)
    PROVE  /\ SubSeq(s, m, n) \in Seq(S)
           /\ Len(SubSeq(s, m, n)) = IF m <= n THEN n - m + 1 ELSE 0
           /\ \A i \in 1 .. Len(SubSeq(s, m, n)) : SubSeq(s, m, n)[i] = s[m + i - 1]
  OBVIOUS

LEMMA ConcatAt ==
    ASSUME NEW S, NEW s \in Seq(S), NEW t \in Seq(S)
    PROVE  /\ s \o t \in Seq(S)
           /\ Len(s \o t) = Len(s) + Len(t)
           /\ \A i \in 1 .. Len(s \o t) :
                (s \o t)[i] = IF i <= Len(s) THEN s[i] ELSE t[i - Len(s)]
  OBVIOUS

(* A delete takes a block out and closes the gap.                          *)
LEMMA WithoutAt ==
    ASSUME NEW S, NEW o \in Seq(S), NEW src \in Nat \ {0}, NEW n \in Nat \ {0}
    PROVE  /\ Without(o, src, n) \in Seq(S)
           /\ Len(Without(o, src, n)) =
                IF src > Len(o) THEN Len(o)
                ELSE IF src + n - 1 <= Len(o) THEN Len(o) - n ELSE src - 1
           /\ \A i \in 1 .. Len(Without(o, src, n)) :
                Without(o, src, n)[i] = IF i < src THEN o[i] ELSE o[i + n]
<1> DEFINE head == SubSeq(o, 1, MinOf(src - 1, Len(o)))
           tail == SubSeq(o, src + n, Len(o))
<1>1. /\ head \in Seq(S)
      /\ Len(head) = MinOf(src - 1, Len(o))
      /\ \A i \in 1 .. Len(head) : head[i] = o[i]
  <2>1. MinOf(src - 1, Len(o)) \in Nat /\ MinOf(src - 1, Len(o)) <= Len(o)
    BY DEF MinOf
  <2> QED  BY <2>1, SubSeqAt
<1>2. /\ tail \in Seq(S)
      /\ Len(tail) = IF src + n <= Len(o) THEN Len(o) - src - n + 1 ELSE 0
      /\ \A i \in 1 .. Len(tail) : tail[i] = o[src + n + i - 1]
  BY SubSeqAt, src + n \in Nat \ {0}
<1>3. Without(o, src, n) = head \o tail
  BY DEF Without
<1>4. /\ head \o tail \in Seq(S)
      /\ Len(head \o tail) = Len(head) + Len(tail)
      /\ \A i \in 1 .. Len(head \o tail) :
            (head \o tail)[i] = IF i <= Len(head) THEN head[i] ELSE tail[i - Len(head)]
  BY ConcatAt, <1>1, <1>2
<1> HIDE DEF head, tail
<1>5. Len(o) \in Nat /\ Len(head) \in Nat /\ Len(tail) \in Nat
  BY <1>1, <1>2
<1>6. CASE src > Len(o)
  <2>1. Len(head) = Len(o) /\ Len(tail) = 0
    BY <1>1, <1>2, <1>5, <1>6 DEF MinOf
  <2> QED  BY <1>1, <1>3, <1>4, <1>5, <1>6, <2>1
<1>7. CASE src <= Len(o)
  <2>1. Len(head) = src - 1
    BY <1>1, <1>5, <1>7 DEF MinOf
  <2>2. Len(head \o tail) = IF src + n - 1 <= Len(o) THEN Len(o) - n ELSE src - 1
    BY <1>2, <1>4, <1>5, <1>7, <2>1
  <2>3. ASSUME NEW i \in 1 .. Len(head \o tail), i >= src
        PROVE  (head \o tail)[i] = o[i + n]
    <3>1. i - Len(head) \in 1 .. Len(tail)
      BY <1>4, <1>5, <2>1, <2>3
    <3>2. tail[i - Len(head)] = o[src + n + (i - Len(head)) - 1]
      BY <1>2, <3>1
    <3>3. src + n + (i - Len(head)) - 1 = i + n
      BY <1>5, <2>1
    <3> QED  BY <1>4, <2>1, <2>3, <3>2, <3>3
  <2>4. ASSUME NEW i \in 1 .. Len(head \o tail), i < src
        PROVE  (head \o tail)[i] = o[i]
    BY <1>1, <1>4, <1>5, <2>1, <2>4
  <2> QED  BY <1>3, <1>4, <1>5, <1>7, <2>2, <2>3, <2>4
<1> QED  BY <1>5, <1>6, <1>7

(* An insert opens a gap of exactly the new lines.                         *)
LEMMA PutBeforeAt ==
    ASSUME NEW S, NEW o \in Seq(S), NEW new \in Seq(S), NEW at \in 1 .. (Len(o) + 1)
    PROVE  /\ PutBefore(o, at, new) \in Seq(S)
           /\ Len(PutBefore(o, at, new)) = Len(o) + Len(new)
           /\ \A i \in 1 .. Len(PutBefore(o, at, new)) :
                PutBefore(o, at, new)[i] =
                    IF i < at THEN o[i]
                    ELSE IF i < at + Len(new) THEN new[i - at + 1]
                    ELSE o[i - Len(new)]
<1> DEFINE head == SubSeq(o, 1, at - 1)
           tail == SubSeq(o, at, Len(o))
<1>0. Len(o) \in Nat /\ Len(new) \in Nat /\ at \in Nat \ {0}
  OBVIOUS
<1>1. /\ head \in Seq(S)
      /\ Len(head) = at - 1
      /\ \A i \in 1 .. Len(head) : head[i] = o[i]
  <2>1. at - 1 \in Nat /\ at - 1 <= Len(o)
    BY <1>0
  <2> QED  BY <2>1, SubSeqAt
<1>2. /\ tail \in Seq(S)
      /\ Len(tail) = Len(o) - at + 1
      /\ \A i \in 1 .. Len(tail) : tail[i] = o[at + i - 1]
  BY <1>0, SubSeqAt
<1>3. PutBefore(o, at, new) = head \o new \o tail
  BY DEF PutBefore
<1> HIDE DEF head, tail
<1>4. /\ head \o new \in Seq(S)
      /\ Len(head \o new) = at - 1 + Len(new)
      /\ \A i \in 1 .. Len(head \o new) :
            (head \o new)[i] = IF i < at THEN o[i] ELSE new[i - at + 1]
  <2>1. /\ head \o new \in Seq(S)
        /\ Len(head \o new) = Len(head) + Len(new)
        /\ \A i \in 1 .. Len(head \o new) :
              (head \o new)[i] = IF i <= Len(head) THEN head[i] ELSE new[i - Len(head)]
    BY <1>1, ConcatAt
  <2>2. ASSUME NEW i \in 1 .. Len(head \o new), i >= at
        PROVE  (head \o new)[i] = new[i - at + 1]
    <3>1. i - Len(head) = i - at + 1 /\ ~(i <= Len(head))
      BY <1>0, <1>1, <2>2
    <3> QED  BY <2>1, <3>1
  <2>3. ASSUME NEW i \in 1 .. Len(head \o new), i < at
        PROVE  (head \o new)[i] = o[i]
    BY <1>0, <1>1, <2>1, <2>3
  <2> QED  BY <1>0, <1>1, <2>1, <2>2, <2>3
<1> DEFINE front == head \o new
<1>8. /\ front \in Seq(S)
      /\ Len(front) = at - 1 + Len(new)
      /\ \A i \in 1 .. Len(front) :
            front[i] = IF i < at THEN o[i] ELSE new[i - at + 1]
  BY <1>4
<1>9. PutBefore(o, at, new) = front \o tail
  BY <1>3
<1> HIDE DEF front
<1>5. /\ front \o tail \in Seq(S)
      /\ Len(front \o tail) = Len(front) + Len(tail)
      /\ \A i \in 1 .. Len(front \o tail) :
            (front \o tail)[i] =
               IF i <= Len(front) THEN front[i]
               ELSE tail[i - Len(front)]
  <2>1. front \in Seq(S) /\ tail \in Seq(S)
    BY <1>2, <1>8
  <2> QED  BY <2>1, ConcatAt
<1>6. Len(PutBefore(o, at, new)) = Len(o) + Len(new)
  BY <1>0, <1>2, <1>9, <1>8, <1>5
<1>7. ASSUME NEW i \in 1 .. (Len(o) + Len(new))
      PROVE  PutBefore(o, at, new)[i] =
                IF i < at THEN o[i]
                ELSE IF i < at + Len(new) THEN new[i - at + 1]
                ELSE o[i - Len(new)]
  <2>1. i \in 1 .. Len(front \o tail)
    BY <1>9, <1>6, <1>7
  <2>2. CASE i < at + Len(new)
    <3>1. i \in 1 .. Len(front) /\ i <= Len(front)
      BY <1>0, <1>8, <2>2
    <3>2. PutBefore(o, at, new)[i] = front[i]
      BY <1>9, <1>5, <2>1, <3>1
    <3> QED  BY <1>8, <2>2, <3>1, <3>2
  <2>3. CASE i >= at + Len(new)
    <3>1. /\ ~(i <= Len(front))
          /\ i - Len(front) \in 1 .. Len(tail)
          /\ at + (i - Len(front)) - 1 = i - Len(new)
      BY <1>0, <1>2, <1>8, <2>3
    <3>2. PutBefore(o, at, new)[i] = tail[i - Len(front)]
      BY <1>9, <1>5, <2>1, <3>1
    <3>3. tail[i - Len(front)] = o[i - Len(new)]
      BY <1>2, <3>1
    <3>4. ~(i < at) /\ ~(i < at + Len(new))
      BY <1>0, <2>3
    <3> QED  BY <3>2, <3>3, <3>4
  <2> QED  BY <1>0, <2>2, <2>3
<1> QED  BY <1>9, <1>5, <1>6, <1>7

(* Three views of one fact: the line at i goes where the index functions    *)
(* say.  Metadata keyed by index and data keyed by id stay together.       *)
LEMMA DeletedOrder ==
    ASSUME NEW S, NEW o \in Seq(S), NEW src \in Nat \ {0}, NEW n \in Nat \ {0},
           NEW i \in 1 .. Len(o)
    PROVE  IF i \in src .. (src + n - 1) THEN ShiftIndex(i, src, -n) = Gone
           ELSE /\ ShiftIndex(i, src, -n) \in 1 .. Len(Without(o, src, n))
                /\ Without(o, src, n)[ShiftIndex(i, src, -n)] = o[i]
<1>1. Len(o) \in Nat /\ i \in Nat \ {0} /\ i <= Len(o) /\ ~(-n > 0)
  OBVIOUS
<1>5. /\ Len(Without(o, src, n)) =
            IF src > Len(o) THEN Len(o)
            ELSE IF src + n - 1 <= Len(o) THEN Len(o) - n ELSE src - 1
      /\ \A j \in 1 .. Len(Without(o, src, n)) :
            Without(o, src, n)[j] = IF j < src THEN o[j] ELSE o[j + n]
  BY WithoutAt
<1>2. CASE i < src
  <2>1. ShiftIndex(i, src, -n) = i
    BY <1>1, <1>2 DEF ShiftIndex
  <2>2. i \in 1 .. Len(Without(o, src, n))
    BY <1>1, <1>2, <1>5
  <2> QED  BY <1>1, <1>2, <2>1, <2>2, <1>5
<1>3. CASE i \in src .. (src + n - 1)
  BY <1>1, <1>3 DEF ShiftIndex
<1>4. CASE i >= src + n
  <2>1. ShiftIndex(i, src, -n) = i - n
    BY <1>1, <1>4 DEF ShiftIndex
  <2>2. i - n \in 1 .. Len(Without(o, src, n)) /\ ~(i - n < src)
    BY <1>1, <1>4, <1>5
  <2>3. Without(o, src, n)[i - n] = o[(i - n) + n]
    BY <2>2, <1>5
  <2> QED  BY <1>1, <1>4, <2>1, <2>2, <2>3
<1> QED  BY <1>1, <1>2, <1>3, <1>4

LEMMA InsertedOrder ==
    ASSUME NEW S, NEW o \in Seq(S), NEW new \in Seq(S), Len(new) > 0,
           NEW at \in 1 .. (Len(o) + 1), NEW i \in 1 .. Len(o)
    PROVE  /\ ShiftIndex(i, at, Len(new)) \in 1 .. Len(PutBefore(o, at, new))
           /\ PutBefore(o, at, new)[ShiftIndex(i, at, Len(new))] = o[i]
<1>1. Len(o) \in Nat /\ Len(new) \in Nat /\ i \in Nat \ {0} /\ i <= Len(o)
  OBVIOUS
<1>2. CASE i < at
  <2>1. ShiftIndex(i, at, Len(new)) = i
    BY <1>1, <1>2 DEF ShiftIndex
  <2>2. i \in 1 .. Len(PutBefore(o, at, new))
    BY <1>1, PutBeforeAt
  <2> QED  BY <1>2, <2>1, <2>2, PutBeforeAt
<1>3. CASE i >= at
  <2>1. ShiftIndex(i, at, Len(new)) = i + Len(new)
    BY <1>1, <1>3 DEF ShiftIndex
  <2>2. i + Len(new) \in 1 .. Len(PutBefore(o, at, new))
    BY <1>1, PutBeforeAt
  <2>3. PutBefore(o, at, new)[i + Len(new)] = o[(i + Len(new)) - Len(new)]
    <3>1. ~(i + Len(new) < at) /\ ~(i + Len(new) < at + Len(new))
      BY <1>1, <1>3
    <3> QED  BY <2>2, <3>1, PutBeforeAt
  <2> QED  BY <1>1, <2>1, <2>2, <2>3
<1> QED  BY <1>1, <1>2, <1>3

(* A move renames the indices 1 .. L one to one.                           *)
RemapsOneToOne(L, src, n, dst) ==
    /\ \A i \in 1 .. L : RemapIndex(i, src, n, dst) \in 1 .. L
    /\ \A i, j \in 1 .. L :
          RemapIndex(i, src, n, dst) = RemapIndex(j, src, n, dst) => i = j
    /\ \A j \in 1 .. L : \E i \in 1 .. L : RemapIndex(i, src, n, dst) = j

LEMMA RemapOneToOne ==
    ASSUME NEW L \in Nat, NEW src \in Nat \ {0}, NEW n \in Nat \ {0}, NEW dst \in Nat \ {0},
           src + n - 1 <= L, dst - 1 <= L, dst \notin src .. (src + n)
    PROVE  RemapsOneToOne(L, src, n, dst)
<1>1. dst < src \/ dst > src + n
  OBVIOUS
<1>2. \A i \in 1 .. L : RemapIndex(i, src, n, dst) \in 1 .. L
  BY <1>1 DEF RemapIndex
<1>3. \A i, j \in 1 .. L :
         RemapIndex(i, src, n, dst) = RemapIndex(j, src, n, dst) => i = j
  BY <1>1 DEF RemapIndex
<1>4. ASSUME NEW j \in 1 .. L
      PROVE  \E i \in 1 .. L : RemapIndex(i, src, n, dst) = j
  <2>1. CASE dst < src
    <3> DEFINE i == IF j \in dst .. (dst + n - 1) THEN src + (j - dst)
                    ELSE IF j \in (dst + n) .. (src + n - 1) THEN j - n
                    ELSE j
    <3>1. i \in 1 .. L /\ RemapIndex(i, src, n, dst) = j
      BY <2>1 DEF RemapIndex
    <3> QED  BY <3>1
  <2>2. CASE dst > src + n
    <3> DEFINE i == IF j \in (dst - n) .. (dst - 1) THEN src + (j - (dst - n))
                    ELSE IF j \in src .. (dst - n - 1) THEN j + n
                    ELSE j
    <3>1. i \in 1 .. L /\ RemapIndex(i, src, n, dst) = j
      BY <2>2 DEF RemapIndex
    <3> QED  BY <3>1
  <2> QED  BY <1>1, <2>1, <2>2
<1> QED  BY <1>2, <1>3, <1>4 DEF RemapsOneToOne

LEMMA MovedOrder ==
    ASSUME NEW S, NEW o \in Seq(S),
           NEW src \in Nat \ {0}, NEW n \in Nat \ {0}, NEW dst \in Nat \ {0},
           src + n - 1 <= Len(o), dst - 1 <= Len(o), dst \notin src .. (src + n)
    PROVE  /\ MoveOrder(o, src, n, dst) \in Seq(S)
           /\ Len(MoveOrder(o, src, n, dst)) = Len(o)
           /\ \A i \in 1 .. Len(o) :
                MoveOrder(o, src, n, dst)[RemapIndex(i, src, n, dst)] = o[i]
<1> DEFINE L     == Len(o)
           rest  == Without(o, src, n)
           block == Taken(o, src, n)
           at    == IF dst > src THEN dst - n ELSE dst
<1>1. L \in Nat /\ (dst < src \/ dst > src + n)
  OBVIOUS
<1>2. /\ rest \in Seq(S)
      /\ Len(rest) = L - n
      /\ \A j \in 1 .. (L - n) : rest[j] = IF j < src THEN o[j] ELSE o[j + n]
  <2>1. ~(src > L) /\ src + n - 1 <= L
    BY <1>1
  <2> QED  BY <2>1, WithoutAt
<1>3. /\ block \in Seq(S)
      /\ Len(block) = n
      /\ \A k \in 1 .. n : block[k] = o[src + k - 1]
  <2>1. MinOf(src + n - 1, L) = src + n - 1 /\ src + n - 1 \in Nat
    BY <1>1 DEF MinOf
  <2>2. block = SubSeq(o, src, src + n - 1)
    BY <2>1 DEF Taken
  <2> DEFINE b == SubSeq(o, src, src + n - 1)
  <2>3. /\ b \in Seq(S)
        /\ Len(b) = IF src <= src + n - 1 THEN (src + n - 1) - src + 1 ELSE 0
        /\ \A k \in 1 .. Len(b) : b[k] = o[src + k - 1]
    BY <2>1, SubSeqAt
  <2>4. (IF src <= src + n - 1 THEN (src + n - 1) - src + 1 ELSE 0) = n
    OBVIOUS
  <2> HIDE DEF b
  <2>5. Len(b) = n /\ block = b
    BY <2>2, <2>3, <2>4 DEF b
  <2> QED  BY <2>3, <2>5
<1>4. at \in 1 .. (Len(rest) + 1)
  BY <1>1, <1>2
<1>5. MoveOrder(o, src, n, dst) = PutBefore(rest, at, block)
  BY DEF MoveOrder
<1> HIDE DEF L, rest, block
<1>6. /\ PutBefore(rest, at, block) \in Seq(S)
      /\ Len(PutBefore(rest, at, block)) = L
      /\ \A j \in 1 .. L :
            PutBefore(rest, at, block)[j] =
               IF j < at THEN rest[j]
               ELSE IF j < at + n THEN block[j - at + 1]
               ELSE rest[j - n]
  <2>1. Len(rest) + Len(block) = L
    BY <1>1, <1>2, <1>3
  <2> HIDE DEF at
  <2> DEFINE result == PutBefore(rest, at, block)
  <2>2. rest \in Seq(S) /\ block \in Seq(S) /\ Len(block) = n
    BY <1>2, <1>3
  <2>3. /\ result \in Seq(S)
        /\ Len(result) = Len(rest) + Len(block)
        /\ \A j \in 1 .. Len(result) :
              result[j] = IF j < at THEN rest[j]
                          ELSE IF j < at + Len(block) THEN block[j - at + 1]
                          ELSE rest[j - Len(block)]
    BY <1>4, <2>2, PutBeforeAt, ZenonT(60)
  <2> HIDE DEF result
  <2> QED  BY <2>1, <2>2, <2>3 DEF result
<1>7. ASSUME NEW i \in 1 .. L
      PROVE  PutBefore(rest, at, block)[RemapIndex(i, src, n, dst)] = o[i]
  <2> DEFINE j == RemapIndex(i, src, n, dst)
  <2>1. j \in 1 .. L
    <3>1. RemapsOneToOne(Len(o), src, n, dst)
      BY RemapOneToOne
    <3> QED  BY <3>1 DEF RemapsOneToOne, L
  <2>2. CASE i \in src .. (src + n - 1)
    <3>1. j = at + (i - src)
      BY <1>1, <2>2 DEF RemapIndex
    <3> HIDE DEF j
    <3>2. /\ at \in Int /\ ~(j < at) /\ j < at + n
          /\ j - at + 1 \in 1 .. n /\ src + (j - at + 1) - 1 = i
      BY <1>1, <2>2, <3>1
    <3> HIDE DEF at
    <3>3. PutBefore(rest, at, block)[j] = block[j - at + 1]
      BY <1>6, <2>1, <3>2
    <3>4. block[j - at + 1] = o[src + (j - at + 1) - 1]
      BY <1>3, <3>2
    <3> QED  BY <3>2, <3>3, <3>4 DEF j
  <2>3. CASE i < src
    <3>1. /\ i \in 1 .. (L - n)
          /\ j = IF i < at THEN i ELSE i + n
      BY <1>1, <2>3 DEF RemapIndex, L
    <3>2. at \in Int
      BY <1>1
    <3> HIDE DEF j, at
    <3>3. PutBefore(rest, at, block)[j] = rest[i]
      BY <1>1, <1>6, <2>1, <2>3, <3>1, <3>2
    <3> QED  BY <1>2, <2>3, <3>1, <3>3 DEF j
  <2>4. CASE i >= src + n
    <3>1. /\ i - n \in 1 .. (L - n) /\ ~(i - n < src) /\ (i - n) + n = i
          /\ j = IF i - n < at THEN i - n ELSE i
      BY <1>1, <2>4 DEF RemapIndex
    <3>2. at \in Int
      BY <1>1
    <3> HIDE DEF j, at
    <3>3. PutBefore(rest, at, block)[j] = rest[i - n]
      BY <1>1, <1>6, <2>1, <2>4, <3>1, <3>2
    <3>4. rest[i - n] = o[(i - n) + n]
      BY <1>2, <3>1
    <3> QED  BY <3>1, <3>3, <3>4 DEF j
  <2> QED  BY <1>1, <2>2, <2>3, <2>4
<1> QED  BY <1>5, <1>6, <1>7 DEF L

(* Structural edits never name a line twice.                               *)
LEMMA PutBeforeDistinct ==
    ASSUME NEW S, NEW o \in Seq(S), NEW new \in Seq(S), NEW at \in 1 .. (Len(o) + 1),
           Distinct(o), Distinct(new), RowsOf(o) \cap RowsOf(new) = {}
    PROVE  /\ Distinct(PutBefore(o, at, new))
           /\ RowsOf(PutBefore(o, at, new)) = RowsOf(o) \cup RowsOf(new)
<1> DEFINE p == PutBefore(o, at, new)
           L == Len(o)
           n == Len(new)
<1>1. L \in Nat /\ n \in Nat /\ at \in Nat \ {0} /\ at <= L + 1
  OBVIOUS
<1>2. /\ p \in Seq(S) /\ Len(p) = L + n
      /\ \A i \in 1 .. Len(p) :
            p[i] = IF i < at THEN o[i]
                   ELSE IF i < at + n THEN new[i - at + 1] ELSE o[i - n]
  BY PutBeforeAt
<1>3. DOMAIN o = 1 .. L /\ DOMAIN new = 1 .. n /\ DOMAIN p = 1 .. (L + n)
  BY <1>2
<1> HIDE DEF p, L, n
<1>4. \A i \in 1 .. (L + n) :
         IF i < at THEN i \in 1 .. L /\ p[i] = o[i]
         ELSE IF i < at + n THEN i - at + 1 \in 1 .. n /\ p[i] = new[i - at + 1]
         ELSE i - n \in 1 .. L /\ p[i] = o[i - n]
  BY <1>1, <1>2
<1>5. /\ \A i, j \in 1 .. L : o[i] = o[j] => i = j
      /\ \A i, j \in 1 .. n : new[i] = new[j] => i = j
      /\ \A i \in 1 .. L, j \in 1 .. n : o[i] # new[j]
  <2>1. ASSUME NEW i \in 1 .. L, NEW j \in 1 .. n
        PROVE  o[i] # new[j]
    <3>1. o[i] \in RowsOf(o) /\ new[j] \in RowsOf(new)
      BY <1>3 DEF RowsOf
    <3> QED  BY <3>1
  <2> QED  BY <1>3, <2>1 DEF Distinct
<1>6. ASSUME NEW i \in 1 .. (L + n), NEW j \in 1 .. (L + n), p[i] = p[j]
      PROVE  i = j
  BY <1>1, <1>4, <1>5, <1>6
<1>7. ASSUME NEW x \in RowsOf(p)
      PROVE  x \in RowsOf(o) \cup RowsOf(new)
  <2>1. PICK i \in 1 .. (L + n) : x = p[i]
    BY <1>3 DEF RowsOf
  <2> QED  BY <1>1, <1>3, <1>4, <2>1 DEF RowsOf
<1>8. ASSUME NEW i \in 1 .. L
      PROVE  o[i] \in RowsOf(p)
  <2>1. CASE i < at
    <3>1. i \in 1 .. (L + n) /\ p[i] = o[i]
      BY <1>1, <1>4, <2>1
    <3> QED  BY <1>3, <3>1 DEF RowsOf
  <2>2. CASE i >= at
    <3>1. i + n \in 1 .. (L + n) /\ ~(i + n < at) /\ ~(i + n < at + n) /\ (i + n) - n = i
      BY <1>1, <2>2
    <3>2. p[i + n] = o[i]
      BY <1>4, <3>1
    <3> QED  BY <1>3, <3>1, <3>2 DEF RowsOf
  <2> QED  BY <1>1, <2>1, <2>2
<1>9. ASSUME NEW j \in 1 .. n
      PROVE  new[j] \in RowsOf(p)
  <2>1. /\ at + j - 1 \in 1 .. (L + n) /\ ~(at + j - 1 < at) /\ at + j - 1 < at + n
        /\ (at + j - 1) - at + 1 = j
    BY <1>1
  <2>2. p[at + j - 1] = new[j]
    BY <1>4, <2>1
  <2> QED  BY <1>3, <2>1, <2>2 DEF RowsOf
<1>10. RowsOf(o) \cup RowsOf(new) \subseteq RowsOf(p)
  <2>1. RowsOf(o) = {o[i] : i \in 1 .. L} /\ RowsOf(new) = {new[i] : i \in 1 .. n}
    BY <1>3 DEF RowsOf
  <2> QED  BY <1>8, <1>9, <2>1
<1> QED  BY <1>3, <1>6, <1>7, <1>10 DEF Distinct, p

LEMMA WithoutDistinct ==
    ASSUME NEW S, NEW o \in Seq(S), NEW src \in Nat \ {0}, NEW n \in Nat \ {0},
           Distinct(o)
    PROVE  /\ Distinct(Without(o, src, n))
           /\ RowsOf(Without(o, src, n)) = RowsOf(o) \ RowsOf(Taken(o, src, n))
<1> DEFINE w == Without(o, src, n)
           t == Taken(o, src, n)
           L == Len(o)
<1>1. L \in Nat /\ DOMAIN o = 1 .. L
  OBVIOUS
<1>2. /\ w \in Seq(S) /\ DOMAIN w = 1 .. Len(w)
      /\ Len(w) = IF src > L THEN L ELSE IF src + n - 1 <= L THEN L - n ELSE src - 1
      /\ \A i \in 1 .. Len(w) : w[i] = IF i < src THEN o[i] ELSE o[i + n]
  BY WithoutAt
<1>3. \A k \in 1 .. L : k \in src .. (src + n - 1) <=> o[k] \in RowsOf(t)
  <2> DEFINE last == MinOf(src + n - 1, L)
  <2>1. last \in Nat /\ last <= L
    BY <1>1 DEF MinOf
  <2>2. t = SubSeq(o, src, last)
    BY DEF Taken
  <2>3. /\ t \in Seq(S) /\ DOMAIN t = 1 .. Len(t)
        /\ Len(t) = IF src <= last THEN last - src + 1 ELSE 0
        /\ \A i \in 1 .. Len(t) : t[i] = o[src + i - 1]
    <3> HIDE DEF last, t
    <3> DEFINE b == SubSeq(o, src, last)
    <3>1. /\ b \in Seq(S)
          /\ Len(b) = IF src <= last THEN last - src + 1 ELSE 0
          /\ \A i \in 1 .. Len(b) : b[i] = o[src + i - 1]
      BY <2>1, SubSeqAt
    <3>2. b = t
      BY <2>2
    <3> HIDE DEF b
    <3> QED  BY <3>1, <3>2
  <2>4. \A k \in 1 .. L : k \in src .. (src + n - 1) <=> k \in src .. last
    BY <1>1 DEF MinOf
  <2> HIDE DEF last, t
  <2>5. ASSUME NEW k \in 1 .. L, k \in src .. last
        PROVE  o[k] \in RowsOf(t)
    <3>1. k - src + 1 \in 1 .. Len(t) /\ src + (k - src + 1) - 1 = k
      BY <2>1, <2>3, <2>5
    <3>2. t[k - src + 1] = o[k]
      BY <2>3, <3>1
    <3> QED  BY <2>3, <3>1, <3>2 DEF RowsOf
  <2>6. ASSUME NEW k \in 1 .. L, o[k] \in RowsOf(t)
        PROVE  k \in src .. last
    <3>1. PICK i \in 1 .. Len(t) : o[k] = t[i]
      BY <2>3, <2>6 DEF RowsOf
    <3>2. o[k] = o[src + i - 1]
      BY <2>3, <3>1
    <3>3. src + i - 1 \in 1 .. L /\ src + i - 1 \in src .. last
      BY <2>1, <2>3, <3>1, <1>1
    <3> QED  BY <1>1, <3>2, <3>3 DEF Distinct
  <2> QED  BY <2>4, <2>5, <2>6
<1> HIDE DEF w, L, t
<1>4. \A i \in 1 .. Len(w) :
         IF i < src THEN i \in 1 .. L /\ w[i] = o[i]
         ELSE i + n \in 1 .. L /\ w[i] = o[i + n]
  BY <1>1, <1>2
<1>5. \A i, j \in 1 .. L : o[i] = o[j] => i = j
  BY <1>1 DEF Distinct
<1>6. ASSUME NEW i \in 1 .. Len(w), NEW j \in 1 .. Len(w), w[i] = w[j]
      PROVE  i = j
  BY <1>1, <1>2, <1>4, <1>5, <1>6
<1>7. ASSUME NEW i \in 1 .. Len(w)
      PROVE  w[i] \in RowsOf(o) \ RowsOf(t)
  <2>1. PICK k \in 1 .. L : k \notin src .. (src + n - 1) /\ w[i] = o[k]
    BY <1>1, <1>4
  <2> QED  BY <1>1, <1>3, <2>1 DEF RowsOf
<1>8. ASSUME NEW k \in 1 .. L, o[k] \notin RowsOf(t)
      PROVE  o[k] \in RowsOf(w)
  <2>1. k < src \/ k >= src + n
    BY <1>1, <1>3, <1>8
  <2>2. CASE k < src
    <3>1. k \in 1 .. Len(w)
      BY <1>1, <1>2, <2>2
    <3>2. w[k] = o[k]
      BY <1>2, <2>2, <3>1
    <3> QED  BY <1>2, <3>1, <3>2 DEF RowsOf
  <2>3. CASE k >= src + n
    <3>1. k - n \in 1 .. Len(w) /\ ~(k - n < src) /\ (k - n) + n = k
      BY <1>1, <1>2, <2>3
    <3>2. w[k - n] = o[k]
      BY <1>2, <3>1
    <3> QED  BY <1>2, <3>1, <3>2 DEF RowsOf
  <2> QED  BY <2>1, <2>2, <2>3
<1>9. RowsOf(w) = RowsOf(o) \ RowsOf(t)
  <2>1. RowsOf(w) = {w[i] : i \in 1 .. Len(w)} /\ RowsOf(o) = {o[i] : i \in 1 .. L}
    BY <1>1, <1>2 DEF RowsOf
  <2> QED  BY <1>7, <1>8, <2>1
<1> QED  BY <1>2, <1>6, <1>9 DEF Distinct, w, t

LEMMA MoveDistinct ==
    ASSUME NEW S, NEW o \in Seq(S),
           NEW src \in Nat \ {0}, NEW n \in Nat \ {0}, NEW dst \in Nat \ {0},
           src + n - 1 <= Len(o), dst - 1 <= Len(o), dst \notin src .. (src + n),
           Distinct(o)
    PROVE  /\ Distinct(MoveOrder(o, src, n, dst))
           /\ RowsOf(MoveOrder(o, src, n, dst)) = RowsOf(o)
<1> DEFINE m == MoveOrder(o, src, n, dst)
           L == Len(o)
           R(i) == RemapIndex(i, src, n, dst)
<1>1. L \in Nat /\ DOMAIN o = 1 .. L
  OBVIOUS
<1>2. DOMAIN m = 1 .. L /\ \A i \in 1 .. L : m[R(i)] = o[i]
  BY MovedOrder
<1>3. /\ \A i \in 1 .. L : R(i) \in 1 .. L
      /\ \A i, j \in 1 .. L : R(i) = R(j) => i = j
      /\ \A j \in 1 .. L : \E i \in 1 .. L : R(i) = j
  <2>1. RemapsOneToOne(L, src, n, dst)
    BY <1>1, RemapOneToOne
  <2> HIDE DEF L
  <2> QED  BY <2>1 DEF RemapsOneToOne
<1> HIDE DEF m, L, R
<1>4. ASSUME NEW a \in 1 .. L, NEW b \in 1 .. L, m[a] = m[b]
      PROVE  a = b
  <2>1. PICK i \in 1 .. L : R(i) = a
    BY <1>3
  <2>2. PICK j \in 1 .. L : R(j) = b
    BY <1>3
  <2>3. o[i] = o[j]
    BY <1>2, <1>4, <2>1, <2>2
  <2> QED  BY <1>1, <2>1, <2>2, <2>3 DEF Distinct
<1>5. RowsOf(m) = RowsOf(o)
  <2>1. RowsOf(m) = {m[i] : i \in 1 .. L} /\ RowsOf(o) = {o[i] : i \in 1 .. L}
    BY <1>1, <1>2 DEF RowsOf
  <2>2. ASSUME NEW j \in 1 .. L
        PROVE  m[j] \in RowsOf(o)
    <3>1. PICK i \in 1 .. L : R(i) = j
      BY <1>3
    <3>2. m[j] = o[i]
      BY <1>2, <3>1
    <3> QED  BY <2>1, <3>2
  <2>3. ASSUME NEW i \in 1 .. L
        PROVE  o[i] \in RowsOf(m)
    <3>1. R(i) \in 1 .. L /\ m[R(i)] = o[i]
      BY <1>2, <1>3
    <3> QED  BY <2>1, <3>1
  <2>4. RowsOf(m) \subseteq RowsOf(o)
    <3> SUFFICES ASSUME NEW r \in RowsOf(m) PROVE r \in RowsOf(o)
      OBVIOUS
    <3>1. PICK j \in 1 .. L : r = m[j]
      BY <2>1
    <3> QED  BY <2>2, <3>1
  <2>5. RowsOf(o) \subseteq RowsOf(m)
    <3> SUFFICES ASSUME NEW r \in RowsOf(o) PROVE r \in RowsOf(m)
      OBVIOUS
    <3>1. PICK i \in 1 .. L : r = o[i]
      BY <2>1
    <3> QED  BY <2>3, <3>1
  <2> QED  BY <2>4, <2>5
<1> QED  BY <1>2, <1>4, <1>5 DEF Distinct, m
=============================================================================
