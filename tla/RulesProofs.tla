------------------------------ MODULE RulesProofs ------------------------------
(***************************************************************************)
(* Proofs about Rules, for every question: an update of server.properties  *)
(* is read back and disturbs nothing else, the Java runtime suits the      *)
(* version, the heap that is advised would have been enough, and restarts  *)
(* recur.  They need no induction over data but one, on the number of a    *)
(* log's collections, which is by the smallest number that fails.          *)
(***************************************************************************)
EXTENDS Rules, SequenceTheorems, FiniteSetTheorems, WellFoundedInduction, TLAPS

-----------------------------------------------------------------------------
(* Smallest and largest numbers, and what dividing leaves.                 *)

\* A set of numbers has a smallest one.
LEMMA SmallestOf ==
  ASSUME NEW S \in SUBSET Nat, S # {}
  PROVE  \E m \in S : \A k \in S : m <= k
<1>. DEFINE less == {p \in Nat \X Nat : p[1] < p[2]}
<1>1. IsWellFoundedOn(less, Nat)
  BY NatLessThanWellFounded DEF OpToRel
<1>2. PICK m \in S : \A k \in S : <<k, m>> \notin less
  BY <1>1, WFMin
<1>. QED
  <2>. SUFFICES ASSUME NEW k \in S PROVE m <= k
    OBVIOUS
  <2>1. k \in Nat /\ m \in Nat /\ <<k, m>> \notin less
    BY <1>2
  <2>2. k < m => <<k, m>> \in less
    BY <2>1
  <2>. QED
    BY <2>1, <2>2

\* Numbers in a row have an upper bound,
LEMMA BoundOf ==
  ASSUME NEW n \in Nat, NEW f \in [1..n -> Nat]
  PROVE  \E b \in Nat : \A i \in 1..n : f[i] <= b
<1>. DEFINE unbounded == {m \in 0..n : ~\E b \in Nat : \A i \in 1..m : f[i] <= b}
<1>1. ASSUME NEW m \in unbounded, \A k \in unbounded : m <= k
      PROVE  FALSE
  <2>1. m \in 0..n /\ ~\E b \in Nat : \A i \in 1..m : f[i] <= b
    OBVIOUS
  <2>2. m # 0
    <3>. SUFFICES ASSUME m = 0 PROVE FALSE
      OBVIOUS
    <3>1. 0 \in Nat /\ \A i \in 1..m : f[i] <= 0
      OBVIOUS
    <3>. QED
      BY <2>1, <3>1
  <2>3. m - 1 \in 0..n
    BY <2>1, <2>2
  <2>4. PICK b \in Nat : \A i \in 1..(m - 1) : f[i] <= b
    <3>1. m - 1 \notin unbounded
      <4>. HIDE DEF unbounded
      <4>. QED
        BY <1>1, <2>1, <2>3
    <3>. QED
      BY <2>3, <3>1
  <2>5. f[m] \in Nat /\ b + f[m] \in Nat
    BY <2>1, <2>2
  <2>6. \A i \in 1..m : f[i] <= b + f[m]
    BY <2>1, <2>2, <2>4, <2>5
  <2>. QED
    BY <2>1, <2>5, <2>6
<1>2. unbounded \in SUBSET Nat
  OBVIOUS
<1>3. unbounded = {}
  <2>. HIDE DEF unbounded
  <2>. QED
    BY <1>1, <1>2, SmallestOf
<1>4. n \in 0..n
  OBVIOUS
<1>5. n \notin unbounded
  <2>. HIDE DEF unbounded
  <2>. QED
    BY <1>3
<1>. QED
  BY <1>4, <1>5

\* and 0 and they a largest one.
LEMMA LargestOf ==
  ASSUME NEW n \in Nat, NEW f \in [1..n -> Nat], NEW S, S = {0} \cup {f[i] : i \in 1..n}
  PROVE  MaxOf(S) \in S /\ MaxOf(S) \in Nat /\ \A k \in S : k <= MaxOf(S)
<1>. DEFINE bounds == {b \in Nat : \A i \in 1..n : f[i] <= b}
<1>1. PICK b \in bounds : \A c \in bounds : b <= c
  BY BoundOf, SmallestOf
<1>2. \A k \in S : k \in Nat /\ k <= b
  BY <1>1
<1>3. b \in S
  <2>. SUFFICES ASSUME b \notin S PROVE FALSE
    OBVIOUS
  <2>1. b \in Nat /\ b # 0 /\ \A i \in 1..n : f[i] \in Nat /\ f[i] <= b /\ f[i] # b
    BY <1>1
  <2>2. b - 1 \in bounds
    BY <2>1
  <2>. QED
    BY <1>1, <2>1, <2>2
<1>. QED
  BY <1>2, <1>3 DEF MaxOf

\* What dividing leaves.
LEMMA Divided ==
  ASSUME NEW a \in Nat, NEW b \in Nat \ {0}
  PROVE  a \div b \in Nat /\ a % b \in 0..(b - 1) /\ a = b * (a \div b) + (a % b)
  OBVIOUS

-----------------------------------------------------------------------------
(* properties.go.                                                          *)

\* A finite set made a sequence has each element in one place.
LEMMA SetToSeqOf ==
  ASSUME NEW S, IsFiniteSet(S)
  PROVE  /\ SetToSeq(S) \in Seq(S) /\ Len(SetToSeq(S)) = Cardinality(S)
         /\ \A i, j \in 1..Cardinality(S) : SetToSeq(S)[i] = SetToSeq(S)[j] => i = j
         /\ \A x \in S : \E i \in 1..Cardinality(S) : SetToSeq(S)[i] = x
<1>. DEFINE n == Cardinality(S)
            f == SetToSeq(S)
<1>1. n \in Nat /\ ExistsBijection(1..n, S)
  BY FS_CardinalityType
<1>2. f \in [1..n -> S] /\ IsInjective(f)
  <2>1. \E g \in [1..n -> S] : IsInjective(g)
    BY <1>1 DEF ExistsBijection, Bijection, Injection, Surjection
  <2>. QED
    BY <2>1 DEF SetToSeq
<1>. HIDE DEF f
<1>3. f \in Surjection(1..n, S)
  <2>1. IsFiniteSet(1..n) /\ Cardinality(1..n) = n
    BY <1>1, FS_Interval
  <2>2. f \in Injection(1..n, S)
    BY <1>2 DEF Injection
  <2>. QED
    BY <2>1, <2>2, FS_Injection
<1>4. f \in Seq(S) /\ Len(f) = n
  BY <1>1, <1>2
<1>5. \A i, j \in 1..n : f[i] = f[j] => i = j
  BY <1>2 DEF IsInjective
<1>6. \A x \in S : \E i \in 1..n : f[i] = x
  BY <1>3 DEF Surjection
<1>. QED
  BY <1>4, <1>5, <1>6 DEF f

\* A key that has a line has a first one.
LEMMA FirstWithOf ==
  ASSUME NEW n \in Nat, NEW lines, DOMAIN lines = 1..n, NEW i \in 1..n
  PROVE  LET k == lines[i][1]
             f == FirstWith(lines, k)
         IN  f \in 1..i /\ lines[f][1] = k /\ \A j \in 1..(f - 1) : lines[j][1] # k
<1>. DEFINE k    == lines[i][1]
            with == {j \in 1..n : lines[j][1] = k}
            first(f) == f \in 1..n /\ lines[f][1] = k /\ \A j \in 1..(f - 1) : lines[j][1] # k
<1>1. i \in with /\ with \in SUBSET Nat
  OBVIOUS
<1>2. PICK f \in with : \A j \in with : f <= j
  <2>. HIDE DEF with
  <2>. QED
    BY <1>1, SmallestOf
<1>3. f \in 1..n /\ first(f)
  BY <1>2
<1>4. FirstWith(lines, k) \in 1..n /\ first(FirstWith(lines, k))
  BY <1>3 DEF FirstWith
<1>5. ASSUME FirstWith(lines, k) > i
      PROVE  FALSE
  <2>1. i \in 1..(FirstWith(lines, k) - 1)
    BY <1>4, <1>5
  <2>. QED
    BY <1>4, <2>1
<1>. QED
  BY <1>4, <1>5

\* What UpdateProperties makes of the lines: each is kept or, as the first of a key
\* to be updated, replaced; keys without a line get one each at the end.
IsUpdate(lines, updates, new) ==
  LET added == (Len(lines) + 1)..Len(new)
      line(k) == <<k, updates[k]>>
  IN  /\ new \in Seq(STRING \X Nat) /\ Len(new) >= Len(lines)
      /\ \A i \in 1..Len(lines) :
           LET k == lines[i][1]
           IN  new[i] = IF k \in DOMAIN updates /\ i = FirstWith(lines, k) THEN line(k) ELSE lines[i]
      /\ \A i \in added : \E k \in DOMAIN updates \ Keys(lines) : new[i] = line(k)
      /\ \A k \in DOMAIN updates \ Keys(lines) : \E i \in added : new[i] = line(k)
      /\ \A i, j \in added : new[i] = new[j] => i = j

LEMMA UpdateIs ==
  ASSUME NEW lines \in Seq(STRING \X Nat), NEW D \in SUBSET (STRING \ {"#"}), IsFiniteSet(D),
         NEW updates \in [D -> Nat]
  PROVE  IsUpdate(lines, updates, UpdateProperties(lines, updates))
<1>. DEFINE n        == Len(lines)
            line(k)  == <<k, updates[k]>>
            replaced == [i \in DOMAIN lines |->
                           LET k == lines[i][1]
                           IN  IF k \in DOMAIN updates /\ i = FirstWith(lines, k)
                               THEN <<k, updates[k]>> ELSE lines[i]]
            M        == DOMAIN updates \ Keys(lines)
            S        == {<<k, updates[k]>> : k \in M}
            more     == SetToSeq(S)
            new      == UpdateProperties(lines, updates)
<1>1. n \in Nat /\ DOMAIN lines = 1..n /\ \A i \in 1..n : lines[i] \in STRING \X Nat
  BY LenProperties, ElementOfSeq
<1>2. M \subseteq D /\ IsFiniteSet(M)
  BY FS_Subset
<1>3. IsFiniteSet(S)
  <2>. DEFINE f == [k \in M |-> <<k, updates[k]>>]
  <2>1. f \in Surjection(M, S)
    BY DEF Surjection
  <2>. HIDE DEF f, M, S
  <2>. QED
    BY <1>2, <2>1, FS_Surjection
<1>4. S \subseteq STRING \X Nat
  <2>1. \A k \in M : <<k, updates[k]>> \in STRING \X Nat
    BY <1>2
  <2>. QED
    BY <2>1
<1>5. replaced \in Seq(STRING \X Nat) /\ Len(replaced) = n
  <2>1. \A i \in 1..n : replaced[i] \in STRING \X Nat
    BY <1>1
  <2>2. replaced \in [1..n -> STRING \X Nat]
    BY <1>1, <2>1
  <2>3. n \in Nat
    BY <1>1
  <2>. HIDE DEF replaced, n
  <2>. QED
    BY <2>2, <2>3
<1>6. new = replaced \o more
  BY DEF UpdateProperties
<1>7. /\ more \in Seq(STRING \X Nat) /\ Len(more) \in Nat
      /\ \A i \in 1..Len(more) : more[i] \in S
      /\ \A i, j \in 1..Len(more) : more[i] = more[j] => i = j
      /\ \A x \in S : \E i \in 1..Len(more) : more[i] = x
  <2>. HIDE DEF S, more
  <2>1. SetToSeq(S) \in Seq(S) /\ Len(SetToSeq(S)) = Cardinality(S)
    BY <1>3, SetToSeqOf
  <2>2. /\ \A i, j \in 1..Cardinality(S) : SetToSeq(S)[i] = SetToSeq(S)[j] => i = j
        /\ \A x \in S : \E i \in 1..Cardinality(S) : SetToSeq(S)[i] = x
    BY <1>3, SetToSeqOf
  <2>3. Len(more) \in Nat /\ \A i \in 1..Len(more) : more[i] \in S
    BY <2>1, ElementOfSeq, LenProperties DEF more
  <2>4. more \in Seq(STRING \X Nat)
    BY <1>4, <2>1 DEF more
  <2>. QED
    BY <2>1, <2>2, <2>3, <2>4 DEF more
<1>. HIDE DEF replaced, more, S
<1>8. /\ new \in Seq(STRING \X Nat) /\ Len(new) = n + Len(more)
      /\ \A i \in 1..n : new[i] = replaced[i]
      /\ \A i \in (n + 1)..Len(new) : i - n \in 1..Len(more) /\ new[i] = more[i - n]
      /\ \A i \in 1..Len(more) : i + n \in (n + 1)..Len(new) /\ new[i + n] = more[i]
  <2>. HIDE DEF new, n
  <2>1. /\ new \in Seq(STRING \X Nat) /\ Len(new) = n + Len(more)
        /\ \A i \in 1..(n + Len(more)) : new[i] = IF i <= n THEN replaced[i] ELSE more[i - n]
    <3>1. replaced \in Seq(STRING \X Nat) /\ more \in Seq(STRING \X Nat)
      BY <1>5, <1>7
    <3>2. /\ replaced \o more \in Seq(STRING \X Nat)
          /\ Len(replaced \o more) = Len(replaced) + Len(more)
          /\ \A i \in 1..(Len(replaced) + Len(more)) :
               (replaced \o more)[i] = IF i <= Len(replaced) THEN replaced[i] ELSE more[i - Len(replaced)]
      BY <3>1, ConcatProperties, Zenon
    <3>. QED
      BY <1>5, <1>6, <3>2
  <2>2. n \in Nat /\ Len(more) \in Nat
    BY <1>1, <1>7 DEF n
  <2>. QED
    BY <2>1, <2>2
<1>. HIDE DEF new
<1>9. \A i \in 1..n : new[i] = IF lines[i][1] \in DOMAIN updates /\ i = FirstWith(lines, lines[i][1])
                               THEN line(lines[i][1]) ELSE lines[i]
  BY <1>1, <1>8 DEF replaced
<1>10. \A i \in (n + 1)..Len(new) : \E k \in M : new[i] = line(k)
  <2>. TAKE i \in (n + 1)..Len(new)
  <2>1. new[i] \in S
    BY <1>7, <1>8
  <2>. QED
    BY <2>1 DEF S
<1>11. \A k \in M : \E i \in (n + 1)..Len(new) : new[i] = line(k)
  <2>. TAKE k \in M
  <2>1. line(k) \in S
    BY DEF S
  <2>2. PICK i \in 1..Len(more) : more[i] = line(k)
    BY <1>7, <2>1
  <2>. QED
    BY <1>8, <2>2
<1>12. \A i, j \in (n + 1)..Len(new) : new[i] = new[j] => i = j
  <2>. TAKE i, j \in (n + 1)..Len(new)
  <2>1. i - n = j - n => i = j
    BY <1>1
  <2>2. more[i - n] = more[j - n] => i - n = j - n
    BY <1>7, <1>8
  <2>. QED
    BY <1>8, <2>1, <2>2
<1>13. new \in Seq(STRING \X Nat) /\ Len(new) >= n
  <2>. HIDE DEF n
  <2>. QED
    BY <1>1, <1>7, <1>8 DEF n
<1>. QED
  BY <1>9, <1>10, <1>11, <1>12, <1>13 DEF IsUpdate, new

\* The keys that have lines.
LEMMA KeysOf ==
  ASSUME NEW lines \in Seq(STRING \X Nat), NEW k \in STRING \ {"#"}
  PROVE  k \in Keys(lines) <=> \E i \in 1..Len(lines) : lines[i][1] = k
<1>1. DOMAIN lines = 1..Len(lines)
  BY LenProperties
<1>. QED
  BY <1>1 DEF Keys, ToSet

\* What follows for the single line.
LEMMA UpdatedLines ==
  ASSUME NEW lines \in Seq(STRING \X Nat), NEW updates, NEW new, IsUpdate(lines, updates, new)
  PROVE  /\ Len(lines) \in Nat /\ DOMAIN lines = 1..Len(lines)
         /\ new \in Seq(STRING \X Nat) /\ Len(new) \in Nat /\ DOMAIN new = 1..Len(new)
         /\ Len(new) >= Len(lines)
         /\ \A i \in 1..Len(lines) : i \in 1..Len(new)
         /\ \A i \in 1..Len(new) : i \in 1..Len(lines) \/ i \in (Len(lines) + 1)..Len(new)
         /\ \A i \in (Len(lines) + 1)..Len(new) :
              i \in 1..Len(new) /\ \E k \in DOMAIN updates \ Keys(lines) : new[i] = <<k, updates[k]>>
         /\ \A i \in 1..Len(lines) : new[i][1] = lines[i][1]
<1>1. /\ Len(lines) \in Nat /\ DOMAIN lines = 1..Len(lines)
      /\ new \in Seq(STRING \X Nat) /\ Len(new) \in Nat /\ DOMAIN new = 1..Len(new)
      /\ Len(new) >= Len(lines)
  BY LenProperties DEF IsUpdate
<1>2. /\ \A i \in 1..Len(lines) : i \in 1..Len(new)
      /\ \A i \in 1..Len(new) : i \in 1..Len(lines) \/ i \in (Len(lines) + 1)..Len(new)
      /\ \A i \in (Len(lines) + 1)..Len(new) : i \in 1..Len(new)
  BY <1>1
<1>3. \A i \in (Len(lines) + 1)..Len(new) :
        \E k \in DOMAIN updates \ Keys(lines) : new[i] = <<k, updates[k]>>
  BY DEF IsUpdate
<1>4. ASSUME NEW i \in 1..Len(lines)
      PROVE  new[i][1] = lines[i][1]
  <2>. DEFINE k == lines[i][1]
  <2>1. new[i] = IF k \in DOMAIN updates /\ i = FirstWith(lines, k) THEN <<k, updates[k]>>
                 ELSE lines[i]
    BY DEF IsUpdate
  <2>2. <<k, updates[k]>>[1] = k
    OBVIOUS
  <2>. HIDE DEF k
  <2>3. new[i][1] = k
    BY <2>1, <2>2 DEF k
  <2>. QED
    BY <2>3 DEF k
<1>. QED
  BY <1>1, <1>2, <1>3, <1>4

\* Comments and other keys' lines stay where they are, with no new ones.
LEMMA OthersStay ==
  ASSUME NEW lines \in Seq(STRING \X Nat), NEW D, NEW updates \in [D -> Nat],
         NEW new, IsUpdate(lines, updates, new)
  PROVE  {<<i, new[i]>> : i \in {j \in DOMAIN new : new[j][1] \notin D}}
           = {<<i, lines[i]>> : i \in {j \in DOMAIN lines : lines[j][1] \notin D}}
<1>1. /\ DOMAIN lines = 1..Len(lines) /\ DOMAIN new = 1..Len(new)
      /\ \A i \in 1..Len(lines) : i \in 1..Len(new) /\ new[i][1] = lines[i][1]
  BY UpdatedLines
<1>2. \A i \in 1..Len(lines) : lines[i][1] \notin D => new[i] = lines[i]
  BY DEF IsUpdate
<1>4. \A i \in (Len(lines) + 1)..Len(new) : new[i][1] \in D
  <2>. TAKE i \in (Len(lines) + 1)..Len(new)
  <2>1. PICK k \in D : new[i] = <<k, updates[k]>>
    BY UpdatedLines
  <2>. QED
    BY <2>1
<1>5. \A i \in 1..Len(new) : i \in 1..Len(lines) \/ i \in (Len(lines) + 1)..Len(new)
  BY UpdatedLines
<1>6. {j \in DOMAIN new : new[j][1] \notin D} = {j \in DOMAIN lines : lines[j][1] \notin D}
  BY <1>1, <1>4, <1>5
<1>. QED
  BY <1>1, <1>2, <1>6

\* A key that has one line at most is read as it was told.
LEMMA TheUpdateIsRead ==
  ASSUME NEW lines \in Seq(STRING \X Nat), NEW D \in SUBSET (STRING \ {"#"}),
         NEW updates \in [D -> Nat], NEW new, IsUpdate(lines, updates, new),
         NEW k \in D, Cardinality({i \in DOMAIN lines : lines[i][1] = k}) <= 1
  PROVE  ReadProperties(new)[k] = updates[k]
<1>. DEFINE n == Len(lines)
            with == {i \in DOMAIN lines : lines[i][1] = k}
<1>1. /\ n \in Nat /\ DOMAIN lines = 1..n
      /\ new \in Seq(STRING \X Nat) /\ DOMAIN new = 1..Len(new)
      /\ \A i \in 1..n : i \in 1..Len(new) /\ new[i][1] = lines[i][1]
      /\ \A i \in 1..Len(new) : i \in 1..n \/ i \in (n + 1)..Len(new)
      /\ \A i \in (n + 1)..Len(new) : i \in 1..Len(new)
  BY UpdatedLines
<1>2. \A i \in (n + 1)..Len(new) : \E key \in D \ Keys(lines) : new[i] = <<key, updates[key]>>
  BY UpdatedLines
<1>3. \A i, j \in 1..n : lines[i][1] = k /\ lines[j][1] = k => i = j
  <2>1. IsFiniteSet(with)
    <3>1. n \in Nat
      BY <1>1
    <3>2. IsFiniteSet(1..n)
      BY <3>1, FS_Interval
    <3>. QED
      BY <1>1, <3>2, FS_Subset
  <2>2. Cardinality(with) \in Nat /\ Cardinality(with) <= 1
    BY <2>1, FS_CardinalityType
  <2>3. Cardinality(with) = 0 \/ Cardinality(with) = 1
    BY <2>2
  <2>4. with = {} \/ \E x : with = {x}
    <3>. HIDE DEF with
    <3>. QED
      BY <2>1, <2>3, FS_EmptySet, FS_Singleton
  <2>5. \A i \in 1..n : lines[i][1] = k => i \in with
    BY <1>1
  <2>. HIDE DEF with
  <2>. QED
    BY <2>4, <2>5
\* There is one line of the key,
<1>4. \E i \in 1..Len(new) : new[i] = <<k, updates[k]>> /\ \A j \in 1..Len(new) : new[j][1] = k => j = i
  <2>3. CASE \E i \in 1..n : lines[i][1] = k
    <3>1. PICK i \in 1..n : lines[i][1] = k
      BY <2>3
    <3>2. FirstWith(lines, k) \in 1..i /\ lines[FirstWith(lines, k)][1] = k
      BY <1>1, <3>1, FirstWithOf
    <3>3. i = FirstWith(lines, k)
      <4>1. FirstWith(lines, k) \in 1..n
        BY <1>1, <3>1, <3>2
      <4>. QED
        BY <1>3, <3>1, <3>2, <4>1
    <3>4. new[i] = <<k, updates[k]>>
      BY <3>1, <3>3 DEF IsUpdate
    <3>5. k \in Keys(lines)
      BY <3>1, KeysOf
    <3>6. ASSUME NEW j \in 1..Len(new), new[j][1] = k
          PROVE  j = i
      <4>1. ASSUME j \in (n + 1)..Len(new) PROVE FALSE
        <5>1. PICK key \in D \ Keys(lines) : new[j] = <<key, updates[key]>>
          BY <1>2, <4>1
        <5>. QED
          BY <3>5, <3>6, <5>1
      <4>2. j \in 1..n /\ lines[j][1] = k
        BY <1>1, <3>6, <4>1
      <4>. QED
        BY <1>3, <3>1, <4>2
    <3>. QED
      BY <1>1, <3>1, <3>4, <3>6
  <2>4. CASE ~\E i \in 1..n : lines[i][1] = k
    <3>1. k \in DOMAIN updates \ Keys(lines)
      BY <2>4, KeysOf
    <3>2. PICK i \in (n + 1)..Len(new) : new[i] = <<k, updates[k]>>
      BY <3>1 DEF IsUpdate
    <3>3. ASSUME NEW j \in 1..Len(new), new[j][1] = k
          PROVE  j = i
      <4>1. j \in (n + 1)..Len(new)
        BY <1>1, <2>4, <3>3
      <4>2. PICK key \in D \ Keys(lines) : new[j] = <<key, updates[key]>>
        BY <1>2, <4>1
      <4>3. new[j] = new[i]
        BY <3>2, <3>3, <4>2
      <4>. QED
        BY <3>2, <4>1, <4>3 DEF IsUpdate
    <3>. QED
      BY <1>1, <3>2, <3>3
  <2>. QED
    BY <2>3, <2>4
\* and so it is the last one.
<1>5. PICK i \in 1..Len(new) : new[i] = <<k, updates[k]>> /\ \A j \in 1..Len(new) : new[j][1] = k => j = i
  BY <1>4
<1>. DEFINE last(x) == new[x][1] = k /\ \A j \in (x + 1)..Len(new) : new[j][1] # k
<1>6. i \in DOMAIN new /\ last(i) /\ \A x \in DOMAIN new : last(x) => x = i
  BY <1>1, <1>5
<1>7. (CHOOSE x \in DOMAIN new : last(x)) = i
  <2>. HIDE DEF last
  <2>. QED
    BY <1>6
<1>8. k \in Keys(new)
  <2>1. i \in 1..Len(new) /\ new[i][1] = k
    BY <1>5
  <2>. QED
    BY <1>1, <2>1, KeysOf
<1>. QED
  BY <1>5, <1>7, <1>8 DEF ReadProperties

\* Once it is made, an update changes nothing.
LEMMA UpdateIsFinal ==
  ASSUME NEW lines \in Seq(STRING \X Nat), NEW D \in SUBSET (STRING \ {"#"}), IsFiniteSet(D),
         NEW updates \in [D -> Nat], NEW new, IsUpdate(lines, updates, new)
  PROVE  UpdateProperties(new, updates) = new
<1>. DEFINE n     == Len(lines)
            again == UpdateProperties(new, updates)
<1>1. /\ n \in Nat /\ DOMAIN lines = 1..n
      /\ new \in Seq(STRING \X Nat) /\ Len(new) \in Nat /\ DOMAIN new = 1..Len(new)
      /\ \A i \in 1..n : i \in 1..Len(new) /\ new[i][1] = lines[i][1]
      /\ \A i \in 1..Len(new) : i \in 1..n \/ i \in (n + 1)..Len(new)
      /\ \A i \in (n + 1)..Len(new) : i \in 1..Len(new)
  BY UpdatedLines
<1>3. \A i \in (n + 1)..Len(new) : \E key \in D \ Keys(lines) : new[i] = <<key, updates[key]>>
  BY UpdatedLines
<1>2. IsUpdate(new, updates, again)
  BY <1>1, UpdateIs
<1>. HIDE DEF again
<1>4. ASSUME NEW k \in D PROVE k \in Keys(new)
  <2>1. CASE k \in Keys(lines)
    <3>1. PICK i \in 1..n : lines[i][1] = k
      BY <2>1, KeysOf
    <3>2. i \in 1..Len(new) /\ new[i][1] = k
      BY <1>1, <3>1
    <3>. QED
      BY <1>1, <3>2, KeysOf
  <2>2. CASE k \notin Keys(lines)
    <3>1. PICK i \in (n + 1)..Len(new) : new[i] = <<k, updates[k]>>
      BY <2>2 DEF IsUpdate
    <3>2. i \in 1..Len(new) /\ new[i][1] = k
      BY <1>1, <3>1
    <3>. QED
      BY <1>1, <3>2, KeysOf
  <2>. QED
    BY <2>1, <2>2
<1>5. again \in Seq(STRING \X Nat) /\ Len(again) = Len(new)
  <2>1. again \in Seq(STRING \X Nat) /\ Len(again) \in Nat /\ Len(again) >= Len(new)
    BY <1>2, LenProperties DEF IsUpdate
  <2>2. ~\E i \in (Len(new) + 1)..Len(again) : TRUE
    BY <1>1, <1>2, <1>4, UpdatedLines
  <2>3. Len(again) > Len(new) => Len(again) \in (Len(new) + 1)..Len(again)
    BY <1>1, <2>1
  <2>4. ~(Len(again) > Len(new))
    BY <2>2, <2>3
  <2>5. Len(new) \in Nat
    BY <1>1
  <2>. QED
    BY <2>1, <2>4, <2>5
\* The first line of a key is the one the update has written.
<1>6. ASSUME NEW i \in 1..Len(new), new[i][1] \in D, i = FirstWith(new, new[i][1])
      PROVE  new[i] = <<new[i][1], updates[new[i][1]]>>
  <2>. DEFINE k == new[i][1]
  <2>1. CASE i \in 1..n
    <3>1. lines[i][1] = k
      BY <1>1, <2>1
    <3>. HIDE DEF k
    <3>2. FirstWith(lines, k) \in 1..i /\ lines[FirstWith(lines, k)][1] = k
      BY <1>1, <2>1, <3>1, FirstWithOf
    <3>3. \A j \in 1..(i - 1) : new[j][1] # k
      <4>1. Len(new) \in Nat /\ DOMAIN new = 1..Len(new)
        BY <1>1
      <4>2. \A j \in 1..(FirstWith(new, new[i][1]) - 1) : new[j][1] # new[i][1]
        BY <4>1, FirstWithOf
      <4>. QED
        BY <1>6, <4>2 DEF k
    <3>4. FirstWith(lines, k) = i
      <4>1. ASSUME FirstWith(lines, k) # i PROVE FALSE
        <5>1. FirstWith(lines, k) \in 1..(i - 1) /\ FirstWith(lines, k) \in 1..n
          BY <1>1, <2>1, <3>2, <4>1
        <5>. QED
          BY <1>1, <3>2, <3>3, <5>1
      <4>. QED
        BY <4>1
    <3>. QED
      BY <1>6, <2>1, <3>1, <3>4 DEF IsUpdate, k
  <2>2. CASE i \in (n + 1)..Len(new)
    <3>1. PICK key \in D \ Keys(lines) : new[i] = <<key, updates[key]>>
      BY <1>3, <2>2
    <3>. QED
      BY <3>1
  <2>3. i \in 1..n \/ i \in (n + 1)..Len(new)
    BY <1>1
  <2>. QED
    BY <2>1, <2>2, <2>3
<1>7. \A i \in 1..Len(new) : again[i] = new[i]
  BY <1>2, <1>6 DEF IsUpdate
<1>. QED
  BY <1>1, <1>5, <1>7 DEF again

\* Together: whatever is asked about properties.
LEMMA UpdateIsAlwaysRead == probe # <<>> /\ WellAsked(probe) => UpdateIsRead
<1>. SUFFICES ASSUME probe # <<>>, WellAsked(probe), probe.kind = "properties" PROVE UpdateIsRead
  BY DEF UpdateIsRead, Asked
<1>1. /\ probe.lines \in Seq(STRING \X Nat) /\ DOMAIN probe.updates \in SUBSET (STRING \ {"#"})
      /\ IsFiniteSet(DOMAIN probe.updates) /\ probe.updates \in [DOMAIN probe.updates -> Nat]
  BY DEF WellAsked
<1>2. IsUpdate(probe.lines, probe.updates, UpdateProperties(probe.lines, probe.updates))
  BY <1>1, UpdateIs
<1>. DEFINE lines   == probe.lines
            updates == probe.updates
            new     == UpdateProperties(lines, updates)
<1>3. ASSUME NEW k \in DOMAIN updates, Cardinality({i \in DOMAIN lines : lines[i][1] = k}) <= 1
      PROVE  ReadProperties(new)[k] = updates[k]
  <2>1. /\ lines \in Seq(STRING \X Nat) /\ DOMAIN updates \in SUBSET (STRING \ {"#"})
        /\ updates \in [DOMAIN updates -> Nat] /\ IsUpdate(lines, updates, new)
    BY <1>1, <1>2
  <2>. HIDE DEF lines, updates, new
  <2>. QED
    BY <1>3, <2>1, TheUpdateIsRead
<1>4. {<<i, new[i]>> : i \in {j \in DOMAIN new : new[j][1] \notin DOMAIN updates}}
        = {<<i, lines[i]>> : i \in {j \in DOMAIN lines : lines[j][1] \notin DOMAIN updates}}
  BY <1>1, <1>2, OthersStay
<1>5. UpdateProperties(new, updates) = new
  BY <1>1, <1>2, UpdateIsFinal
<1>. QED
  BY <1>3, <1>4, <1>5 DEF UpdateIsRead

-----------------------------------------------------------------------------
(* java.go.                                                                *)

\* A newer release or snapshot asks for no older Java.
LEMMA NewerAsksForMore ==
  ASSUME NEW v \in Releases, NEW w \in Releases, Older(v, w)
  PROVE  RequiredJavaMajor(v) <= RequiredJavaMajor(w)
  BY DEF Releases, Older, RequiredJavaMajor

\* (snapshots are compared by their year)
LEMMA NewerSnapshotAsksForMore ==
  ASSUME NEW v \in Snapshots, NEW w \in Snapshots, Older(v, w)
  PROVE  RequiredJavaMajor(v) <= RequiredJavaMajor(w)
  BY DEF Snapshots, Older, RequiredJavaMajor

\* The runtime that is chosen is the oldest that will do.
LEMMA JavaIsOldestThatWillDo ==
  ASSUME NEW required \in Nat, NEW installed \in SUBSET Nat
  PROVE  LET java == ResolveJava(required, installed)
         IN  /\ java.satisfied <=> installed = {} \/ \E m \in installed : m >= required
             /\ java.satisfied =>
                  \A m \in installed : m >= required => java.major \in required..m
<1>. DEFINE enough == {m \in installed : m >= required}
            java   == ResolveJava(required, installed)
<1>1. CASE installed = {}
  BY <1>1 DEF ResolveJava
<1>2. CASE installed # {} /\ enough = {}
  <2>1. java.satisfied = FALSE
    BY <1>2 DEF ResolveJava
  <2>. QED
    BY <1>2, <2>1
<1>3. CASE installed # {} /\ enough # {}
  <2>1. java = [major |-> CHOOSE m \in enough : \A k \in enough : m <= k, satisfied |-> TRUE]
    BY <1>3 DEF ResolveJava
  <2>2. java.satisfied /\ java.major = CHOOSE m \in enough : \A k \in enough : m <= k
    BY <2>1
  <2>3. \E m \in enough : \A k \in enough : m <= k
    BY <1>3, SmallestOf
  <2>4. java.major \in enough /\ \A k \in enough : java.major <= k
    <3>. HIDE DEF enough, java
    <3>. QED
      BY <2>2, <2>3
  <2>5. \A m \in installed : m >= required => m \in enough
    OBVIOUS
  <2>6. java.major \in installed /\ java.major >= required
    BY <2>4
  <2>7. \A m \in installed : m >= required => java.major \in required..m
    <3>1. PICK major \in Nat : major = java.major
      BY <2>6
    <3>2. ASSUME NEW m \in installed, m >= required
          PROVE  major \in required..m
      <4>. HIDE DEF enough, java
      <4>1. m \in Nat /\ major >= required /\ major <= m
        BY <2>4, <2>5, <2>6, <3>1, <3>2
      <4>. QED
        BY <4>1
    <3>. QED
      BY <3>1, <3>2
  <2>. QED
    BY <1>3, <2>2, <2>6, <2>7
<1>. QED
  BY <1>1, <1>2, <1>3

\* Together: whatever is asked about versions and runtimes.
LEMMA JavaAlwaysSuits == probe # <<>> /\ WellAsked(probe) => JavaSuits
<1>. SUFFICES ASSUME probe # <<>>, WellAsked(probe) PROVE JavaSuits
  OBVIOUS
<1>1. ASSUME probe.kind = "versions"
      PROVE  RequiredJavaMajor(probe.older) <= RequiredJavaMajor(probe.newer)
  BY <1>1, NewerAsksForMore, NewerSnapshotAsksForMore DEF WellAsked
<1>2. ASSUME probe.kind = "java"
      PROVE  probe.required \in Nat /\ probe.installed \in SUBSET Nat
  BY <1>2 DEF WellAsked
<1>. QED
  BY <1>1, <1>2, JavaIsOldestThatWillDo DEF JavaSuits, Asked

-----------------------------------------------------------------------------
(* memory.go.                                                              *)

\* A percentage is below 65 when it is before it is rounded down.
LEMMA BelowPercent ==
  ASSUME NEW a \in Nat, NEW b \in Nat \ {0}
  PROVE  /\ a \div b \in Nat
         /\ (a \div b) < 65 <=> a < 65 * b
<1>. DEFINE q == a \div b
            r == a % b
<1>1. q \in Nat /\ r \in 0..(b - 1) /\ a = b * q + r
  BY Divided
<1>. HIDE DEF q, r
<1>2. CASE q <= 64
  <2>1. b * q <= b * 64
    BY <1>1, <1>2
  <2>. QED
    BY <1>1, <1>2, <2>1 DEF q
<1>3. CASE q >= 65
  <2>1. b * q >= b * 65
    BY <1>1, <1>3
  <2>. QED
    BY <1>1, <1>3, <2>1 DEF q
<1>. QED
  BY <1>1, <1>2, <1>3

\* Rounding up to gigabytes takes nothing away and never gives nothing.
LEMMA RoundedUp ==
  ASSUME NEW mb \in Nat
  PROVE  RoundUpToGB(mb) \in Nat \ {0} /\ RoundUpToGB(mb) >= mb
<1>1. GB \in Nat \ {0}
  BY RulesBounds
<1>. DEFINE q == mb \div GB
            r == mb % GB
<1>2. q \in Nat /\ r \in 0..(GB - 1) /\ mb = GB * q + r
  BY <1>1, Divided
<1>3. RoundUpToGB(mb) = IF mb < GB THEN GB ELSE IF r = 0 THEN mb ELSE (q + 1) * GB
  BY DEF RoundUpToGB
<1>. HIDE DEF q, r
<1>4. (q + 1) * GB = GB * q + GB /\ GB * q \in Nat
  BY <1>1, <1>2
<1>. QED
  BY <1>1, <1>2, <1>3, <1>4

\* The advised heap is at least twice the most that a collection left over.
LEMMA AdviceHelps == probe # <<>> /\ WellAsked(probe) => HeapAdviceHelps
<1>. SUFFICES ASSUME probe # <<>>, WellAsked(probe), probe.kind = "heap" PROVE HeapAdviceHelps
  BY DEF HeapAdviceHelps, Asked
<1>1. PICK heap \in Nat \ {0}, gcs \in Seq([before : Nat, after : Nat, full : BOOLEAN]) :
        heap = probe.heap /\ gcs = probe.gcs
  BY DEF WellAsked
<1>. DEFINE n      == Len(gcs)
            f      == [i \in 1..n |-> gcs[i].after]
            afters == {gcs[i].after : i \in DOMAIN gcs}
            report == ReadMemoryReport(gcs, heap)
            live   == report.live
            used   == (live * 100) \div heap
            advice == Summarise(report)
<1>2. n \in Nat /\ DOMAIN gcs = 1..n /\ \A i \in 1..n : gcs[i].after \in Nat
  <2>1. n \in Nat /\ DOMAIN gcs = 1..n
    BY LenProperties
  <2>2. \A i \in 1..n : gcs[i] \in [before : Nat, after : Nat, full : BOOLEAN]
    BY <2>1, ElementOfSeq
  <2>. QED
    BY <2>1, <2>2
<1>3. f \in [1..n -> Nat] /\ {0} \cup afters = {0} \cup {f[i] : i \in 1..n}
  BY <1>2
<1>4. live = MaxOf({0} \cup afters) /\ report.heap = heap
  BY DEF ReadMemoryReport
<1>5. live \in Nat /\ live \in {0} \cup afters /\ \A a \in afters : a \in Nat /\ a <= live
  <2>. HIDE DEF f, afters, live
  <2>1. PICK S : S = {0} \cup afters
    OBVIOUS
  <2>2. MaxOf(S) \in S /\ MaxOf(S) \in Nat /\ \A k \in S : k <= MaxOf(S)
    BY <1>2, <1>3, <2>1, LargestOf
  <2>3. \A a \in afters : a \in Nat
    BY <1>2 DEF afters
  <2>4. live = MaxOf(S)
    BY <1>4, <2>1
  <2>. QED
    BY <2>1, <2>2, <2>3, <2>4
<1>6. advice = IF used >= 65 \/ report.full > 0 THEN RoundUpToGB(live * 2) ELSE 0
  BY <1>4 DEF Summarise
<1>. HIDE DEF afters, report, live
<1>7. used \in Nat /\ (used < 65 <=> live * 100 < 65 * heap)
  BY <1>5, BelowPercent
<1>8. RoundUpToGB(live * 2) \in Nat \ {0} /\ RoundUpToGB(live * 2) >= live * 2
  <2>1. live * 2 \in Nat
    BY <1>5
  <2>. QED
    BY <2>1, RoundedUp
<1>. HIDE DEF advice, used
<1>9. CASE advice = 0
  <2>1. live * 100 < 65 * heap
    BY <1>6, <1>7, <1>8, <1>9
  <2>2. \A a \in afters : a * 100 < 65 * heap
    BY <1>5, <2>1
  <2>. QED
    BY <1>1, <1>9, <2>2 DEF HeapAdviceHelps, advice, report, afters
<1>10. CASE advice # 0
  <2>1. advice \in Nat \ {0} /\ advice >= live * 2
    BY <1>6, <1>8, <1>10
  <2>2. ASSUME NEW a \in afters
        PROVE  (a * 100) \div advice < 65 /\ (a * 100 >= 65 * heap => advice > heap)
    <3>1. a \in Nat /\ a * 2 <= advice
      BY <1>5, <2>1
    <3>2. a * 100 < 65 * advice
      BY <2>1, <3>1
    <3>3. a * 100 >= 65 * heap => advice > heap
      BY <2>1, <3>1
    <3>. QED
      BY <2>1, <3>1, <3>2, <3>3, BelowPercent
  <2>. QED
    BY <1>1, <1>10, <2>2 DEF HeapAdviceHelps, advice, report, afters
<1>. QED
  BY <1>9, <1>10

-----------------------------------------------------------------------------
(* scheduler.go.                                                           *)

\* A time of the day is hours and minutes.
LEMMA TimeOfDay ==
  ASSUME NEW t \in 0..(24 * 60 - 1)
  PROVE  t \div 60 \in 0..23 /\ t % 60 \in 0..59 /\ t = 60 * (t \div 60) + (t % 60)
  OBVIOUS

\* The multiples of a number: after the one comes the next, and there is none between.
LEMMA Multiples ==
  ASSUME NEW h \in Nat \ {0}, NEW a \in Nat, a % h = 0
  PROVE  /\ (a + h) % h = 0
         /\ \A b \in Nat : b % h = 0 /\ a < b => a + h <= b
<1>1. a \div h \in Nat /\ a = h * (a \div h)
  BY Divided
<1>2. PICK q \in Nat : a = h * q
  BY <1>1
<1>3. (a + h) % h = 0
  <2>1. a + h = h * (q + 1)
    BY <1>2
  <2>. DEFINE p == (a + h) \div h
              r == (a + h) % h
  <2>2. p \in Nat /\ r \in 0..(h - 1) /\ a + h = h * p + r
    <3>1. a + h \in Nat
      OBVIOUS
    <3>. QED
      BY <3>1, Divided
  <2>. HIDE DEF p, r
  <2>3. PICK d \in Int : d = (q + 1) - p
    BY <2>2
  <2>4. h * d = r
    BY <2>1, <2>2, <2>3
  <2>5. d < 1
    <3>. SUFFICES ASSUME d >= 1 PROVE FALSE
      BY <2>3
    <3>1. h * d >= h
      BY <2>3
    <3>. QED
      BY <2>2, <2>4, <3>1
  <2>6. d > -1
    <3>. SUFFICES ASSUME d <= -1 PROVE FALSE
      BY <2>3
    <3>1. h * d <= -h
      BY <2>3
    <3>. QED
      BY <2>2, <2>4, <3>1
  <2>7. d = 0
    BY <2>3, <2>5, <2>6
  <2>. QED
    BY <2>4, <2>7 DEF r
<1>4. ASSUME NEW b \in Nat, b % h = 0, a < b
      PROVE  a + h <= b
  <2>1. b \div h \in Nat /\ b = h * (b \div h)
    BY <1>4, Divided
  <2>2. PICK p \in Nat : b = h * p
    BY <2>1
  <2>3. p > q
    <3>. SUFFICES ASSUME p <= q PROVE FALSE
      BY <2>2
    <3>1. h * p <= h * q
      BY <2>2
    <3>. QED
      BY <1>2, <1>4, <2>2, <3>1
  <2>4. h * p >= h * (q + 1)
    BY <2>2, <2>3
  <2>. QED
    BY <1>2, <2>2, <2>4
<1>. QED
  BY <1>3, <1>4

\* A minute of the day comes once,
LEMMA RestartsAreDaily ==
  ASSUME NEW hour \in 0..23, NEW minute \in 0..59, NEW times,
         \A t : t \in times <=> t \in 0..(24 * 60 - 1) /\ t \div 60 = hour /\ t % 60 = minute
  PROVE  Cardinality(times) = 1
<1>1. times = {60 * hour + minute}
  <2>1. \A t \in 0..(24 * 60 - 1) :
          t \div 60 = hour /\ t % 60 = minute <=> t = 60 * hour + minute
    <3>. TAKE t \in 0..(24 * 60 - 1)
    <3>1. t \div 60 \in 0..23 /\ t % 60 \in 0..59 /\ t = 60 * (t \div 60) + (t % 60)
      BY TimeOfDay
    <3>. QED
      BY <3>1
  <2>2. 60 * hour + minute \in 0..(24 * 60 - 1)
    OBVIOUS
  <2>. QED
    BY <2>1, <2>2
<1>. QED
  BY <1>1, FS_Singleton

\* and hours that are multiples of a number come as often as they can.
LEMMA RestartsAreRegular ==
  ASSUME NEW h \in Nat \ {0}, NEW times,
         \A t : t \in times <=> t \in 0..(24 * 60 - 1) /\ t % 60 = 0 /\ (t \div 60) % h = 0
  PROVE  /\ 0 \in times
         /\ \A t \in times : t + 60 * h \in times \/ t + 60 * h >= 24 * 60
         /\ \A t \in times : \A u \in times : t < u => t + 60 * h <= u
<1>1. \A t \in times : /\ t \in 0..(24 * 60 - 1) /\ t \div 60 \in Nat
                         /\ t = 60 * (t \div 60) /\ (t \div 60) % h = 0
  BY TimeOfDay
<1>2. 0 \in times
  <2>1. 0 \div 60 = 0 /\ 0 % 60 = 0
    OBVIOUS
  <2>2. 0 % h = 0
    OBVIOUS
  <2>. QED
    BY <2>1, <2>2
<1>3. ASSUME NEW t \in times, t + 60 * h < 24 * 60
      PROVE  t + 60 * h \in times
  <2>1. PICK a \in Nat : t = 60 * a /\ a % h = 0
    BY <1>1
  <2>2. (a + h) % h = 0
    BY <2>1, Multiples
  <2>3. t + 60 * h = 60 * (a + h) /\ t + 60 * h \in 0..(24 * 60 - 1)
    BY <1>3, <2>1
  <2>4. (t + 60 * h) \div 60 = a + h /\ (t + 60 * h) % 60 = 0
    BY <2>1, <2>3
  <2>. QED
    BY <2>2, <2>3, <2>4
<1>4. ASSUME NEW t \in times, NEW u \in times, t < u
      PROVE  t + 60 * h <= u
  <2>1. PICK a \in Nat, b \in Nat : t = 60 * a /\ a % h = 0 /\ u = 60 * b /\ b % h = 0
    BY <1>1
  <2>2. a < b
    BY <1>4, <2>1
  <2>3. a + h <= b
    BY <2>1, <2>2, Multiples
  <2>. QED
    BY <2>1, <2>3
<1>5. \A t \in times : t + 60 * h < 24 * 60 \/ t + 60 * h >= 24 * 60
  BY <1>1
<1>. QED
  BY <1>2, <1>3, <1>4, <1>5

\* Together: whatever schedule is asked about.
LEMMA RestartsAlwaysRecur == probe # <<>> /\ WellAsked(probe) => RestartsRecur
<1>. SUFFICES ASSUME probe # <<>>, WellAsked(probe), probe.kind = "schedule" PROVE RestartsRecur
  BY DEF RestartsRecur, Asked
<1>. DEFINE s     == probe.schedule
            times == {t \in 0..(24 * 60 - 1) : ShouldRestart(s, t \div 60, t % 60)}
<1>1. CASE s \in [kind : {"daily"}, hour : 0..23, minute : 0..59]
  <2>1. s.kind = "daily" /\ s.hour \in 0..23 /\ s.minute \in 0..59
    BY <1>1
  <2>2. \A t : t \in times <=> t \in 0..(24 * 60 - 1) /\ t \div 60 = s.hour /\ t % 60 = s.minute
    BY <2>1 DEF ShouldRestart
  <2>3. Cardinality(times) = 1
    <3>. HIDE DEF times
    <3>. QED
      BY <2>1, <2>2, RestartsAreDaily
  <2>. QED
    BY <2>1, <2>3 DEF RestartsRecur
<1>2. CASE s \in [kind : {"interval"}, hours : Nat \ {0}]
  <2>1. s.kind = "interval" /\ s.hours \in Nat \ {0}
    BY <1>2
  <2>2. \A t : t \in times <=> t \in 0..(24 * 60 - 1) /\ t % 60 = 0 /\ (t \div 60) % s.hours = 0
    BY <2>1 DEF ShouldRestart
  <2>3. /\ 0 \in times
        /\ \A t \in times : t + 60 * s.hours \in times \/ t + 60 * s.hours >= 24 * 60
        /\ \A t \in times : \A u \in times : t < u => t + 60 * s.hours <= u
    <3>. HIDE DEF times
    <3>. QED
      BY <2>1, <2>2, RestartsAreRegular
  <2>. QED
    BY <2>1, <2>3 DEF RestartsRecur
<1>. QED
  BY <1>1, <1>2 DEF WellAsked
=============================================================================
