-------------------------- MODULE OptimisticLemmas --------------------------
(***************************************************************************)
(* Lemmas about the operators of Optimistic, for OptimisticProofs, where   *)
(* they are called in any order, and for ClientViewProofs, where the       *)
(* handler calls them: what a removal removes, which actions a revert      *)
(* takes along, and what becomes of the pieces shown moved.                *)
(***************************************************************************)
EXTENDS Optimistic, TLAPS, WellFoundedInduction, FiniteSetTheorems

-----------------------------------------------------------------------------
(* Numbers: a set of them that is not empty has a least one.               *)

LEMMA LeastOfNaturals ==
    ASSUME NEW T \in SUBSET Nat, T # {}
    PROVE  \E x \in T : \A y \in T : x <= y
<1>1. IsWellFoundedOn(OpToRel(<, Nat), Nat)
  BY NatLessThanWellFounded
<1>2. PICK x \in T : \A y \in T : ~ (<<y, x>> \in OpToRel(<, Nat))
  BY <1>1, WFMin
<1>3. \A y \in T : ~ (y < x)
  BY <1>2 DEF OpToRel
<1> QED
  BY <1>3

LEMMA SetInduction ==
    ASSUME NEW T, 0 \in T, \A n \in Nat : n \in T => n + 1 \in T
    PROVE  \A n \in Nat : n \in T
<1> DEFINE U == {n \in Nat : n \notin T}
<1> SUFFICES ASSUME U # {} PROVE FALSE
  OBVIOUS
<1>1. PICK x \in U : \A y \in U : x <= y
  BY LeastOfNaturals
<1>2. x \in Nat /\ x # 0 /\ x - 1 \in Nat /\ ~ (x <= x - 1)
  OBVIOUS
<1>3. x - 1 \in T
  BY <1>1, <1>2
<1>4. (x - 1) + 1 \in T /\ (x - 1) + 1 = x
  BY <1>2, <1>3
<1> QED
  BY <1>4

(* The last action is the one with the greatest id.                        *)
LEMMA LastOfIsLast ==
    ASSUME NEW S, S # {}, NEW n \in Nat,
           \A a \in S : a.actionId \in Nat /\ a.actionId < n
    PROVE  /\ LastOf(S) \in S
           /\ \A b \in S : b.actionId <= LastOf(S).actionId
<1> DEFINE T == {n - a.actionId : a \in S}
<1>1. T \in SUBSET Nat /\ T # {}
  <2>1. \A a \in S : n - a.actionId \in Nat
    OBVIOUS
  <2> QED
    BY <2>1
<1> HIDE DEF T
<1>2. PICK x \in T : \A y \in T : x <= y
  BY <1>1, LeastOfNaturals
<1>3. PICK a \in S : x = n - a.actionId
  BY DEF T
<1>4. \A b \in S : n - b.actionId \in T
  BY DEF T
<1>5. \A b \in S : b.actionId <= a.actionId
  BY <1>2, <1>3, <1>4
<1> QED
  BY <1>5 DEF LastOf

-----------------------------------------------------------------------------
(* A state of the optimistic moves that the calls leave: the two maps hold *)
(* the same actions, and each has an id of its own that was given out.     *)
IsOptimism(o) == o \in [byPiece : {o.byPiece}, byToken : {o.byToken},
                        touching : {o.touching}, keys : {o.keys}, nextId : {o.nextId}]
Sound(o) ==
    /\ IsOptimism(o) /\ o.byPiece = o.byToken
    /\ o.nextId \in Nat
    /\ \A a \in o.byToken : a.actionId \in Nat /\ a.actionId < o.nextId
    /\ \A a, b \in o.byToken : a.actionId = b.actionId => a = b

(* Entering actions adds them to both maps and counts up.                  *)
LEMMA WithActionsFacts ==
    ASSUME NEW o, IsOptimism(o), NEW made, NEW count
    PROVE  LET w == WithActions(o, made, count)
           IN  /\ IsOptimism(w) /\ w.nextId = o.nextId + count
               /\ w.byPiece = o.byPiece \cup made /\ w.byToken = o.byToken \cup made
<1> DEFINE fresh == {a \in made : \A b \in o.byPiece : b.id # a.id}
           added == {[id |-> a.id, since |-> a.actionId] : a \in fresh}
           w == WithActions(o, made, count)
<1>1. w = [o EXCEPT !.byPiece = @ \cup made, !.byToken = @ \cup made,
                    !.keys = @ \cup added, !.nextId = @ + count]
  BY DEF WithActions
<1> HIDE DEF added, w
<1>2. /\ IsOptimism(w) /\ w.nextId = o.nextId + count
      /\ w.byPiece = o.byPiece \cup made /\ w.byToken = o.byToken \cup made
  BY <1>1 DEF IsOptimism
<1> QED BY <1>2 DEF w

(* There are finitely many actions: their ids are different numbers below  *)
(* nextId.                                                                 *)
LEMMA FinitelyManyActions ==
    ASSUME NEW o, Sound(o)
    PROVE  IsFiniteSet(o.byToken)
<1> DEFINE B == o.byToken
           n == o.nextId
           number == [a \in B |-> a.actionId]
<1>1. /\ n \in Nat
      /\ \A a \in B : a.actionId \in Nat /\ a.actionId < n
      /\ \A a, b \in B : a.actionId = b.actionId => a = b
  BY DEF Sound
<1>2. number \in Injection(B, 0 .. n)
  BY <1>1 DEF Injection, IsInjective
<1>3. IsFiniteSet(0 .. n)
  BY <1>1, FS_Interval
<1> QED
  BY <1>2, <1>3, FS_Injection

(* What is removed.  The set given to _removeActions is closed: it holds   *)
(* all the actions of its tokens, or all those of its pieces.              *)
Closed(o, A) ==
    \/ \A a \in A, b \in o.byToken : b.token = a.token => b \in A
    \/ \A a \in A, b \in o.byToken : b.id = a.id => b \in A

LEMMA RemovalIsExact ==
    ASSUME NEW o, Sound(o), NEW A \in SUBSET o.byToken, Closed(o, A)
    PROVE  LET r == removeActions(o, A)
           IN  /\ Sound(r)
               /\ r.byToken = o.byToken \ A /\ r.byPiece = o.byToken \ A
               /\ r.touching = o.touching \ TouchesOf(A)
               /\ r.nextId = o.nextId
<1> DEFINE r == removeActions(o, A)
           B == o.byToken
<1>1. o.byPiece = B /\ IsOptimism(o)
  BY DEF Sound
<1>2. /\ r.byToken = {a \in B : ~(a.token \in {x.token : x \in A}
                                  /\ a.actionId \in {x.actionId : x \in A})}
      /\ r.byPiece = {a \in B : ~(a.id \in {x.id : x \in A}
                                  /\ a.token \in {x.token : x \in A})}
      /\ r.touching = o.touching \ TouchesOf(A)
      /\ r.nextId = o.nextId /\ IsOptimism(r)
  BY <1>1 DEF removeActions, IsOptimism
<1>3. \A a \in A, b \in B : b.actionId = a.actionId => b = a
  BY DEF Sound
<1>4. r.byToken = B \ A
  BY <1>2, <1>3
<1>5. r.byPiece = B \ A
  <2>1. CASE \A a \in A, b \in B : b.token = a.token => b \in A
    BY <1>2, <2>1
  <2>2. CASE \A a \in A, b \in B : b.id = a.id => b \in A
    BY <1>2, <2>2
  <2> QED
    BY <2>1, <2>2 DEF Closed
<1> HIDE DEF r
<1>6. Sound(r)
  BY <1>2, <1>4, <1>5 DEF Sound
<1> QED
  BY <1>2, <1>4, <1>5, <1>6 DEF r

(* What is added: actions with ids of their own, from nextId on.           *)
Numbered(made, first, next) ==
    /\ \A a \in made : a.actionId \in Nat /\ first <= a.actionId /\ a.actionId < next
    /\ \A a, b \in made : a.actionId = b.actionId => a = b

LEMMA AdditionIsSound ==
    ASSUME NEW o, Sound(o), NEW made, NEW count \in Nat,
           Numbered(made, o.nextId, o.nextId + count), NEW p, IsOptimism(p),
           p.byPiece = o.byPiece \cup made, p.byToken = o.byToken \cup made,
           p.nextId = o.nextId + count
    PROVE  Sound(p)
<1>1. /\ o.nextId \in Nat /\ p.nextId \in Nat /\ o.nextId <= p.nextId
      /\ p.byPiece = p.byToken
  BY DEF Sound
<1>2. \A a \in o.byToken : a.actionId \in Nat /\ a.actionId < o.nextId
  BY DEF Sound
<1>3. \A a \in made : a.actionId \in Nat /\ o.nextId <= a.actionId /\ a.actionId < p.nextId
  BY DEF Numbered
<1>4. \A a \in p.byToken : a.actionId \in Nat /\ a.actionId < p.nextId
  BY <1>1, <1>2, <1>3
<1>5. \A a \in o.byToken, b \in made : a.actionId # b.actionId
  BY <1>1, <1>2, <1>3
<1>6. \A a, b \in p.byToken : a.actionId = b.actionId => a = b
  BY <1>5 DEF Sound, Numbered
<1> QED
  BY <1>1, <1>4, <1>6 DEF Sound

-----------------------------------------------------------------------------
(* A revert is complete.  The rounds of AllDependants can only add tokens, *)
(* a round adds none once no action joins, and there are more rounds than  *)
(* actions: so the last one is closed.                                     *)

(* The rounds that AllDependants takes the last of.                        *)
Round(o, T, run, n) == IF n = 0 THEN T ELSE WithDependants(o, run[n - 1])
AreRounds(o, T, last, run) == run = [n \in 0 .. last |-> Round(o, T, run, n)]

LEMMA RoundsExist ==
    ASSUME NEW o, NEW T, NEW last \in Nat
    PROVE  \E run : AreRounds(o, T, last, run)
<1> DEFINE G == {n \in Nat : \E run : AreRounds(o, T, n, run)}
<1>1. 0 \in G
  <2> DEFINE run == [n \in 0 .. 0 |-> T]
  <2>1. \A n \in 0 .. 0 : Round(o, T, run, n) = T
    BY DEF Round
  <2>2. AreRounds(o, T, 0, run)
    BY <2>1 DEF AreRounds
  <2> QED
    BY <2>2
<1>2. ASSUME NEW n \in Nat, n \in G PROVE n + 1 \in G
  <2>1. PICK run : AreRounds(o, T, n, run)
    BY <1>2
  <2> DEFINE next == [i \in 0 .. n + 1 |-> Round(o, T, run, i)]
  <2>2. ASSUME NEW i \in 0 .. n + 1 PROVE Round(o, T, next, i) = Round(o, T, run, i)
    <3>1. CASE i = 0
      BY <3>1 DEF Round
    <3>2. CASE i # 0
      <4>1. i - 1 \in 0 .. n /\ i - 1 \in 0 .. n + 1
        BY <3>2
      <4>2. next[i - 1] = run[i - 1]
        BY <2>1, <4>1 DEF AreRounds
      <4> HIDE DEF next
      <4> QED
        BY <3>2, <4>2 DEF Round
    <3> QED
      BY <3>1, <3>2
  <2>3. AreRounds(o, T, n + 1, next)
    BY <2>2 DEF AreRounds
  <2> HIDE DEF next
  <2> QED
    BY <2>3
<1> HIDE DEF G
<1>3. last \in G
  BY <1>1, <1>2, SetInduction
<1> QED
  BY <1>3 DEF G

LEMMA DependantsAreRounds ==
    ASSUME NEW o, NEW T, Cardinality(o.byToken) \in Nat
    PROVE  LET last == Cardinality(o.byToken) + 1
           IN  \E run : AreRounds(o, T, last, run) /\ AllDependants(o, T) = run[last]
<1> DEFINE last == Cardinality(o.byToken) + 1
           reached == CHOOSE run : AreRounds(o, T, last, run)
<1>1. last \in Nat
  OBVIOUS
<1>2. AreRounds(o, T, last, reached)
  BY <1>1, RoundsExist
<1>3. AllDependants(o, T) = reached[last]
  BY DEF AllDependants, AreRounds, Round
<1> HIDE DEF reached
<1> QED
  BY <1>2, <1>3

(* A round that reaches no further action is the last to add a token.      *)
Reached(o, X) == {a \in o.byToken : a.token \in X}

LEMMA RoundsGrow ==
    ASSUME NEW o, NEW X, NEW Y, Reached(o, X) = Reached(o, Y), X \subseteq Y,
           WithDependants(o, X) = Y
    PROVE  WithDependants(o, Y) = Y
BY DEF WithDependants, Reached

LEMMA LastRoundIsClosed ==
    ASSUME NEW o, IsFiniteSet(o.byToken), NEW T
    PROVE  LET all == AllDependants(o, T)
           IN  WithDependants(o, all) = all
<1> DEFINE B == o.byToken
           size == Cardinality(B)
           last == size + 1
<1>1. size \in Nat /\ last \in Nat
  BY FS_CardinalityType
<1>2. PICK run : AreRounds(o, T, last, run) /\ AllDependants(o, T) = run[last]
  BY <1>1, DependantsAreRounds
<1> HIDE DEF last, size
<1>3. \A n \in 0 .. last - 1 : run[n + 1] = WithDependants(o, run[n])
  <2> TAKE n \in 0 .. last - 1
  <2>1. n + 1 \in 0 .. last /\ n + 1 # 0 /\ (n + 1) - 1 = n
    BY <1>1
  <2>2. run[n + 1] = Round(o, T, run, n + 1)
    BY <1>2, <2>1 DEF AreRounds
  <2> QED
    BY <2>1, <2>2 DEF Round
<1>4. \A n \in 0 .. last - 1 : run[n] \subseteq run[n + 1]
  BY <1>3 DEF WithDependants
<1> DEFINE Fixed(n) == \E k \in 0 .. n : k < last /\ run[k + 1] = run[k]
           C(n) == Reached(o, run[n])
           G == {n \in Nat : n <= size => Fixed(n) \/ Cardinality(C(n)) >= n}
<1>5. \A n \in Nat : IsFiniteSet(C(n)) /\ Cardinality(C(n)) \in Nat /\ Cardinality(C(n)) <= size
  <2> TAKE n \in Nat
  <2>1. C(n) \in SUBSET B
    BY DEF Reached
  <2> QED
    BY <2>1, FS_Subset, FS_CardinalityType DEF size
<1> HIDE DEF C
<1>6. 0 \in G
  BY <1>5
<1>7. ASSUME NEW n \in Nat, n \in G PROVE n + 1 \in G
  <2> SUFFICES ASSUME n + 1 <= size, ~Fixed(n + 1)
               PROVE  Cardinality(C(n + 1)) >= n + 1
    BY <1>7
  <2>1. n <= size /\ n \in 0 .. last - 1 /\ n + 1 \in 0 .. last - 1 /\ n + 1 < last
    BY <1>1, <1>7 DEF last
  <2>2. ~Fixed(n)
    <3>1. 0 .. n \subseteq 0 .. n + 1
      BY <1>7
    <3> QED
      BY <3>1
  <2>3. Cardinality(C(n)) >= n
    BY <1>7, <2>1, <2>2
  <2>4. C(n) \subseteq C(n + 1)
    BY <1>4, <2>1 DEF C, Reached
  <2>5. C(n) # C(n + 1)
    <3> SUFFICES ASSUME C(n) = C(n + 1) PROVE FALSE
      OBVIOUS
    <3>1. run[(n + 1) + 1] = run[n + 1]
      <4>1. /\ run[n + 1] = WithDependants(o, run[n])
            /\ run[(n + 1) + 1] = WithDependants(o, run[n + 1])
            /\ run[n] \subseteq run[n + 1]
        BY <1>3, <1>4, <2>1
      <4> QED
        BY <4>1, RoundsGrow DEF C
    <3>2. n + 1 \in 0 .. n + 1
      BY <1>7
    <3> QED
      BY <2>1, <3>1, <3>2
  <2>6. Cardinality(C(n)) < Cardinality(C(n + 1))
    <3>1. n \in Nat /\ n + 1 \in Nat
      BY <1>7
    <3>2. /\ IsFiniteSet(C(n + 1)) /\ Cardinality(C(n)) \in Nat
          /\ Cardinality(C(n + 1)) \in Nat
      BY <1>5, <3>1
    <3>3. /\ Cardinality(C(n)) <= Cardinality(C(n + 1))
          /\ Cardinality(C(n + 1)) = Cardinality(C(n)) => C(n + 1) = C(n)
      BY <2>4, <3>2, FS_Subset
    <3> QED
      BY <2>5, <3>2, <3>3
  <2>7. Cardinality(C(n)) \in Nat /\ Cardinality(C(n + 1)) \in Nat
    BY <1>5, <1>7
  <2> QED
    BY <1>7, <2>3, <2>6, <2>7
<1>8. size \in G
  <2> HIDE DEF G
  <2> QED
    BY <1>1, <1>6, <1>7, SetInduction
<1>9. CASE Fixed(size)
  <2>1. PICK k \in 0 .. size : k < last /\ run[k + 1] = run[k]
    BY <1>9
  <2>2. k \in 0 .. last - 1 /\ WithDependants(o, run[k]) = run[k]
    BY <1>1, <1>3, <2>1
  <2> DEFINE H == {m \in Nat : k + m <= last => run[k + m] = run[k]}
  <2>3. 0 \in H
    BY <2>2
  <2>4. ASSUME NEW m \in Nat, m \in H PROVE m + 1 \in H
    <3> SUFFICES ASSUME k + (m + 1) <= last PROVE run[k + (m + 1)] = run[k]
      BY <2>4
    <3>1. k + m \in 0 .. last - 1 /\ k + m <= last /\ (k + m) + 1 = k + (m + 1)
      BY <1>1, <2>2, <2>4
    <3>2. run[(k + m) + 1] = WithDependants(o, run[k + m]) /\ run[k + m] = run[k]
      BY <1>3, <2>4, <3>1
    <3> QED
      BY <2>2, <3>1, <3>2
  <2>5. last - k \in H
    <3> HIDE DEF H
    <3>1. last - k \in Nat
      BY <1>1, <2>2
    <3> QED
      BY <2>3, <2>4, <3>1, SetInduction
  <2>6. k + (last - k) = last /\ last <= last
    BY <1>1, <2>2
  <2>7. run[last] = run[k]
    BY <2>5, <2>6
  <2> QED
    BY <1>2, <2>2, <2>7 DEF last, size
<1>10. CASE Cardinality(C(size)) >= size
  <2>1. size \in 0 .. last - 1 /\ size + 1 = last
    BY <1>1 DEF last
  <2>2. C(size) = B
    <3>1. C(size) \in SUBSET B
      BY DEF C, Reached
    <3>2. Cardinality(C(size)) \in Nat /\ Cardinality(C(size)) <= size
      BY <1>1, <1>5
    <3>3. Cardinality(C(size)) = Cardinality(B)
      BY <1>1, <1>10, <3>2 DEF size
    <3> QED
      BY <3>1, <3>3, FS_Subset
  <2>3. /\ run[last] = WithDependants(o, run[size])
        /\ run[size] \subseteq run[last]
    BY <1>3, <1>4, <2>1
  <2>4. Reached(o, run[size]) = Reached(o, run[last])
    BY <2>2, <2>3 DEF C, Reached
  <2>5. WithDependants(o, run[last]) = run[last]
    BY <2>3, <2>4, RoundsGrow
  <2> QED
    BY <1>2, <2>5 DEF last, size
<1> QED
  BY <1>1, <1>8, <1>9, <1>10

(* All the tokens asked for are in the last round.                         *)
LEMMA LastRoundHasAll ==
    ASSUME NEW o, IsFiniteSet(o.byToken), NEW T
    PROVE  T \subseteq AllDependants(o, T)
<1> DEFINE last == Cardinality(o.byToken) + 1
<1>1. Cardinality(o.byToken) \in Nat
  BY FS_CardinalityType
<1>2. last \in Nat
  BY <1>1
<1>3. PICK run : AreRounds(o, T, last, run) /\ AllDependants(o, T) = run[last]
  BY <1>1, DependantsAreRounds
<1> HIDE DEF last
<1> DEFINE G == {n \in Nat : n <= last => T \subseteq run[n]}
<1>4. 0 \in G
  <2>1. run[0] = Round(o, T, run, 0)
    BY <1>2, <1>3 DEF AreRounds
  <2> QED
    BY <2>1 DEF Round
<1>5. ASSUME NEW n \in Nat, n \in G PROVE n + 1 \in G
  <2> SUFFICES ASSUME n + 1 <= last PROVE T \subseteq run[n + 1]
    BY <1>5
  <2>1. n + 1 \in 0 .. last /\ n + 1 # 0 /\ (n + 1) - 1 = n /\ n <= last
    BY <1>2, <1>5
  <2>2. run[n + 1] = WithDependants(o, run[n])
    <3>1. run[n + 1] = Round(o, T, run, n + 1)
      BY <1>3, <2>1 DEF AreRounds
    <3> QED
      BY <2>1, <3>1 DEF Round
  <2>3. T \subseteq run[n]
    BY <1>5, <2>1
  <2> QED
    BY <2>2, <2>3 DEF WithDependants
<1>6. last \in G
  <2> HIDE DEF G
  <2> QED
    BY <1>2, <1>4, <1>5, SetInduction
<1>7. last <= last
  BY <1>2
<1> QED
  BY <1>3, <1>6, <1>7

(* So an action that a revert leaves is about the piece of none that went, *)
(* nor of its token, nor of a token that touches its square.               *)
LEMMA DependencySetIsClosed ==
    ASSUME NEW o, o.byPiece = o.byToken, IsFiniteSet(o.byToken), NEW tokens, NEW ids,
           NEW gone \in DependencySet(o, tokens, ids), NEW left \in o.byToken,
           \/ left.id = gone.id \/ left.token = gone.token
           \/ \E s \in gone.squares : <<s, left.token>> \in o.touching
    PROVE  left \in DependencySet(o, tokens, ids)
<1> DEFINE T == tokens \cup {b.token : b \in {c \in o.byPiece : c.id \in ids}}
           all == AllDependants(o, T)
<1>1. WithDependants(o, all) = all
  BY LastRoundIsClosed
<1>2. DependencySet(o, tokens, ids) = {a \in o.byToken : a.token \in all}
  BY DEF DependencySet
<1> HIDE DEF all
<1>3. gone \in o.byToken /\ gone.token \in all
  BY <1>2
<1>4. left.token \in WithDependants(o, all)
  <2>1. CASE left.id = gone.id
    BY <1>3, <2>1 DEF WithDependants
  <2>2. CASE left.token = gone.token
    BY <1>3, <2>2 DEF WithDependants
  <2>3. CASE \E s \in gone.squares : <<s, left.token>> \in o.touching
    <3>1. PICK s \in gone.squares : <<s, left.token>> \in o.touching
      BY <2>3
    <3>2. s \in UNION {a.squares : a \in {b \in o.byToken : b.token \in all}}
      BY <1>3, <3>1
    <3>3. left.token = <<s, left.token>>[2] /\ s = <<s, left.token>>[1]
      OBVIOUS
    <3> QED
      BY <3>1, <3>2, <3>3 DEF WithDependants
  <2> QED
    BY <2>1, <2>2, <2>3
<1> QED
  BY <1>1, <1>2, <1>4

(* What a revert removes.                                                  *)
LEMMA DependencySetFacts ==
    ASSUME NEW o, Sound(o), NEW tokens, NEW ids
    PROVE  LET A == DependencySet(o, tokens, ids)
           IN  /\ A \in SUBSET o.byToken /\ Closed(o, A)
               /\ \A a \in o.byToken : a.token \in tokens \/ a.id \in ids => a \in A
               /\ \A a \in A, b \in o.byToken : b.id = a.id \/ b.token = a.token => b \in A
<1> DEFINE A == DependencySet(o, tokens, ids)
           T == tokens \cup {b.token : b \in {c \in o.byPiece : c.id \in ids}}
<1>1. A = {a \in o.byToken : a.token \in AllDependants(o, T)}
  BY DEF DependencySet
<1>2. T \subseteq AllDependants(o, T)
  BY FinitelyManyActions, LastRoundHasAll
<1>3. o.byPiece = o.byToken
  BY DEF Sound
<1>4. \A a \in o.byToken : a.token \in tokens \/ a.id \in ids => a \in A
  BY <1>1, <1>2, <1>3
<1>5. A \in SUBSET o.byToken /\ Closed(o, A)
  BY <1>1 DEF Closed
<1>6. \A a \in A, b \in o.byToken : b.id = a.id \/ b.token = a.token => b \in A
  BY <1>3, FinitelyManyActions, DependencySetIsClosed
<1> QED
  BY <1>4, <1>5, <1>6

-----------------------------------------------------------------------------
(* The guesses: what the pieces that are shown moved are shown as.         *)
Guesses(o) ==
    {a \in o.byPiece : a.type = "move" /\ a = getPredictedState(o, a.id)}

LEMMA PredictedIsLast ==
    ASSUME NEW o, Sound(o), NEW id, Tracked(o, id)
    PROVE  /\ getPredictedState(o, id) \in ActionsOf(o, id)
           /\ \A b \in ActionsOf(o, id) :
                 b.actionId <= getPredictedState(o, id).actionId
<1>1. \A a \in ActionsOf(o, id) : a.actionId \in Nat /\ a.actionId < o.nextId
  BY DEF Sound, ActionsOf
<1>2. ActionsOf(o, id) # {} /\ o.nextId \in Nat
  BY DEF Tracked, Sound
<1> QED
  BY <1>1, <1>2, LastOfIsLast DEF getPredictedState

LEMMA GuessIsLast ==
    ASSUME NEW o, Sound(o), NEW m
    PROVE  m \in Guesses(o) <=>
              /\ m \in o.byPiece /\ m.type = "move"
              /\ \A b \in o.byPiece : b.id = m.id => b.actionId <= m.actionId
<1> SUFFICES ASSUME m \in o.byPiece
             PROVE  m = getPredictedState(o, m.id) <=>
                       \A b \in o.byPiece : b.id = m.id => b.actionId <= m.actionId
  BY DEF Guesses
<1> DEFINE shown == getPredictedState(o, m.id)
<1>1. m \in ActionsOf(o, m.id) /\ Tracked(o, m.id)
  BY DEF ActionsOf, Tracked
<1>2. shown \in ActionsOf(o, m.id) /\ \A b \in ActionsOf(o, m.id) : b.actionId <= shown.actionId
  BY <1>1, PredictedIsLast
<1> HIDE DEF shown
<1>3. shown \in o.byPiece /\ shown.id = m.id /\ o.byPiece = o.byToken
  BY <1>2 DEF ActionsOf, Sound
<1>4. shown.actionId \in Nat /\ m.actionId \in Nat
  BY <1>3 DEF Sound
<1>5. ASSUME \A b \in o.byPiece : b.id = m.id => b.actionId <= m.actionId
      PROVE  m = shown
  <2>1. shown.actionId = m.actionId
    BY <1>1, <1>2, <1>3, <1>4, <1>5
  <2> QED
    BY <1>3, <2>1 DEF Sound
<1>6. ASSUME m = shown
      PROVE  \A b \in o.byPiece : b.id = m.id => b.actionId <= m.actionId
  BY <1>2, <1>6 DEF ActionsOf
<1> QED
  BY <1>5, <1>6 DEF shown

(* A piece that is shown, and not as captured, is shown by a guess.        *)
LEMMA ShownByAGuess ==
    ASSUME NEW o, Sound(o), NEW id, Tracked(o, id),
           getPredictedState(o, id).type = "move"
    PROVE  getPredictedState(o, id) \in Guesses(o) /\ getPredictedState(o, id).id = id
BY PredictedIsLast DEF Guesses, ActionsOf

(* What a message does to the optimistic moves: nothing is shown moved     *)
(* that was not, no action gets a token that had none, and the moves that  *)
(* are left were there before.                                             *)
ShowsLess(o, p) ==
    /\ Sound(p)
    /\ Guesses(p) \subseteq Guesses(o)
    /\ \A a \in p.byToken : \E b \in o.byToken : b.token = a.token
    /\ \A a \in p.byToken : a.type = "move" => a \in o.byToken

LEMMA ShowsLessIsTransitive ==
    ASSUME NEW o, NEW p, NEW q, ShowsLess(o, p), ShowsLess(p, q)
    PROVE  ShowsLess(o, q)
BY DEF ShowsLess

LEMMA ShowsTheSame ==
    ASSUME NEW o, Sound(o)
    PROVE  ShowsLess(o, o)
BY DEF ShowsLess

(* Pieces that go with all their actions leave the others as they are.     *)
LEMMA WholePiecesGo ==
    ASSUME NEW o, Sound(o), NEW A \in SUBSET o.byToken, NEW p, Sound(p),
           p.byPiece = o.byToken \ A,
           \A a \in A, b \in o.byToken : b.id = a.id => b \in A
    PROVE  ShowsLess(o, p)
<1>1. o.byPiece = o.byToken /\ p.byPiece = p.byToken
  BY DEF Sound
<1>2. ASSUME NEW m \in Guesses(p) PROVE m \in Guesses(o)
  <2>1. /\ m \in p.byPiece /\ m.type = "move"
        /\ \A b \in p.byPiece : b.id = m.id => b.actionId <= m.actionId
    BY <1>2, GuessIsLast
  <2>2. \A b \in o.byPiece : b.id = m.id => b \in p.byPiece
    BY <1>1, <2>1
  <2> QED
    BY <1>1, <2>1, <2>2, GuessIsLast
<1> QED
  BY <1>1, <1>2 DEF ShowsLess

(* A revert leaves nothing of the tokens and pieces it is asked for, and   *)
(* nothing of a token or piece it takes anything of.                       *)
LEMMA RevertShowsLess ==
    ASSUME NEW o, Sound(o), NEW tokens, NEW ids
    PROVE  LET p == processRevert(o, tokens, ids)
           IN  /\ ShowsLess(o, p)
               /\ p.byToken \subseteq o.byToken
               /\ \A a \in p.byToken : a.token \notin tokens /\ a.id \notin ids
               /\ \A a \in o.byToken \ p.byToken, b \in p.byToken : b.token # a.token
<1> DEFINE A == DependencySet(o, tokens, ids)
           p == processRevert(o, tokens, ids)
<1>1. /\ A \in SUBSET o.byToken /\ Closed(o, A)
      /\ \A a \in o.byToken : a.token \in tokens \/ a.id \in ids => a \in A
      /\ \A a \in A, b \in o.byToken : b.id = a.id \/ b.token = a.token => b \in A
  BY DependencySetFacts
<1>2. p = removeActions(o, A)
  BY DEF processRevert
<1> HIDE DEF A, p
<1>3. Sound(p) /\ p.byToken = o.byToken \ A /\ p.byPiece = o.byToken \ A
  BY <1>1, <1>2, RemovalIsExact
<1>4. ShowsLess(o, p)
  BY <1>1, <1>3, WholePiecesGo
<1>5. /\ p.byToken \subseteq o.byToken
      /\ \A a \in p.byToken : a.token \notin tokens /\ a.id \notin ids
      /\ \A a \in o.byToken \ p.byToken, b \in p.byToken : b.token # a.token
  BY <1>1, <1>3
<1> QED
  BY <1>4, <1>5 DEF p

LEMMA SingleRevertShowsLess ==
    ASSUME NEW o, Sound(o), NEW id
    PROVE  LET p == revertSinglePieceId(o, id)
           IN  /\ ShowsLess(o, p)
               /\ p.byToken = {a \in o.byToken : a.id # id}
<1> DEFINE A == ActionsOf(o, id)
           p == revertSinglePieceId(o, id)
<1>1. A = {a \in o.byToken : a.id = id}
  BY DEF ActionsOf, Sound
<1>2. p = removeActions(o, A)
  BY DEF revertSinglePieceId
<1> HIDE DEF A, p
<1>3. A \in SUBSET o.byToken /\ Closed(o, A)
  BY <1>1 DEF Closed
<1>4. Sound(p) /\ p.byToken = o.byToken \ A /\ p.byPiece = o.byToken \ A
  BY <1>2, <1>3, RemovalIsExact
<1>5. ShowsLess(o, p)
  BY <1>1, <1>3, <1>4, WholePiecesGo
<1> QED
  BY <1>1, <1>4, <1>5 DEF p

(* A simulated capture goes by the token of its captor's last action.      *)
LEMMA SimulatedCaptureShowsLess ==
    ASSUME NEW o, Sound(o), NEW captor, NEW victim, CanSimulateCapture(o, captor)
    PROVE  LET p == addAfterTheFactSimulatedCapture(o, captor, victim)
           IN  /\ ShowsLess(o, p)
               /\ \E c : /\ p.byToken = o.byToken \cup {c} /\ c.type = "capture"
                          /\ c.id = victim.id
                          /\ c.token = getPredictedState(o, captor).token
<1> DEFINE p == addAfterTheFactSimulatedCapture(o, captor, victim)
           last == getPredictedState(o, captor)
           c == CaptureAction(o.nextId, last.token, victim, FALSE)
           made == {c}
           one == 1
<1>1. Tracked(o, captor) /\ last \in o.byToken
  <2>1. Tracked(o, captor)
    BY DEF CanSimulateCapture, Tracked
  <2> QED
    BY <2>1, PredictedIsLast DEF ActionsOf, Sound
<1>2. /\ c.actionId = o.nextId /\ c.token = last.token /\ c.type = "capture"
      /\ c.id = victim.id
  BY DEF CaptureAction
<1>3. p = WithActions(o, made, one)
  BY DEF addAfterTheFactSimulatedCapture, getPredictedState
<1> HIDE DEF c, p, last
<1>4. /\ IsOptimism(p) /\ p.nextId = o.nextId + one
      /\ p.byPiece = o.byPiece \cup made /\ p.byToken = o.byToken \cup made
  BY <1>3 DEF Sound, IsOptimism, WithActions
<1>5. Numbered(made, o.nextId, o.nextId + one) /\ one \in Nat
  BY <1>2 DEF Numbered, Sound
<1>6. Sound(p)
  <2> HIDE DEF made, one
  <2> QED
    BY <1>4, <1>5, AdditionIsSound
<1>7. ASSUME NEW m \in Guesses(p) PROVE m \in Guesses(o)
  <2>1. /\ m \in p.byPiece /\ m.type = "move"
        /\ \A b \in p.byPiece : b.id = m.id => b.actionId <= m.actionId
    BY <1>6, <1>7, GuessIsLast
  <2>2. m \in o.byPiece /\ o.byPiece \subseteq p.byPiece
    BY <1>2, <1>4, <2>1
  <2> QED
    BY <2>1, <2>2, GuessIsLast
<1>8. ShowsLess(o, p)
  BY <1>1, <1>2, <1>4, <1>6, <1>7 DEF ShowsLess
<1> QED
  BY <1>2, <1>4, <1>8 DEF p, last

(* A later move goes by a later token.                                     *)
TokensInOrder(o) ==
    \A a, b \in o.byToken :
       a.type = "move" /\ b.type = "move" /\ a.actionId < b.actionId => a.token <= b.token

(* The confirmation of the oldest token leaves each piece that is shown    *)
(* moved where it was shown.                                               *)
LEMMA ConfirmationShowsLess ==
    ASSUME NEW o, Sound(o), TokensInOrder(o), NEW t \in Nat,
           \A a \in o.byToken : a.token \in Nat /\ a.token >= t,
           \A a, b \in o.byToken : a.id = b.id => a.type = b.type
    PROVE  LET p == processConfirmation(o, t)
           IN  /\ ShowsLess(o, p)
               /\ p.byToken = {a \in o.byToken : a.token # t}
<1> DEFINE A == ActionsFor(o, t)
           p == processConfirmation(o, t)
<1>1. A = {a \in o.byToken : a.token = t}
  BY DEF ActionsFor
<1>2. p = removeActions(o, A)
  BY DEF processConfirmation
<1> HIDE DEF A, p
<1>3. A \in SUBSET o.byToken /\ Closed(o, A)
  BY <1>1 DEF Closed
<1>4. Sound(p) /\ p.byToken = o.byToken \ A /\ p.byPiece = o.byToken \ A
  BY <1>2, <1>3, RemovalIsExact
<1>5. ASSUME NEW m \in Guesses(p) PROVE m \in Guesses(o)
  <2>1. /\ m \in p.byPiece /\ m.type = "move"
        /\ \A b \in p.byPiece : b.id = m.id => b.actionId <= m.actionId
    BY <1>4, <1>5, GuessIsLast
  <2>2. m \in o.byToken /\ m.token \in Nat /\ m.token > t /\ m.actionId \in Nat
    BY <1>1, <1>4, <2>1 DEF Sound
  <2>3. ASSUME NEW b \in o.byToken, b.id = m.id PROVE b.actionId <= m.actionId
    <3>1. CASE b \in A
      <4>1. b.token = t /\ b.type = "move" /\ b.actionId \in Nat
        BY <1>1, <2>1, <2>2, <2>3, <3>1 DEF Sound
      <4>2. ~ (m.actionId < b.actionId)
        BY <2>1, <2>2, <4>1 DEF TokensInOrder
      <4> QED
        BY <2>2, <4>1, <4>2
    <3>2. CASE b \notin A
      BY <1>4, <2>1, <2>3, <3>2
    <3> QED
      BY <3>1, <3>2
  <2> QED
    BY <2>1, <2>2, <2>3, GuessIsLast DEF Sound
<1>6. ShowsLess(o, p)
  BY <1>1, <1>4, <1>5 DEF ShowsLess
<1> QED
  BY <1>1, <1>4, <1>6 DEF p
=============================================================================
