------------------------- MODULE BudgetedReadProofs -------------------------
(***************************************************************************)
(* Proofs about reads under a budget, for all sessions, commands, sizes of *)
(* records and budgets.                                                    *)
(*                                                                         *)
(* What a command reads is made by folds: of messages into entries, of     *)
(* spans into ranges, of room into bodies.  The lemmas on each say what    *)
(* its values are, by induction on the length of the sequence folded.      *)
(*                                                                         *)
(* TypeInv then says that the entries of the command under way are of the  *)
(* sessions as they are, each printing lines of its message, and that what *)
(* is kept of their bodies is of the entries selected; that no answer      *)
(* drops anything silently follows from it.  Covers is the invariant of    *)
(* the walk over a message's blocks that numbers the lines not shown: they *)
(* are lines of the message read alone, from the walk's first line on.     *)
(* SharesAll is that of the fold that shares the room left by the floors:  *)
(* there is a share for each body left.                                    *)
(*                                                                         *)
(* Inv says of the entries selected so far, at every step of a read, that  *)
(* the end is kept: those of a plain read are a prefix, those around a     *)
(* focus hold the focus, and of a tail read's entries, taken each          *)
(* request's last first, whatever was considered and is not kept is of a   *)
(* request that has stopped.  How many characters a selection takes plays  *)
(* no part in it, so the end is kept however wrong the estimate is.        *)
(***************************************************************************)
EXTENDS BudgetedRead, FiniteSetTheorems, WellFoundedInduction, TLAPS

-----------------------------------------------------------------------------
(* Induction up to a number, and folds over sequences and sets.            *)

(* What holds of 0, and of k + 1 where it holds of k, holds up to n.       *)
LEMMA UpTo ==
  ASSUME NEW n \in Nat, NEW good, 0 \in good,
         \A k \in 0..n : k < n /\ k \in good => k + 1 \in good
  PROVE  \A k \in 0..n : k \in good
<1> DEFINE bad == {k \in 0..n : k \notin good}
<1> SUFFICES ASSUME bad # {} PROVE FALSE
  OBVIOUS
<1>1. bad \subseteq Nat
  OBVIOUS
<1>2. PICK least \in bad : \A k \in bad : ~(<<k, least>> \in OpToRel(<, Nat))
  <2> HIDE DEF bad
  <2> QED BY <1>1, NatLessThanWellFounded, WFMin, Zenon
<1>3. least \in 0..n /\ least # 0 /\ least \notin good
  OBVIOUS
<1>4. PICK k : k = least - 1
  OBVIOUS
<1>5. k \in 0..n /\ k < n /\ k + 1 = least /\ k \in Nat /\ least \in Nat /\ k < least
  BY <1>3, <1>4
<1>6. k \notin bad
  BY <1>2, <1>5 DEF OpToRel
<1> QED BY <1>3, <1>5, <1>6

(* A bounded set of numbers has a largest.                                 *)
LEMMA MaxOfNumbers ==
  ASSUME NEW n \in Nat, NEW some \in SUBSET (0..n), some # {}
  PROVE  Max(some) \in some /\ \A i \in some : i <= Max(some)
<1> DEFINE after == {n - i : i \in some}
<1>2. after \subseteq Nat /\ after # {}
  OBVIOUS
<1>3. PICK least \in after : \A d \in after : ~(<<d, least>> \in OpToRel(<, Nat))
  <2> HIDE DEF after
  <2> QED BY <1>2, NatLessThanWellFounded, WFMin, Zenon
<1>4. PICK last \in some : least = n - last
  BY <1>3
<1>5. \A i \in some : i <= last
  <2> SUFFICES ASSUME NEW i \in some PROVE i <= last
    OBVIOUS
  <2>1. n - i \in after /\ least \in Nat /\ n - i \in Nat
    BY <1>2, <1>3
  <2>2. ~(n - i < least)
    BY <2>1, <1>3 DEF OpToRel
  <2> QED BY <2>2, <1>4
<1> QED
  <2>1. \E i \in some : \A j \in some : i >= j
    BY <1>5
  <2>2. Max(some) \in some /\ \A j \in some : Max(some) >= j
    BY <2>1 DEF Max
  <2> QED BY <2>2

LEMMA MaxOfPositions ==
  ASSUME NEW n \in Nat, NEW some \in SUBSET (1..n), some # {}
  PROVE  Max(some) \in some /\ \A i \in some : i <= Max(some)
<1>1. some \in SUBSET (0..n)
  OBVIOUS
<1> QED BY <1>1, MaxOfNumbers

(* A set of positions has a first one.                                     *)
LEMMA MinOfPositions ==
  ASSUME NEW n \in Nat, NEW some \in SUBSET (1..n), some # {}
  PROVE  Min(some) \in some /\ \A i \in some : Min(some) <= i
<1>1. some \subseteq Nat
  OBVIOUS
<1>2. PICK least \in some : \A i \in some : ~(<<i, least>> \in OpToRel(<, Nat))
  BY <1>1, NatLessThanWellFounded, WFMin, Zenon
<1>3. \A i \in some : least <= i
  <2> SUFFICES ASSUME NEW i \in some PROVE least <= i
    OBVIOUS
  <2>1. i \in Nat /\ least \in Nat
    BY <1>1
  <2>2. ~(i < least)
    BY <2>1, <1>2 DEF OpToRel
  <2> QED BY <2>1, <2>2
<1>4. \E i \in some : \A j \in some : i <= j
  BY <1>3
<1> QED BY <1>4 DEF Min

(* A function computes a fold over the sets of places of a sequence.       *)
IsFold(fold, sets, F, base, seq) ==
  \A s \in sets :
    fold[s] = IF s = {} THEN base
              ELSE F[<<fold[s \ {Max(s)}], seq[Max(s)]>>]

LEMMA FoldExists ==
  ASSUME NEW V, NEW D, NEW F \in [V \X D -> V], NEW base \in V,
         NEW seq \in Seq(D)
  PROVE  \E fold \in [SUBSET DOMAIN seq -> V] :
           IsFold(fold, SUBSET DOMAIN seq, F, base, seq)
<1> DEFINE n == Len(seq)
           good == {k \in 0..n : \E fold \in [SUBSET (1..k) -> V] :
                      IsFold(fold, SUBSET (1..k), F, base, seq)}
<1>1. n \in Nat /\ DOMAIN seq = 1..n
  OBVIOUS
<1>2. 0 \in good
  <2> DEFINE fold == [s \in SUBSET (1..0) |-> base]
  <2>1. fold \in [SUBSET (1..0) -> V]
    OBVIOUS
  <2>2. \A s \in SUBSET (1..0) : s = {}
    OBVIOUS
  <2>3. IsFold(fold, SUBSET (1..0), F, base, seq)
    BY <2>2 DEF IsFold
  <2> QED BY <1>1, <2>1, <2>3
<1>3. ASSUME NEW k \in 0..n, k < n, k \in good
      PROVE  k + 1 \in good
  <2>1. PICK fold \in [SUBSET (1..k) -> V] :
          IsFold(fold, SUBSET (1..k), F, base, seq)
    BY <1>3
  <2> DEFINE more == [s \in SUBSET (1..k + 1) |->
                        IF k + 1 \in s THEN F[<<fold[s \ {k + 1}], seq[k + 1]>>]
                        ELSE fold[s]]
  <2>2. ASSUME NEW s \in SUBSET (1..k + 1)
        PROVE  /\ s \ {k + 1} \in SUBSET (1..k)
               /\ k + 1 \notin s => s \in SUBSET (1..k)
               /\ k + 1 \in s => Max(s) = k + 1
    <3>1. s \ {k + 1} \in SUBSET (1..k)
      BY <1>1
    <3>2. k + 1 \notin s => s \in SUBSET (1..k)
      BY <3>1
    <3>3. ASSUME k + 1 \in s PROVE Max(s) = k + 1
      <4>1. k + 1 \in Nat /\ s # {}
        BY <3>3, <1>1
      <4>2. Max(s) \in s /\ \A i \in s : i <= Max(s)
        BY <4>1, MaxOfPositions
      <4>3. Max(s) \in 1..k + 1
        BY <4>2
      <4> QED BY <4>1, <4>2, <4>3, <3>3
    <3> QED BY <3>1, <3>2, <3>3
  <2>3. seq[k + 1] \in D
    BY <1>1, <1>3
  <2>4. more \in [SUBSET (1..k + 1) -> V]
    <3> SUFFICES ASSUME NEW s \in SUBSET (1..k + 1)
                 PROVE  (IF k + 1 \in s THEN F[<<fold[s \ {k + 1}], seq[k + 1]>>]
                         ELSE fold[s]) \in V
      OBVIOUS
    <3> QED BY <2>1, <2>2, <2>3
  <2>5. IsFold(more, SUBSET (1..k + 1), F, base, seq)
    <3> SUFFICES ASSUME NEW s \in SUBSET (1..k + 1)
                 PROVE  more[s] = IF s = {} THEN base
                          ELSE F[<<more[s \ {Max(s)}], seq[Max(s)]>>]
      BY DEF IsFold
    <3>1. CASE k + 1 \in s
      <4>1. more[s] = F[<<fold[s \ {k + 1}], seq[k + 1]>>]
        BY <3>1
      <4>2. more[s \ {k + 1}] = fold[s \ {k + 1}]
        BY <2>2
      <4>3. s # {} /\ Max(s) = k + 1
        BY <3>1, <2>2
      <4> HIDE DEF more
      <4> QED BY <4>1, <4>2, <4>3
    <3>2. CASE k + 1 \notin s /\ s # {}
      <4>0. s \in SUBSET (1..k) /\ k \in Nat /\ s # {}
        BY <3>2, <2>2, <1>1
      <4>1. s \in SUBSET (1..k) /\ Max(s) \in s
        BY <4>0, MaxOfPositions
      <4>2. more[s] = fold[s] /\ more[s \ {Max(s)}] = fold[s \ {Max(s)}]
        BY <3>2
      <4>3. fold[s] = F[<<fold[s \ {Max(s)}], seq[Max(s)]>>]
        BY <4>1, <3>2, <2>1 DEF IsFold
      <4> HIDE DEF more
      <4> QED BY <4>2, <4>3, <3>2
    <3>3. CASE s = {}
      <4>1. more[s] = fold[s] /\ s \in SUBSET (1..k)
        BY <3>3
      <4>2. fold[s] = base
        BY <4>1, <3>3, <2>1 DEF IsFold
      <4> HIDE DEF more
      <4> QED BY <4>1, <4>2, <3>3
    <3> QED BY <3>1, <3>2, <3>3
  <2> HIDE DEF more
  <2> QED BY <1>1, <1>3, <2>4, <2>5
<1>4. n \in good
  <2> HIDE DEF good
  <2>1. \A k \in 0..n : k < n /\ k \in good => k + 1 \in good
    BY <1>3
  <2>2. \A k \in 0..n : k \in good
    BY <1>1, <1>2, <2>1, UpTo, Zenon
  <2> QED BY <2>2, <1>1
<1> QED BY <1>1, <1>4

(* The places of a sequence up to one of them end with it.                 *)
LEMMA PlacesUpTo ==
  ASSUME NEW n \in Nat, NEW k \in 1..n
  PROVE  /\ 1..k \in SUBSET (1..n) /\ 1..k # {} /\ Max(1..k) = k
         /\ (1..k) \ {k} = 1..k - 1
<1>1. 1..k \in SUBSET (1..n) /\ 1..k # {} /\ k \in 1..k
  OBVIOUS
<1>2. Max(1..k) \in 1..k /\ \A i \in 1..k : i <= Max(1..k)
  BY <1>1, MaxOfPositions
<1>3. (1..k) \ {k} = 1..k - 1
  OBVIOUS
<1> QED BY <1>1, <1>2, <1>3

(* A function whose value at some places of a sequence is that of F at its *)
(* value without the last, and that place's member.                        *)
FoldsBy(fold, V, D, F, base, seq) ==
  /\ fold[{}] = base
  /\ \A s \in SUBSET DOMAIN seq : s # {} =>
       /\ fold[s \ {Max(s)}] \in V /\ seq[Max(s)] \in D
       /\ fold[s] = F[<<fold[s \ {Max(s)}], seq[Max(s)]>>]

FoldsWithin(fold, V, F, base, seq) ==
  /\ fold[{}] = base
  /\ \A s \in SUBSET DOMAIN seq : s # {} /\ fold[s \ {Max(s)}] \in V
       => fold[s] = F[<<fold[s \ {Max(s)}], seq[Max(s)]>>]

StepsThrough(fold, V, F, seq) ==
  /\ \A k \in 0..Len(seq) : fold[1..k] \in V
  /\ \A k \in 1..Len(seq) : fold[1..k] = F[<<fold[1..k - 1], seq[k]>>]

(* A fold over a sequence of some function exists, and gives its values.   *)
LEMMA FoldIsThere ==
  ASSUME NEW V, NEW D, NEW F \in [V \X D -> V], NEW base \in V,
         NEW seq \in Seq(D)
  PROVE  \E fold \in [SUBSET DOMAIN seq -> V] :
           FoldsBy(fold, V, D, F, base, seq)
<1>1. PICK fold \in [SUBSET DOMAIN seq -> V] :
        IsFold(fold, SUBSET DOMAIN seq, F, base, seq)
  BY FoldExists
<1>2. Len(seq) \in Nat /\ DOMAIN seq = 1..Len(seq)
  OBVIOUS
<1>3. fold[{}] = base
  BY <1>1 DEF IsFold
<1>4. ASSUME NEW s \in SUBSET DOMAIN seq, s # {}
      PROVE  /\ fold[s \ {Max(s)}] \in V /\ seq[Max(s)] \in D
             /\ fold[s] = F[<<fold[s \ {Max(s)}], seq[Max(s)]>>]
  <2>1. Max(s) \in s
    <3>1. s \in SUBSET (1..Len(seq))
      BY <1>2
    <3> QED BY <3>1, <1>2, <1>4, MaxOfPositions
  <2>2. s \ {Max(s)} \in SUBSET DOMAIN seq
    OBVIOUS
  <2>3. fold[s \ {Max(s)}] \in V
    BY <2>2, <1>1
  <2>4. seq[Max(s)] \in D
    BY <2>1
  <2>5. fold[s] = F[<<fold[s \ {Max(s)}], seq[Max(s)]>>]
    BY <1>1, <1>4 DEF IsFold
  <2> QED BY <2>3, <2>4, <2>5
<1> QED BY <1>1, <1>3, <1>4 DEF FoldsBy

(* A function that is such a fold wherever its values are in V.            *)
LEMMA FoldSteps ==
  ASSUME NEW V, NEW D, NEW F \in [V \X D -> V], NEW base \in V,
         NEW seq \in Seq(D), NEW fold, FoldsWithin(fold, V, F, base, seq)
  PROVE  StepsThrough(fold, V, F, seq)
<1> DEFINE n == Len(seq)
           good == {k \in 0..n : fold[1..k] \in V}
<1>1. n \in Nat /\ DOMAIN seq = 1..n /\ \A i \in 1..n : seq[i] \in D
  OBVIOUS
<1> HIDE DEF n
<1>2. ASSUME NEW k \in 1..n, fold[1..k - 1] \in V
      PROVE  fold[1..k] = F[<<fold[1..k - 1], seq[k]>>]
  <2>1. PICK s : s = 1..k
    OBVIOUS
  <2>2. s \in SUBSET DOMAIN seq /\ s # {} /\ Max(s) = k /\ s \ {Max(s)} = 1..k - 1
    BY <2>1, <1>1, PlacesUpTo
  <2>3. fold[s] = F[<<fold[s \ {Max(s)}], seq[Max(s)]>>]
    BY <1>2, <2>2 DEF FoldsWithin
  <2> QED BY <2>1, <2>2, <2>3
<1>3. 0 \in good
  <2>1. 1..0 = {} /\ 0 \in 0..n
    BY <1>1
  <2>2. fold[{}] = base
    BY DEF FoldsWithin
  <2> QED BY <2>1, <2>2
<1>4. ASSUME NEW k \in 0..n, k < n, k \in good
      PROVE  k + 1 \in good
  <2>1. k + 1 \in 1..n /\ k + 1 \in 0..n /\ (k + 1) - 1 = k
    BY <1>1, <1>4
  <2>2. fold[1..k] \in V
    BY <1>4
  <2>3. fold[1..k + 1] = F[<<fold[1..k], seq[k + 1]>>]
    BY <2>1, <2>2, <1>2
  <2>4. seq[k + 1] \in D
    BY <2>1, <1>1
  <2>5. F[<<fold[1..k], seq[k + 1]>>] \in V
    BY <2>2, <2>4
  <2> QED BY <2>1, <2>3, <2>5
<1> HIDE DEF good
<1>5. \A k \in 0..n : k < n /\ k \in good => k + 1 \in good
  BY <1>4
<1>6. \A k \in 0..n : k \in good
  BY <1>1, <1>3, <1>5, UpTo, Zenon
<1>7. \A k \in 0..n : fold[1..k] \in V
  BY <1>6 DEF good
<1>8. ASSUME NEW k \in 1..n
      PROVE  fold[1..k] = F[<<fold[1..k - 1], seq[k]>>]
  <2>1. k - 1 \in 0..n
    BY <1>1
  <2> QED BY <2>1, <1>2, <1>7
<1> QED BY <1>7, <1>8 DEF n, StepsThrough

IsTotalOrder(order, set) ==
  /\ \A x \in set : <<x, x>> \notin order
  /\ \A x, y, z \in set : <<x, y>> \in order /\ <<y, z>> \in order
                             => <<x, z>> \in order
  /\ \A x, y \in set : x = y \/ <<x, y>> \in order \/ <<y, x>> \in order

(* A set in an order is a list of its members, each once, in that order.   *)
LEMMA SortedIs ==
  ASSUME NEW set, IsFiniteSet(set), NEW order, IsTotalOrder(order, set)
  PROVE  /\ Cardinality(set) \in Nat
         /\ Sorted(set, order) \in [1..Cardinality(set) -> set]
         /\ Sorted(set, order) \in Seq(set)
         /\ Len(Sorted(set, order)) = Cardinality(set)
         /\ \A p, q \in 1..Cardinality(set) :
              p < q => <<Sorted(set, order)[p], Sorted(set, order)[q]>> \in order
         /\ \A x \in set : \E p \in 1..Cardinality(set) : Sorted(set, order)[p] = x
<1> DEFINE n == Cardinality(set)
           Before(x) == {y \in set : <<y, x>> \in order}
           place == [x \in set |-> Cardinality(Before(x)) + 1]
           list == Sorted(set, order)
<1> USE DEF IsTotalOrder
<1>1. n \in Nat
  BY FS_CardinalityType
<1>2. ASSUME NEW x \in set
      PROVE  /\ IsFiniteSet(Before(x)) /\ Cardinality(Before(x)) \in Nat
             /\ place[x] \in 1..n
  <2>1. Before(x) \in SUBSET set /\ Before(x) # set
    OBVIOUS
  <2> HIDE DEF Before
  <2>2. /\ IsFiniteSet(Before(x)) /\ Cardinality(Before(x)) <= n
        /\ Cardinality(Before(x)) # n
    BY <2>1, FS_Subset
  <2>3. Cardinality(Before(x)) \in Nat
    BY <2>2, FS_CardinalityType
  <2> QED BY <1>1, <2>2, <2>3
<1>3. ASSUME NEW x \in set, NEW y \in set, <<x, y>> \in order
      PROVE  place[x] < place[y]
  <2>1. Before(x) \in SUBSET Before(y) /\ Before(x) # Before(y)
    BY <1>3
  <2>2. /\ IsFiniteSet(Before(y)) /\ Cardinality(Before(x)) \in Nat
        /\ Cardinality(Before(y)) \in Nat
    BY <1>2
  <2>3. place[x] = Cardinality(Before(x)) + 1 /\ place[y] = Cardinality(Before(y)) + 1
    OBVIOUS
  <2> HIDE DEF Before, place
  <2>4. Cardinality(Before(x)) <= Cardinality(Before(y))
        /\ Cardinality(Before(x)) # Cardinality(Before(y))
    BY <2>1, <2>2, FS_Subset
  <2> QED BY <2>2, <2>3, <2>4
<1>4. place \in [set -> 1..n]
  BY <1>2
<1>5. \A x, y \in set : place[x] = place[y] => x = y
  <2> HIDE DEF place
  <2> SUFFICES ASSUME NEW x \in set, NEW y \in set, place[x] = place[y], x # y
               PROVE  FALSE
    OBVIOUS
  <2>1. place[x] \in Int /\ place[y] \in Int
    BY <1>4
  <2>2. <<x, y>> \in order \/ <<y, x>> \in order
    OBVIOUS
  <2> QED BY <1>3, <2>1, <2>2
<1>6. \A p \in 1..n : \E x \in set : place[x] = p
  <2> HIDE DEF place
  <2>1. place \in Injection(set, 1..n)
    BY <1>4, <1>5 DEF Injection, IsInjective
  <2>2. IsFiniteSet(1..n) /\ Cardinality(1..n) = n
    BY <1>1, FS_Interval
  <2>3. place \in Surjection(set, 1..n)
    BY <2>1, <2>2, FS_Injection
  <2> QED BY <2>3 DEF Surjection
<1>7. ASSUME NEW p \in 1..n
      PROVE  list[p] \in set /\ place[list[p]] = p
  <2>1. list[p] = CHOOSE x \in set : Cardinality(Before(x)) = p - 1
    BY DEF Sorted
  <2>2. PICK x \in set : place[x] = p
    BY <1>6
  <2>3. Cardinality(Before(x)) = p - 1
    <3>1. place[x] = Cardinality(Before(x)) + 1 /\ Cardinality(Before(x)) \in Nat
      BY <1>2
    <3> HIDE DEF place, Before
    <3> QED BY <3>1, <2>2, <1>1
  <2>4. list[p] \in set /\ Cardinality(Before(list[p])) = p - 1
    <3> HIDE DEF Before, list
    <3> QED BY <2>1, <2>3
  <2> QED BY <2>4, <1>1
<1>8. list \in [1..n -> set]
  BY <1>7 DEF Sorted
<1>9. list \in Seq(set) /\ Len(list) = n
  <2> HIDE DEF list
  <2> QED BY <1>8, <1>1
<1>10. ASSUME NEW p \in 1..n, NEW q \in 1..n, p < q
       PROVE  <<list[p], list[q]>> \in order
  <2> HIDE DEF list, place
  <2>1. list[p] # list[q]
    BY <1>7, <1>10
  <2>2. <<list[q], list[p]>> \notin order
    BY <1>7, <1>3, <1>10
  <2> QED BY <2>1, <2>2, <1>7
<1>11. \A x \in set : \E p \in 1..n : list[p] = x
  <2> HIDE DEF list, place
  <2> QED BY <1>4, <1>5, <1>7
<1> QED BY <1>1, <1>8, <1>9, <1>10, <1>11

-----------------------------------------------------------------------------
(* Sums, and sequences put end to end.                                     *)

(* The functions by which a flattened sequence and a sum are computed.     *)
Flattening(seqs) ==
  LET flatten[i \in 1..Len(seqs)] ==
        IF i = 1 THEN seqs[i] ELSE flatten[i - 1] \o seqs[i]
  IN  flatten

Summing(f) ==
  LET iter[s \in SUBSET DOMAIN f] ==
        IF s = {} THEN 0
        ELSE LET x == CHOOSE x \in s : TRUE
             IN  f[x] + iter[s \ {x}]
  IN  iter

(* The function that computes a flattened sequence is there, and unfolds.  *)
LEMMA FlattenUnfolds ==
  ASSUME NEW D, NEW seqs \in Seq(Seq(D))
  PROVE  Flattening(seqs) = [i \in 1..Len(seqs) |->
           IF i = 1 THEN seqs[i] ELSE Flattening(seqs)[i - 1] \o seqs[i]]
<1> DEFINE n == Len(seqs)
           IsIt(flat, k) ==
             \A i \in 1..k : flat[i] = IF i = 1 THEN seqs[i]
                                       ELSE flat[i - 1] \o seqs[i]
           good == {k \in 0..n : \E flat \in [1..k -> Seq(D)] : IsIt(flat, k)}
<1>1. n \in Nat /\ DOMAIN seqs = 1..n /\ \A i \in 1..n : seqs[i] \in Seq(D)
  OBVIOUS
<1>2. 0 \in good
  <2> DEFINE flat == [i \in 1..0 |-> seqs[i]]
  <2>1. flat \in [1..0 -> Seq(D)] /\ IsIt(flat, 0)
    OBVIOUS
  <2>2. 0 \in 0..n
    BY <1>1
  <2> HIDE DEF flat, IsIt
  <2> QED BY <2>1, <2>2
<1>3. ASSUME NEW k \in 0..n, k < n, k \in good
      PROVE  k + 1 \in good
  <2>1. PICK flat \in [1..k -> Seq(D)] : IsIt(flat, k)
    BY <1>3
  <2> DEFINE more == [i \in 1..k + 1 |->
                        IF i <= k THEN flat[i]
                        ELSE IF i = 1 THEN seqs[i] ELSE flat[k] \o seqs[i]]
  <2>2. k \in Nat /\ k + 1 \in 1..n /\ seqs[k + 1] \in Seq(D)
    BY <1>1, <1>3
  <2>3. more \in [1..k + 1 -> Seq(D)]
    <3> SUFFICES ASSUME NEW i \in 1..k + 1
                 PROVE  (IF i <= k THEN flat[i] ELSE
                         IF i = 1 THEN seqs[i] ELSE flat[k] \o seqs[i]) \in Seq(D)
      OBVIOUS
    <3>1. CASE i <= k
      BY <2>2, <3>1
    <3>2. CASE i = k + 1
      <4>1. k # 0 => flat[k] \in Seq(D)
        BY <2>2
      <4> QED BY <4>1, <3>2, <2>2
    <3> QED BY <3>1, <3>2, <2>2
  <2>4. IsIt(more, k + 1)
    <3> SUFFICES ASSUME NEW i \in 1..k + 1
                 PROVE  more[i] = IF i = 1 THEN seqs[i] ELSE more[i - 1] \o seqs[i]
      OBVIOUS
    <3>1. CASE i <= k
      <4>1. more[i] = flat[i] /\ i \in 1..k
        BY <3>1, <2>2
      <4>2. i # 1 => more[i - 1] = flat[i - 1]
        BY <4>1, <2>2
      <4> HIDE DEF more
      <4> QED BY <4>1, <4>2, <2>1
    <3>2. CASE i = k + 1
      <4>1. i # 1 => more[i] = flat[k] \o seqs[i] /\ more[i - 1] = flat[k]
        <5> SUFFICES ASSUME i # 1
                     PROVE  more[i] = flat[k] \o seqs[i] /\ more[i - 1] = flat[k]
          OBVIOUS
        <5>1. i - 1 = k /\ k \in 1..k + 1 /\ k <= k /\ ~(i <= k)
          BY <3>2, <2>2
        <5> QED BY <5>1
      <4>2. i = 1 => more[i] = seqs[i]
        BY <3>2, <2>2
      <4> HIDE DEF more
      <4> QED BY <4>1, <4>2
    <3> QED BY <3>1, <3>2, <2>2
  <2> HIDE DEF more, IsIt
  <2> QED BY <1>1, <1>3, <2>2, <2>3, <2>4
<1>4. n \in good
  <2> HIDE DEF good
  <2>1. \A k \in 0..n : k < n /\ k \in good => k + 1 \in good
    BY <1>3
  <2>2. \A k \in 0..n : k \in good
    BY <1>1, <1>2, <2>1, UpTo, Zenon
  <2> QED BY <2>2, <1>1
<1>5. PICK flat \in [1..n -> Seq(D)] : IsIt(flat, n)
  BY <1>4
<1>6. flat = [i \in 1..n |-> IF i = 1 THEN seqs[i] ELSE flat[i - 1] \o seqs[i]]
  BY <1>5
<1>7. Flattening(seqs) = [i \in 1..n |-> IF i = 1 THEN seqs[i]
                            ELSE Flattening(seqs)[i - 1] \o seqs[i]]
  BY <1>6, Zenon DEF Flattening
<1> QED BY <1>7 DEF n

(* Each prefix of a flattened sequence is the one before with the next     *)
(* sequence after it.                                                      *)
LEMMA FlattenIs ==
  ASSUME NEW D, NEW seqs \in Seq(Seq(D))
  PROVE  /\ FlattenSeq(seqs) \in Seq(D)
         /\ \A k \in 1..Len(seqs) :
              /\ Flattening(seqs)[k] \in Seq(D)
              /\ Flattening(seqs)[k] = IF k = 1 THEN seqs[k]
                                        ELSE Flattening(seqs)[k - 1] \o seqs[k]
         /\ Len(seqs) # 0 => FlattenSeq(seqs) = Flattening(seqs)[Len(seqs)]
         /\ Len(seqs) = 0 => FlattenSeq(seqs) = <<>>
<1> DEFINE n == Len(seqs)
<1>1. n \in Nat /\ DOMAIN seqs = 1..n /\ \A i \in 1..n : seqs[i] \in Seq(D)
  OBVIOUS
<1>2. Flattening(seqs) = [i \in 1..n |-> IF i = 1 THEN seqs[i]
                            ELSE Flattening(seqs)[i - 1] \o seqs[i]]
  BY FlattenUnfolds
<1>3. \A k \in 1..n : Flattening(seqs)[k] \in Seq(D)
  <2> DEFINE typed == {k \in 0..n : k # 0 => Flattening(seqs)[k] \in Seq(D)}
  <2>1. 0 \in typed
    BY <1>1
  <2>2. ASSUME NEW k \in 0..n, k < n, k \in typed
        PROVE  k + 1 \in typed
    <3>1. k + 1 \in 1..n /\ k \in Nat /\ (k + 1) - 1 = k /\ (k + 1 = 1 <=> k = 0)
      BY <1>1, <2>2
    <3>2. Flattening(seqs)[k + 1] = IF k = 0 THEN seqs[k + 1]
                                    ELSE Flattening(seqs)[k] \o seqs[k + 1]
      BY <1>2, <3>1, Zenon
    <3>3. seqs[k + 1] \in Seq(D)
      BY <3>1, <1>1
    <3>4. Flattening(seqs)[k + 1] \in Seq(D)
      <4>1. CASE k = 0
        BY <4>1, <3>2, <3>3
      <4>2. CASE k # 0
        <5>1. Flattening(seqs)[k] \in Seq(D)
          BY <4>2, <2>2
        <5> QED BY <5>1, <4>2, <3>2, <3>3
      <4> QED BY <4>1, <4>2
    <3> QED BY <3>1, <3>4
  <2> HIDE DEF typed
  <2>3. \A k \in 0..n : k < n /\ k \in typed => k + 1 \in typed
    BY <2>2
  <2>4. \A k \in 0..n : k \in typed
    BY <1>1, <2>1, <2>3, UpTo, Zenon
  <2> USE DEF typed
  <2> QED BY <2>4, <1>1
<1>4. n # 0 => FlattenSeq(seqs) = Flattening(seqs)[n]
  BY DEF FlattenSeq, Flattening
<1>5. n = 0 => FlattenSeq(seqs) = <<>>
  BY <1>1 DEF FlattenSeq
<1>6. FlattenSeq(seqs) \in Seq(D)
  BY <1>1, <1>3, <1>4, <1>5
<1>7. \A k \in 1..n : Flattening(seqs)[k] = IF k = 1 THEN seqs[k]
                                             ELSE Flattening(seqs)[k - 1] \o seqs[k]
  BY <1>2, Zenon
<1> QED BY <1>3, <1>4, <1>5, <1>6, <1>7

LEMMA SumUnfolds ==
  ASSUME NEW f
  PROVE  SumFunction(f) = Summing(f)[DOMAIN f]
  BY DEF SumFunction, SumFunctionOnSet, FoldFunctionOnSet, MapThenFoldSet, Summing

SomeOf(s) == CHOOSE x \in s : TRUE

AddsUp(V) == V \subseteq Int /\ 0 \in V /\ \A a, b \in V : a + b \in V

LEMMA SumIsIn ==
  ASSUME NEW V, AddsUp(V),
         NEW S, IsFiniteSet(S), NEW f \in [S -> V]
  PROVE  \A s \in SUBSET S :
           /\ Summing(f)[s] \in V
           /\ s = {} => Summing(f)[s] = 0
           /\ s # {} => SomeOf(s) \in s
                /\ Summing(f)[s] = f[SomeOf(s)] + Summing(f)[s \ {SomeOf(s)}]
<1> USE DEF AddsUp
<1> DEFINE n == Cardinality(S)
           Upto(k) == {s \in SUBSET S : Cardinality(s) <= k}
           IsIt(sum, k) ==
             \A s \in Upto(k) : sum[s] = IF s = {} THEN 0
                                         ELSE f[SomeOf(s)] + sum[s \ {SomeOf(s)}]
           good == {k \in 0..n : \E sum \in [Upto(k) -> V] : IsIt(sum, k)}
<1>1. n \in Nat
  BY FS_CardinalityType
<1>2. \A s \in SUBSET S :
        /\ IsFiniteSet(s) /\ Cardinality(s) \in Nat /\ Cardinality(s) <= n
        /\ Cardinality(s) = 0 <=> s = {}
  BY FS_Subset, FS_CardinalityType, FS_EmptySet
<1>3. \A s \in SUBSET S : s # {} =>
        /\ SomeOf(s) \in s /\ s \ {SomeOf(s)} \in SUBSET S
        /\ Cardinality(s \ {SomeOf(s)}) = Cardinality(s) - 1
  <2> SUFFICES ASSUME NEW s \in SUBSET S, s # {}
               PROVE  /\ SomeOf(s) \in s /\ s \ {SomeOf(s)} \in SUBSET S
                      /\ Cardinality(s \ {SomeOf(s)}) = Cardinality(s) - 1
    OBVIOUS
  <2>1. SomeOf(s) \in s
    BY DEF SomeOf
  <2>2. Cardinality(s \ {SomeOf(s)}) = Cardinality(s) - 1
    BY <2>1, <1>2, FS_RemoveElement
  <2> QED BY <2>1, <2>2
<1>4. 0 \in good
  <2> DEFINE sum == [s \in Upto(0) |-> 0]
  <2>1. \A s \in Upto(0) : s = {}
    BY <1>2
  <2>2. sum \in [Upto(0) -> V] /\ IsIt(sum, 0)
    BY <2>1
  <2>3. 0 \in 0..n
    BY <1>1
  <2> HIDE DEF sum, IsIt, Upto
  <2> QED BY <2>2, <2>3
<1>5. ASSUME NEW k \in 0..n, k < n, k \in good
      PROVE  k + 1 \in good
  <2>1. PICK sum \in [Upto(k) -> V] : IsIt(sum, k)
    BY <1>5
  <2> DEFINE more == [s \in Upto(k + 1) |->
                        IF Cardinality(s) <= k THEN sum[s]
                        ELSE f[SomeOf(s)] + sum[s \ {SomeOf(s)}]]
  <2>2. k \in Nat
    BY <1>1
  <2>3. ASSUME NEW s \in Upto(k + 1)
        PROVE  /\ s \in SUBSET S
               /\ Cardinality(s) <= k => s \in Upto(k)
               /\ s # {} => s \ {SomeOf(s)} \in Upto(k) /\ s \ {SomeOf(s)} \in Upto(k + 1)
                            /\ SomeOf(s) \in S /\ Cardinality(s \ {SomeOf(s)}) <= k
               /\ s = {} => Cardinality(s) <= k
    <3>1. s \in SUBSET S /\ Cardinality(s) <= k + 1
      OBVIOUS
    <3>2. Cardinality(s) \in Nat /\ Cardinality(s) <= n /\ (Cardinality(s) = 0 <=> s = {})
      BY <3>1, <1>2
    <3>3. Cardinality(s) <= k => s \in Upto(k)
      BY <3>1
    <3>4. s = {} => Cardinality(s) <= k
      BY <3>2, <2>2
    <3>5. ASSUME s # {}
          PROVE  /\ s \ {SomeOf(s)} \in Upto(k) /\ s \ {SomeOf(s)} \in Upto(k + 1)
                 /\ SomeOf(s) \in S /\ Cardinality(s \ {SomeOf(s)}) <= k
      <4>1. /\ SomeOf(s) \in s /\ s \ {SomeOf(s)} \in SUBSET S
            /\ Cardinality(s \ {SomeOf(s)}) = Cardinality(s) - 1
        BY <3>1, <3>5, <1>3
      <4>2. Cardinality(s \ {SomeOf(s)}) <= k /\ Cardinality(s \ {SomeOf(s)}) <= k + 1
        BY <4>1, <3>1, <3>2, <2>2
      <4> QED BY <4>1, <4>2, <3>1
    <3> QED BY <3>1, <3>3, <3>4, <3>5
  <2>4. more \in [Upto(k + 1) -> V]
    <3> HIDE DEF Upto
    <3> SUFFICES ASSUME NEW s \in Upto(k + 1)
                 PROVE  (IF Cardinality(s) <= k THEN sum[s]
                         ELSE f[SomeOf(s)] + sum[s \ {SomeOf(s)}]) \in V
      OBVIOUS
    <3>1. CASE Cardinality(s) <= k
      BY <3>1, <2>3
    <3>2. CASE ~(Cardinality(s) <= k)
      <4>1. s \ {SomeOf(s)} \in Upto(k) /\ SomeOf(s) \in S
        BY <3>2, <2>3
      <4>2. f[SomeOf(s)] \in V /\ sum[s \ {SomeOf(s)}] \in V
        BY <4>1
      <4> QED BY <3>2, <4>2
    <3> QED BY <3>1, <3>2
  <2>5. IsIt(more, k + 1)
    <3> SUFFICES ASSUME NEW s \in Upto(k + 1)
                 PROVE  more[s] = IF s = {} THEN 0
                                  ELSE f[SomeOf(s)] + more[s \ {SomeOf(s)}]
      BY Zenon
    <3>1. s # {} => more[s \ {SomeOf(s)}] = sum[s \ {SomeOf(s)}]
      <4> HIDE DEF Upto
      <4> QED BY <2>3
    <3>2. CASE Cardinality(s) <= k
      <4>1. more[s] = sum[s]
        <5> HIDE DEF Upto
        <5> QED BY <3>2
      <4>2. sum[s] = IF s = {} THEN 0 ELSE f[SomeOf(s)] + sum[s \ {SomeOf(s)}]
        <5>1. s \in Upto(k)
          BY <3>2, <2>3, Zenon
        <5> HIDE DEF Upto
        <5> QED BY <5>1, <2>1
      <4> HIDE DEF more
      <4> QED BY <3>1, <4>1, <4>2
    <3>3. CASE ~(Cardinality(s) <= k)
      <4>1. more[s] = f[SomeOf(s)] + sum[s \ {SomeOf(s)}] /\ s # {}
        <5>1. s # {}
          BY <2>3, <3>3, Zenon
        <5> HIDE DEF Upto
        <5> QED BY <3>3, <5>1
      <4> HIDE DEF more
      <4> QED BY <3>1, <4>1
    <3> QED BY <3>2, <3>3
  <2> HIDE DEF more, IsIt, Upto
  <2> QED BY <1>1, <1>5, <2>2, <2>4, <2>5
<1>6. n \in good
  <2> HIDE DEF good
  <2>1. \A k \in 0..n : k < n /\ k \in good => k + 1 \in good
    BY <1>5
  <2>2. \A k \in 0..n : k \in good
    BY <1>1, <1>4, <2>1, UpTo, Zenon
  <2> QED BY <2>2, <1>1
<1>7. PICK sum \in [Upto(n) -> V] : IsIt(sum, n)
  BY <1>6
<1>8. Upto(n) = SUBSET S
  BY <1>2
<1>9. sum = [s \in SUBSET DOMAIN f |->
               IF s = {} THEN 0
               ELSE LET x == CHOOSE x \in s : TRUE IN f[x] + sum[s \ {x}]]
  <2>1. \A s \in SUBSET S : sum[s] = IF s = {} THEN 0
                                      ELSE f[SomeOf(s)] + sum[s \ {SomeOf(s)}]
    BY <1>7, <1>8, Zenon
  <2>2. sum = [s \in SUBSET DOMAIN f |-> sum[s]] /\ DOMAIN f = S
    BY <1>7, <1>8
  <2> QED BY <2>1, <2>2, Zenon DEF SomeOf
<1>10. Summing(f) = [s \in SUBSET DOMAIN f |->
               IF s = {} THEN 0
               ELSE LET x == CHOOSE x \in s : TRUE IN f[x] + Summing(f)[s \ {x}]]
  BY <1>9, Zenon DEF Summing
<1>11. \A s \in SUBSET S :
         Summing(f)[s] = IF s = {} THEN 0
                         ELSE f[SomeOf(s)] + Summing(f)[s \ {SomeOf(s)}]
  <2>1. DOMAIN f = S
    OBVIOUS
  <2> QED BY <1>10, <2>1, Zenon DEF SomeOf
<1>12. \A s \in SUBSET S : Summing(f)[s] \in V
  <2> DEFINE typed == {k \in 0..n : \A s \in SUBSET S :
                         Cardinality(s) <= k => Summing(f)[s] \in V}
  <2>1. 0 \in typed
    <3>1. \A s \in SUBSET S : Cardinality(s) <= 0 => s = {}
      BY <1>2
    <3>2. Summing(f)[{}] = 0
      BY <1>11
    <3>3. 0 \in 0..n /\ 0 \in V
      BY <1>1
    <3> QED BY <3>1, <3>2, <3>3
  <2>2. ASSUME NEW k \in 0..n, k < n, k \in typed
        PROVE  k + 1 \in typed
    <3>1. k + 1 \in 0..n /\ k \in Nat
      BY <1>1, <2>2
    <3>2. ASSUME NEW s \in SUBSET S, Cardinality(s) <= k + 1, s # {}
          PROVE  Summing(f)[s] \in V
      <4>1. /\ SomeOf(s) \in S /\ s \ {SomeOf(s)} \in SUBSET S
            /\ Cardinality(s \ {SomeOf(s)}) <= k
        BY <3>1, <3>2, <1>2, <1>3
      <4>2. Summing(f)[s \ {SomeOf(s)}] \in V
        BY <4>1, <2>2
      <4>3. f[SomeOf(s)] \in V
        BY <4>1
      <4>4. Summing(f)[s] = f[SomeOf(s)] + Summing(f)[s \ {SomeOf(s)}]
        BY <3>2, <1>11
      <4> QED BY <4>2, <4>3, <4>4
    <3>3. Summing(f)[{}] = 0
      BY <1>11
    <3>4. ASSUME NEW s \in SUBSET S, Cardinality(s) <= k + 1
          PROVE  Summing(f)[s] \in V
      <4>1. CASE s = {}
        BY <4>1, <3>3
      <4>2. CASE s # {}
        BY <4>2, <3>2, <3>4
      <4> QED BY <4>1, <4>2
    <3> QED BY <3>1, <3>4
  <2> HIDE DEF typed
  <2>3. \A k \in 0..n : k < n /\ k \in typed => k + 1 \in typed
    BY <2>2
  <2>4. \A k \in 0..n : k \in typed
    BY <1>1, <2>1, <2>3, UpTo, Zenon
  <2>5. n \in typed
    BY <2>4, <1>1
  <2> USE DEF typed
  <2> QED BY <2>5, <1>2
<1> QED
  <2> SUFFICES ASSUME NEW s \in SUBSET S
               PROVE  /\ Summing(f)[s] \in V
                      /\ s = {} => Summing(f)[s] = 0
                      /\ s # {} => SomeOf(s) \in s
                           /\ Summing(f)[s] = f[SomeOf(s)] + Summing(f)[s \ {SomeOf(s)}]
    OBVIOUS
  <2> QED BY <1>3, <1>11, <1>12

LEMMA SumIs ==
  ASSUME NEW S, IsFiniteSet(S), NEW f \in [S -> Int]
  PROVE  \A s \in SUBSET S :
           /\ Summing(f)[s] \in Int
           /\ s = {} => Summing(f)[s] = 0
           /\ s # {} => SomeOf(s) \in s
                /\ Summing(f)[s] = f[SomeOf(s)] + Summing(f)[s \ {SomeOf(s)}]
<1> SUFFICES ASSUME NEW s \in SUBSET S
             PROVE  /\ Summing(f)[s] \in Int
                    /\ s = {} => Summing(f)[s] = 0
                    /\ s # {} => SomeOf(s) \in s
                         /\ Summing(f)[s] = f[SomeOf(s)] + Summing(f)[s \ {SomeOf(s)}]
  OBVIOUS
<1>1. AddsUp(Int)
  BY DEF AddsUp
<1>2. Summing(f)[s] \in Int
  BY <1>1, SumIsIn
<1>3. s = {} => Summing(f)[s] = 0
  BY <1>1, SumIsIn
<1>4. s # {} => SomeOf(s) \in s
  BY <1>1, SumIsIn
<1>5. s # {} => Summing(f)[s] = f[SomeOf(s)] + Summing(f)[s \ {SomeOf(s)}]
  BY <1>1, SumIsIn
<1> QED BY <1>2, <1>3, <1>4, <1>5

(* Any member can be taken out of a sum first.                             *)
LEMMA SumTakesOut ==
  ASSUME NEW S, IsFiniteSet(S), NEW f \in [S -> Int], NEW s \in SUBSET S,
         NEW x \in s
  PROVE  Summing(f)[s] = f[x] + Summing(f)[s \ {x}]
<1> DEFINE n == Cardinality(S)
           good == {k \in 0..n : \A t \in SUBSET S : \A y \in t :
                      Cardinality(t) <= k
                        => Summing(f)[t] = f[y] + Summing(f)[t \ {y}]}
<1>1. n \in Nat
  BY FS_CardinalityType
<1>2. \A t \in SUBSET S :
        /\ IsFiniteSet(t) /\ Cardinality(t) \in Nat /\ Cardinality(t) <= n
        /\ Cardinality(t) = 0 <=> t = {}
  BY FS_Subset, FS_CardinalityType, FS_EmptySet
<1>3. \A t \in SUBSET S : \A y \in t : Cardinality(t \ {y}) = Cardinality(t) - 1
  <2> SUFFICES ASSUME NEW t \in SUBSET S, NEW y \in t
               PROVE  Cardinality(t \ {y}) = Cardinality(t) - 1
    OBVIOUS
  <2>1. IsFiniteSet(t)
    BY <1>2
  <2> QED BY <2>1, FS_RemoveElement
<1>4. \A t \in SUBSET S :
        /\ Summing(f)[t] \in Int
        /\ t # {} => SomeOf(t) \in t
                     /\ Summing(f)[t] = f[SomeOf(t)] + Summing(f)[t \ {SomeOf(t)}]
  <2> SUFFICES ASSUME NEW t \in SUBSET S
               PROVE  /\ Summing(f)[t] \in Int
                      /\ t # {} => SomeOf(t) \in t
                          /\ Summing(f)[t] = f[SomeOf(t)] + Summing(f)[t \ {SomeOf(t)}]
    OBVIOUS
  <2>0. \A r \in SUBSET S :
           /\ Summing(f)[r] \in Int
           /\ r = {} => Summing(f)[r] = 0
           /\ r # {} => SomeOf(r) \in r
                /\ Summing(f)[r] = f[SomeOf(r)] + Summing(f)[r \ {SomeOf(r)}]
    BY SumIs
  <2>1. /\ Summing(f)[t] \in Int
        /\ t # {} => SomeOf(t) \in t
             /\ Summing(f)[t] = f[SomeOf(t)] + Summing(f)[t \ {SomeOf(t)}]
    BY <2>0
  <2> QED BY <2>1
<1>5. 0 \in good
  <2>1. \A t \in SUBSET S : Cardinality(t) <= 0 => t = {}
    BY <1>2
  <2> QED BY <2>1, <1>1
<1>6. ASSUME NEW k \in 0..n, k < n, k \in good
      PROVE  k + 1 \in good
  <2>1. k \in Nat /\ k + 1 \in 0..n
    BY <1>1, <1>6
  <2>2. ASSUME NEW t \in SUBSET S, NEW y \in t, Cardinality(t) <= k + 1
        PROVE  Summing(f)[t] = f[y] + Summing(f)[t \ {y}]
    <3>1. PICK z : z = SomeOf(t)
      OBVIOUS
    <3>2. z \in t /\ Summing(f)[t] = f[z] + Summing(f)[t \ {z}]
      BY <1>4, <3>1
    <3>3. CASE y = z
      BY <3>2, <3>3
    <3>4. CASE y # z
      <4>1. /\ t \ {z} \in SUBSET S /\ y \in t \ {z}
            /\ t \ {y} \in SUBSET S /\ z \in t \ {y}
            /\ (t \ {z}) \ {y} = (t \ {y}) \ {z}
            /\ (t \ {y}) \ {z} \in SUBSET S
        BY <3>2, <3>4
      <4>2. Cardinality(t \ {z}) <= k /\ Cardinality(t \ {y}) <= k
        BY <1>2, <1>3, <2>1, <2>2, <3>2
      <4>3. Summing(f)[t \ {z}] = f[y] + Summing(f)[(t \ {z}) \ {y}]
        BY <4>1, <4>2, <1>6
      <4>4. Summing(f)[t \ {y}] = f[z] + Summing(f)[(t \ {y}) \ {z}]
        BY <4>1, <4>2, <1>6
      <4>5. Summing(f)[(t \ {y}) \ {z}] \in Int /\ f[y] \in Int /\ f[z] \in Int
        BY <4>1, <1>4, <3>2
      <4> DEFINE both == Summing(f)[(t \ {y}) \ {z}]
      <4>6. Summing(f)[t] = f[z] + (f[y] + both)
        BY <3>2, <4>1, <4>3
      <4>7. Summing(f)[t \ {y}] = f[z] + both
        BY <4>4
      <4> HIDE DEF both
      <4>8. both \in Int /\ f[y] \in Int /\ f[z] \in Int
        BY <4>5 DEF both
      <4> QED BY <4>6, <4>7, <4>8
    <3> QED BY <3>3, <3>4
  <2> QED BY <2>1, <2>2
<1>7. n \in good
  <2> HIDE DEF good
  <2>1. \A k \in 0..n : k < n /\ k \in good => k + 1 \in good
    BY <1>6
  <2>2. \A k \in 0..n : k \in good
    BY <1>1, <1>5, <2>1, UpTo, Zenon
  <2> QED BY <2>2, <1>1
<1> QED BY <1>7, <1>2

(* Sums of the same values are the same; of naturals, a natural.           *)
LEMMA SumsAgree ==
  ASSUME NEW S, IsFiniteSet(S), NEW f \in [S -> Int], NEW g \in [S -> Int],
         NEW s \in SUBSET S, \A x \in s : f[x] <= g[x]
  PROVE  /\ Summing(f)[s] <= Summing(g)[s]
         /\ (\A x \in s : f[x] = g[x]) => Summing(f)[s] = Summing(g)[s]
<1> DEFINE n == Cardinality(S)
           Agree(t) == /\ Summing(f)[t] <= Summing(g)[t]
                       /\ (\A x \in t : f[x] = g[x]) => Summing(f)[t] = Summing(g)[t]
           good == {k \in 0..n : \A t \in SUBSET s :
                      Cardinality(t) <= k => Agree(t)}
<1>1. n \in Nat
  BY FS_CardinalityType
<1>2. \A t \in SUBSET s :
        /\ IsFiniteSet(t) /\ Cardinality(t) \in Nat /\ Cardinality(t) <= n
        /\ Cardinality(t) = 0 <=> t = {}
  <2> SUFFICES ASSUME NEW t \in SUBSET s
               PROVE  /\ IsFiniteSet(t) /\ Cardinality(t) \in Nat
                      /\ Cardinality(t) <= n /\ (Cardinality(t) = 0 <=> t = {})
    OBVIOUS
  <2>1. t \in SUBSET S
    OBVIOUS
  <2>2. IsFiniteSet(t) /\ Cardinality(t) <= n
    BY <2>1, FS_Subset
  <2> QED BY <2>2, FS_CardinalityType, FS_EmptySet
<1>3. \A t \in SUBSET s : \A y \in t : Cardinality(t \ {y}) = Cardinality(t) - 1
  <2> SUFFICES ASSUME NEW t \in SUBSET s, NEW y \in t
               PROVE  Cardinality(t \ {y}) = Cardinality(t) - 1
    OBVIOUS
  <2>1. IsFiniteSet(t)
    BY <1>2
  <2> QED BY <2>1, FS_RemoveElement
<1>4. \A t \in SUBSET s :
        /\ Summing(f)[t] \in Int /\ Summing(g)[t] \in Int
        /\ t # {} => /\ SomeOf(t) \in t
                     /\ Summing(f)[t] = f[SomeOf(t)] + Summing(f)[t \ {SomeOf(t)}]
                     /\ Summing(g)[t] = g[SomeOf(t)] + Summing(g)[t \ {SomeOf(t)}]
        /\ t = {} => Summing(f)[t] = 0 /\ Summing(g)[t] = 0
  <2> SUFFICES ASSUME NEW t \in SUBSET s
               PROVE  /\ Summing(f)[t] \in Int /\ Summing(g)[t] \in Int
                      /\ t # {} => /\ SomeOf(t) \in t
                           /\ Summing(f)[t] = f[SomeOf(t)] + Summing(f)[t \ {SomeOf(t)}]
                           /\ Summing(g)[t] = g[SomeOf(t)] + Summing(g)[t \ {SomeOf(t)}]
                      /\ t = {} => Summing(f)[t] = 0 /\ Summing(g)[t] = 0
    OBVIOUS
  <2>0. t \in SUBSET S
    OBVIOUS
  <2>1. /\ Summing(f)[t] \in Int
        /\ t = {} => Summing(f)[t] = 0
        /\ t # {} => SomeOf(t) \in t
             /\ Summing(f)[t] = f[SomeOf(t)] + Summing(f)[t \ {SomeOf(t)}]
    BY <2>0, SumIs
  <2>2. /\ Summing(g)[t] \in Int
        /\ t = {} => Summing(g)[t] = 0
        /\ t # {} => SomeOf(t) \in t
             /\ Summing(g)[t] = g[SomeOf(t)] + Summing(g)[t \ {SomeOf(t)}]
    BY <2>0, SumIs
  <2> QED BY <2>1, <2>2
<1>5. 0 \in good
  <2>1. \A t \in SUBSET s : Cardinality(t) <= 0 => t = {}
    BY <1>2
  <2>2. Agree({})
    <3>1. {} \in SUBSET s
      OBVIOUS
    <3>2. Summing(f)[{}] = 0 /\ Summing(g)[{}] = 0
      BY <3>1, <1>4
    <3> QED BY <3>2
  <2> HIDE DEF Agree
  <2> QED BY <2>1, <2>2, <1>1
<1>6. ASSUME NEW k \in 0..n, k < n, k \in good
      PROVE  k + 1 \in good
  <2>1. k \in Nat /\ k + 1 \in 0..n
    BY <1>1, <1>6
  <2>2. ASSUME NEW t \in SUBSET s, Cardinality(t) <= k + 1
        PROVE  Agree(t)
    <3>1. PICK z : z = SomeOf(t)
      OBVIOUS
    <3>2. CASE t = {}
      BY <3>2, <1>4
    <3>3. CASE t # {}
      <4>1. /\ z \in t
            /\ Summing(f)[t] = f[z] + Summing(f)[t \ {z}]
            /\ Summing(g)[t] = g[z] + Summing(g)[t \ {z}]
        BY <3>1, <3>3, <1>4
      <4>2. t \ {z} \in SUBSET s /\ Cardinality(t \ {z}) <= k
        BY <1>2, <1>3, <2>1, <2>2, <4>1
      <4>3. Agree(t \ {z})
        BY <4>2, <1>6
      <4>4. /\ Summing(f)[t \ {z}] \in Int /\ Summing(g)[t \ {z}] \in Int
            /\ f[z] \in Int /\ g[z] \in Int /\ f[z] <= g[z]
        BY <4>1, <4>2, <1>4
      <4>5. Summing(f)[t] <= Summing(g)[t]
        BY <4>1, <4>3, <4>4
      <4>6. ASSUME \A x \in t : f[x] = g[x]
            PROVE  Summing(f)[t] = Summing(g)[t]
        BY <4>1, <4>3, <4>6
      <4> QED BY <4>5, <4>6
    <3> QED BY <3>2, <3>3
  <2> HIDE DEF Agree
  <2> QED BY <2>1, <2>2
<1>7. n \in good
  <2> HIDE DEF good
  <2>1. \A k \in 0..n : k < n /\ k \in good => k + 1 \in good
    BY <1>6
  <2>2. \A k \in 0..n : k \in good
    BY <1>1, <1>5, <2>1, UpTo, Zenon
  <2> QED BY <2>2, <1>1
<1>8. s \in SUBSET s /\ Cardinality(s) <= n
  BY <1>2
<1>9. Agree(s)
  <2> HIDE DEF Agree
  <2> QED BY <1>7, <1>8
<1> QED BY <1>9

LEMMA SumIsNatural ==
  ASSUME NEW S, IsFiniteSet(S), NEW f \in [S -> Nat]
  PROVE  SumFunction(f) \in Nat
<1>1. AddsUp(Nat)
  BY DEF AddsUp
<1>2. \A s \in SUBSET S : Summing(f)[s] \in Nat
  BY <1>1, SumIsIn
<1>3. S \in SUBSET S /\ DOMAIN f = S
  OBVIOUS
<1> QED BY <1>2, <1>3, SumUnfolds

-----------------------------------------------------------------------------
(* The entries of a request.                                               *)

(* The function by which a fold over a sequence is computed.               *)
AddingMessages(request, messages, flags, seq) ==
  LET iter[s \in SUBSET DOMAIN seq] ==
        IF s = {} THEN [entries |-> <<>>, run |-> NoRun]
        ELSE LET x == Max(s)
             IN  AddMessage(request, messages, flags, iter[s \ {x}], seq[x])
  IN  iter

(* The fields of the entries of a request, and of those of some requests.  *)
BlockRecords == [is_call : BOOLEAN, whole : Nat, lines : Nat]

Numberings == {"Own", "CommandsShortened", "Part"}

NumberingOf(commands) ==
  IF commands = "All" THEN "Own" ELSE "CommandsShortened"

RawFields(request, messages) ==
  [conversation : {request.conversation}, request : {request.number},
   first : DOMAIN messages, last : DOMAIN messages, is_hidden : BOOLEAN,
   hides : BOOLEAN, owner : Nat, flags : SUBSET Flags,
   blocks : Seq(BlockRecords), content : Seq(Nat \X Nat),
   numbering : {NumberingOf(request.commands)}, from_line : {1},
   record : Nat, omitted : Nat]

(* A printed entry is one message, and prints its content.                 *)
PrintsContent(request, messages, entry) ==
  /\ entry.first = entry.last
  /\ entry.blocks = Blocks(messages[entry.first], entry.flags, request.commands)
  /\ entry.content = Content(entry.blocks)

RawEntries(request, messages) ==
  {entry \in RawFields(request, messages) :
     /\ entry.first <= entry.last
     /\ ~entry.is_hidden => PrintsContent(request, messages, entry)}

HiddenEntries(request, messages) ==
  {entry \in RawEntries(request, messages) : entry.is_hidden}

MadeEntries(request, messages) ==
  [entries : Seq(RawEntries(request, messages)),
   run : HiddenEntries(request, messages) \cup {NoRun}]

LEMMA PartsAre ==
  ASSUME NEW message \in Messages
  PROVE  /\ Len(message.parts) \in Nat
         /\ DOMAIN message.parts = 1..Len(message.parts)
         /\ \A part \in DOMAIN message.parts :
              /\ message.parts[part].lines \in Nat
              /\ message.parts[part].short \in Nat
              /\ message.parts[part].short <= message.parts[part].lines
              /\ message.parts[part].kind \in Kinds
<1> DEFINE parts == message.parts
<1>1. parts \in Seq(Parts)
  BY Zenon DEF Messages
<1> HIDE DEF parts
<1>2. /\ Len(parts) \in Nat /\ DOMAIN parts = 1..Len(parts)
      /\ \A part \in DOMAIN parts : parts[part] \in Parts
  BY <1>1
<1>3. \A part \in Parts : /\ part.lines \in Nat /\ part.short \in Nat
                          /\ part.short <= part.lines /\ part.kind \in Kinds
  BY DEF Parts
<1> QED BY <1>2, <1>3 DEF parts

(* The lines of a block.                                                   *)
BlockLines(blocks) ==
  [part \in DOMAIN blocks |-> [line \in 1..blocks[part].lines |-> <<part, line>>]]

LEMMA BlockLinesAre ==
  ASSUME NEW blocks \in Seq(BlockRecords)
  PROVE  /\ BlockLines(blocks) \in Seq(Seq(Nat \X Nat))
         /\ Len(BlockLines(blocks)) = Len(blocks)
         /\ \A part \in 1..Len(blocks) :
              /\ BlockLines(blocks)[part] \in Seq(Nat \X Nat)
              /\ Len(BlockLines(blocks)[part]) = blocks[part].lines
              /\ \A line \in 1..blocks[part].lines :
                   BlockLines(blocks)[part][line] = <<part, line>>
<1> DEFINE seqs == BlockLines(blocks)
           n == Len(blocks)
<1>1. n \in Nat /\ DOMAIN blocks = 1..n
  OBVIOUS
<1>2. \A part \in 1..n : blocks[part].lines \in Nat
  <2>1. \A part \in 1..n : blocks[part] \in BlockRecords
    BY <1>1
  <2> QED BY <2>1 DEF BlockRecords
<1>3. \A part \in 1..n :
        seqs[part] = [line \in 1..blocks[part].lines |-> <<part, line>>]
  BY <1>1 DEF BlockLines
<1>4. ASSUME NEW part \in 1..n
      PROVE  /\ seqs[part] \in Seq(Nat \X Nat)
             /\ Len(seqs[part]) = blocks[part].lines
             /\ \A line \in 1..blocks[part].lines : seqs[part][line] = <<part, line>>
  <2>1. PICK m \in Nat : m = blocks[part].lines
    BY <1>2
  <2>2. seqs[part] = [line \in 1..m |-> <<part, line>>]
    BY <2>1, <1>3
  <2>3. part \in Nat
    OBVIOUS
  <2> HIDE DEF seqs
  <2> QED BY <2>1, <2>2, <2>3
<1>5. seqs = [part \in 1..n |-> seqs[part]]
  BY <1>1 DEF BlockLines
<1> HIDE DEF seqs
<1>6. seqs \in Seq(Seq(Nat \X Nat)) /\ Len(seqs) = n
  BY <1>1, <1>4, <1>5
<1> QED BY <1>4, <1>6 DEF seqs

LEMMA ContentIs ==
  ASSUME NEW blocks \in Seq(BlockRecords)
  PROVE  Content(blocks) \in Seq(Nat \X Nat)
<1>1. BlockLines(blocks) \in Seq(Seq(Nat \X Nat))
  BY BlockLinesAre
<1>2. Content(blocks) = FlattenSeq(BlockLines(blocks))
  BY DEF Content, BlockLines
<1> QED BY <1>1, <1>2, FlattenIs

LEMMA BlocksAre ==
  ASSUME NEW message \in Messages, NEW flags, NEW commands
  PROVE  /\ Blocks(message, flags, commands) \in Seq(BlockRecords)
         /\ Len(Blocks(message, flags, commands)) = Len(message.parts)
<1> DEFINE blocks == Blocks(message, flags, commands)
           n == Len(message.parts)
<1>1. n \in Nat /\ DOMAIN message.parts = 1..n
  BY PartsAre
<1>2. ASSUME NEW part \in 1..n PROVE blocks[part] \in BlockRecords
  <2>1. message.parts[part].lines \in Nat /\ message.parts[part].short \in Nat
    BY <1>1, PartsAre
  <2> QED BY <1>1, <2>1 DEF Blocks, BlockRecords
<1>3. blocks = [part \in 1..n |-> blocks[part]]
  BY <1>1 DEF Blocks
<1> HIDE DEF blocks
<1> QED BY <1>1, <1>2, <1>3 DEF blocks

(* A read of several messages shows, of each part, some of the lines that  *)
(* a read of the message alone shows, and all but a call's.                *)
LEMMA BlocksShortened ==
  ASSUME NEW message \in Messages, NEW flags, NEW part \in 1..Len(message.parts)
  PROVE  LET short == Blocks(message, flags, "FirstLine")[part]
             alone == Blocks(message, flags, "All")[part]
         IN  /\ short.whole = alone.lines /\ short.lines <= alone.lines
             /\ ~short.is_call => short.lines = alone.lines
<1>1. /\ part \in DOMAIN message.parts
      /\ message.parts[part].lines \in Nat /\ message.parts[part].short \in Nat
      /\ message.parts[part].short <= message.parts[part].lines
  BY PartsAre
<1>2. PICK whole, less, is_call :
        /\ is_call = (message.parts[part].kind = "tools")
        /\ whole = IF part \in VisibleParts(message, flags)
                   THEN message.parts[part].lines ELSE 0
        /\ less = IF part \in VisibleParts(message, flags)
                  THEN message.parts[part].short ELSE 0
  OBVIOUS
<1>3. whole \in Nat /\ less \in Nat /\ less <= whole
  BY <1>1, <1>2
<1>4. Blocks(message, flags, "FirstLine")[part]
        = [is_call |-> is_call, whole |-> whole,
           lines |-> IF is_call THEN less ELSE whole]
  BY <1>1, <1>2 DEF Blocks
<1>5. Blocks(message, flags, "All")[part]
        = [is_call |-> is_call, whole |-> whole, lines |-> whole]
  BY <1>1, <1>2 DEF Blocks
<1>6. is_call \in BOOLEAN
  BY <1>2
<1> QED BY <1>3, <1>4, <1>5, <1>6

LEMMA EntryIs ==
  ASSUME NEW request, NEW messages \in Seq(Messages), NEW flags \in SUBSET Flags,
         NEW ordinal \in DOMAIN messages, NEW is_hidden \in BOOLEAN
  PROVE  /\ Entry(request, ordinal, messages[ordinal], flags, is_hidden)
              \in RawEntries(request, messages)
         /\ Entry(request, ordinal, messages[ordinal], flags, is_hidden).is_hidden
              = is_hidden
<1> DEFINE message == messages[ordinal]
           entry == Entry(request, ordinal, message, flags, is_hidden)
<1>1. message \in Messages
  OBVIOUS
<1>2. /\ message.owner \in Nat /\ message.record \in Nat /\ message.omitted \in Nat
      /\ Blocks(message, flags, request.commands) \in Seq(BlockRecords)
      /\ Content(Blocks(message, flags, request.commands)) \in Seq(Nat \X Nat)
  <2>1. message.owner \in Nat /\ message.record \in Nat /\ message.omitted \in Nat
    BY <1>1 DEF Messages
  <2>2. Blocks(message, flags, request.commands) \in Seq(BlockRecords)
    BY <1>1, BlocksAre
  <2> QED BY <2>1, <2>2, ContentIs
<1>3. flags_showing(message) \in SUBSET Flags
  <2>1. \A part \in DOMAIN message.parts : message.parts[part].kind \in Kinds
    BY <1>1, PartsAre
  <2> DEFINE kinds == {message.parts[part].kind : part \in DOMAIN message.parts}
  <2>2. kinds \subseteq Kinds
    BY <2>1
  <2> HIDE DEF kinds
  <2>3. "text" \notin kinds => kinds \subseteq Flags
    BY <2>2 DEF Kinds, Flags
  <2>4. "subagents" \in Flags
    BY DEF Flags
  <2>5. (IF message.owner = Session THEN {} ELSE {"subagents"})
          \cup (IF "text" \in kinds THEN {} ELSE kinds) \in SUBSET Flags
    BY <2>3, <2>4
  <2> QED BY <2>5 DEF flags_showing, kinds
<1>4. PICK h : h = (VisibleParts(message, flags) # DOMAIN message.parts)
  OBVIOUS
<1>5. PICK f : f = IF is_hidden THEN flags \cup flags_showing(message) ELSE flags
  OBVIOUS
<1>6. PICK b : b = IF is_hidden THEN <<>> ELSE Blocks(message, flags, request.commands)
  OBVIOUS
<1>7. PICK c : c = IF is_hidden THEN <<>>
                   ELSE Content(Blocks(message, flags, request.commands))
  OBVIOUS
<1>8. /\ h \in BOOLEAN /\ f \in SUBSET Flags
      /\ b \in Seq(BlockRecords) /\ c \in Seq(Nat \X Nat)
  BY <1>2, <1>3, <1>4, <1>5, <1>6, <1>7
<1>9. PICK nb : nb = NumberingOf(request.commands)
  OBVIOUS
<1>10. entry = [conversation |-> request.conversation, request |-> request.number,
                first |-> ordinal, last |-> ordinal, is_hidden |-> is_hidden,
                hides |-> h, owner |-> message.owner, flags |-> f, blocks |-> b,
                content |-> c, numbering |-> nb, from_line |-> 1,
                record |-> message.record, omitted |-> message.omitted]
  BY <1>4, <1>5, <1>6, <1>7, <1>9, Zenon DEF Entry, NumberingOf
<1>11. entry \in RawFields(request, messages)
  <2> HIDE DEF message, entry
  <2> QED BY <1>2, <1>8, <1>9, <1>10 DEF RawFields
<1>12. /\ entry.first = ordinal /\ entry.last = ordinal
       /\ entry.is_hidden = is_hidden /\ entry.flags = f
       /\ entry.blocks = b /\ entry.content = c
  <2> HIDE DEF entry
  <2> QED BY <1>10
<1> HIDE DEF entry
<1>13. ~entry.is_hidden => PrintsContent(request, messages, entry)
  BY <1>5, <1>6, <1>7, <1>12 DEF PrintsContent
<1>14. entry.first <= entry.last
  BY <1>12
<1>15. entry \in RawEntries(request, messages)
  BY <1>11, <1>13, <1>14, Zenon DEF RawEntries
<1> QED BY <1>12, <1>15 DEF entry

WithEntry(made, entry) == [made EXCEPT !.entries = Append(@, entry)]

LEMMA WithEntryIs ==
  ASSUME NEW made, NEW es, NEW entry, made = [entries |-> es, run |-> NoRun]
  PROVE  WithEntry(made, entry) = [entries |-> Append(es, entry), run |-> NoRun]
  BY DEF WithEntry

LEMMA AddMessageIs ==
  ASSUME NEW request, NEW messages \in Seq(Messages), NEW flags \in SUBSET Flags,
         NEW ordinal \in DOMAIN messages,
         NEW made \in MadeEntries(request, messages)
  PROVE  /\ hidden_run_entry(made).entries \in Seq(RawEntries(request, messages))
         /\ AddMessage(request, messages, flags, made, ordinal)
              \in MadeEntries(request, messages)
<1> DEFINE raw == RawEntries(request, messages)
           hiddens == HiddenEntries(request, messages)
           message == messages[ordinal]
           hidden == Entry(request, ordinal, message, flags, TRUE)
           shown == Entry(request, ordinal, message, flags, FALSE)
           added == AddMessage(request, messages, flags, made, ordinal)
           ended == hidden_run_entry(made)
<1>1. /\ made = [entries |-> made.entries, run |-> made.run]
      /\ made.entries \in Seq(raw) /\ made.run \in hiddens \cup {NoRun}
  BY DEF MadeEntries
<1>2. hidden \in hiddens /\ shown \in raw
  BY EntryIs DEF HiddenEntries
<1>3. hiddens \subseteq raw
  BY DEF HiddenEntries
<1>4. ended = [entries |-> ended.entries, run |-> NoRun]
      /\ ended.entries \in Seq(raw)
  <2>1. made.run.hides => made.run \in hiddens
    BY <1>1 DEF NoRun
  <2>2. ended = [entries |-> IF made.run.hides THEN Append(made.entries, made.run)
                             ELSE made.entries,
                 run |-> NoRun]
    BY DEF hidden_run_entry
  <2> HIDE DEF hiddens, raw, ended
  <2>3. made.run.hides => Append(made.entries, made.run) \in Seq(raw)
    BY <2>1, <1>1, <1>3
  <2> QED BY <2>2, <2>3, <1>1
<1>5. added \in MadeEntries(request, messages)
  <2>1. CASE ~message.in_window
    <3>1. added = ended
      BY <2>1 DEF AddMessage
    <3> HIDE DEF ended, added, hiddens, raw
    <3> QED BY <3>1, <1>4 DEF MadeEntries, hiddens, raw
  <2>2. CASE message.in_window /\ IsShown(message, flags)
    <3>1. added = WithEntry(ended, shown)
      BY <2>2 DEF AddMessage, WithEntry
    <3> HIDE DEF ended, added, hiddens, raw, shown
    <3>2. added = [entries |-> Append(ended.entries, shown), run |-> NoRun]
      <4>1. PICK es : es = ended.entries
        OBVIOUS
      <4>2. ended = [entries |-> es, run |-> NoRun]
        BY <4>1, <1>4
      <4>3. WithEntry(ended, shown) = [entries |-> Append(es, shown), run |-> NoRun]
        BY <4>2, WithEntryIs
      <4> QED BY <3>1, <4>1, <4>3
    <3>3. Append(ended.entries, shown) \in Seq(raw)
      BY <1>2, <1>4
    <3> QED BY <3>2, <3>3 DEF MadeEntries, hiddens, raw
  <2>3. CASE /\ message.in_window /\ ~IsShown(message, flags)
             /\ continues_with(made.run, ordinal, message)
    <3>1. added = [made EXCEPT !.run = push(@, hidden)]
      BY <2>3 DEF AddMessage
    <3>2. made.run \in hiddens /\ made.run.last + 1 = ordinal
      BY <2>3, <1>1 DEF continues_with
    <3>3. push(made.run, hidden) \in hiddens
      <4> DEFINE run == made.run
      <4>0. run \in raw /\ hidden \in raw /\ run.is_hidden
        BY <3>2, <1>2 DEF HiddenEntries
      <4>1. /\ run.first \in DOMAIN messages /\ run.last \in DOMAIN messages
            /\ run.first <= run.last /\ run.hides \in BOOLEAN
            /\ run.flags \in SUBSET Flags
        BY <4>0 DEF RawEntries, RawFields
      <4>2. /\ hidden.last = ordinal /\ hidden.hides \in BOOLEAN
            /\ hidden.flags \in SUBSET Flags
        <5>1. hidden.last = ordinal
          BY DEF Entry
        <5>2. hidden.hides \in BOOLEAN /\ hidden.flags \in SUBSET Flags
          <6> HIDE DEF hidden
          <6> QED BY <4>0 DEF RawEntries, RawFields
        <5> QED BY <5>1, <5>2
      <4> DEFINE pushed == push(run, hidden)
      <4>3. pushed = [run EXCEPT !.last = ordinal,
                                 !.flags = run.flags \cup hidden.flags,
                                 !.hides = run.hides \/ hidden.hides]
        <5>1. hidden.last = ordinal
          BY <4>2
        <5> HIDE DEF hidden, run
        <5> QED BY <5>1 DEF push
      <4>4. run.first <= ordinal
        <5>1. run.last <= ordinal /\ run.last \in Int /\ run.first \in Int
          BY <3>2, <4>1
        <5> QED BY <5>1, <4>1
      <4>5. PICK f, h : f = run.flags \cup hidden.flags /\ h = (run.hides \/ hidden.hides)
        OBVIOUS
      <4>6. f \in SUBSET Flags /\ h \in BOOLEAN
        BY <4>1, <4>2, <4>5
      <4> HIDE DEF hidden, run, pushed
      <4>7. pushed = [run EXCEPT !.last = ordinal, !.flags = f, !.hides = h]
        BY <4>3, <4>5, Zenon
      <4> DEFINE Fields == RawFields(request, messages)
      <4>8. run \in Fields
        BY <4>0, Zenon DEF RawEntries
      <4>9. pushed \in Fields
        BY <4>6, <4>7, <4>8 DEF RawFields
      <4>10. /\ pushed.first = run.first /\ pushed.last = ordinal
             /\ pushed.is_hidden = run.is_hidden
        BY <4>7, <4>8 DEF RawFields
      <4>11. pushed.first <= pushed.last /\ pushed.is_hidden
        BY <4>10, <4>4, <4>0
      <4>12. pushed \in raw
        BY <4>9, <4>11, Zenon DEF RawEntries
      <4> QED BY <4>11, <4>12 DEF HiddenEntries, pushed, run
    <3> HIDE DEF ended, added, hiddens, raw, hidden
    <3>4. added = [entries |-> made.entries, run |-> push(made.run, hidden)]
      BY <3>1, <1>1
    <3> QED BY <3>3, <3>4, <1>1 DEF MadeEntries, hiddens, raw
  <2>4. CASE /\ message.in_window /\ ~IsShown(message, flags)
             /\ ~continues_with(made.run, ordinal, message)
    <3>1. added = [ended EXCEPT !.run = hidden]
      BY <2>4 DEF AddMessage
    <3> HIDE DEF ended, added, hiddens, raw, hidden
    <3>2. added = [entries |-> ended.entries, run |-> hidden]
      BY <3>1, <1>4
    <3> QED BY <3>2, <1>2, <1>4 DEF MadeEntries, hiddens, raw
  <2> QED BY <2>1, <2>2, <2>3, <2>4
<1> QED BY <1>4, <1>5

(* Positions in ascending order.                                           *)
LEMMA AscendingIs ==
  ASSUME NEW n \in Nat, NEW numbers \in SUBSET (1..n)
  PROVE  /\ Cardinality(numbers) \in Nat
         /\ Ascending(numbers) \in Seq(numbers)
         /\ Len(Ascending(numbers)) = Cardinality(numbers)
         /\ \A x \in numbers : \E p \in 1..Len(Ascending(numbers)) :
              Ascending(numbers)[p] = x
<1> DEFINE order == {pair \in numbers \X numbers : pair[1] < pair[2]}
<1>1. IsFiniteSet(numbers)
  <2>1. IsFiniteSet(1..n)
    BY FS_Interval
  <2> QED BY <2>1, FS_Subset
<1>2. numbers \subseteq Int
  OBVIOUS
<1>3. \A x, y \in numbers : <<x, y>> \in order <=> x < y
  OBVIOUS
<1>4. IsTotalOrder(order, numbers)
  <2> HIDE DEF order
  <2> QED BY <1>2, <1>3 DEF IsTotalOrder
<1>5. PICK list : list = Sorted(numbers, order)
  OBVIOUS
<1> HIDE DEF order
<1>6. /\ Cardinality(numbers) \in Nat
      /\ list \in Seq(numbers)
      /\ Len(list) = Cardinality(numbers)
      /\ \A x \in numbers : \E p \in 1..Cardinality(numbers) : list[p] = x
  <2>1. Cardinality(numbers) \in Nat
    BY <1>1, FS_CardinalityType
  <2>2. list \in Seq(numbers)
    BY <1>1, <1>4, <1>5, SortedIs
  <2>3. Len(list) = Cardinality(numbers)
    BY <1>1, <1>4, <1>5, SortedIs
  <2>4. \A x \in numbers : \E p \in 1..Cardinality(numbers) : list[p] = x
    <3>1. \A x \in numbers : \E p \in 1..Cardinality(numbers) :
            Sorted(numbers, order)[p] = x
      BY <1>1, <1>4, SortedIs
    <3> QED BY <3>1, <1>5
  <2> QED BY <2>1, <2>2, <2>3, <2>4
<1>7. list = Ascending(numbers)
  BY <1>5 DEF Ascending, order
<1> QED BY <1>6, <1>7

(* A fold's value is computed by a function, message after message.        *)
LEMMA AddingMessagesIs ==
  ASSUME NEW request, NEW messages \in Seq(Messages), NEW flags \in SUBSET Flags,
         NEW seq \in Seq(DOMAIN messages)
  PROVE  AddingMessages(request, messages, flags, seq)[DOMAIN seq]
           \in MadeEntries(request, messages)
<1> DEFINE V == MadeEntries(request, messages)
           D == DOMAIN messages
           base == [entries |-> <<>>, run |-> NoRun]
           Add(made, ordinal) == AddMessage(request, messages, flags, made, ordinal)
           F == [pair \in V \X D |-> Add(pair[1], pair[2])]
           adding == AddingMessages(request, messages, flags, seq)
           n == Len(seq)
<1>1. base \in V
  <2>1. <<>> \in Seq(RawEntries(request, messages))
    OBVIOUS
  <2> QED BY <2>1 DEF MadeEntries
<1>2. \A made \in V, ordinal \in D : Add(made, ordinal) \in V
  BY AddMessageIs
<1>3. /\ F \in [V \X D -> V]
      /\ \A made \in V, ordinal \in D : F[<<made, ordinal>>] = Add(made, ordinal)
  <2> HIDE DEF V, D, Add
  <2> QED BY <1>2
<1>4. PICK fold \in [SUBSET DOMAIN seq -> V] : FoldsBy(fold, V, D, F, base, seq)
  <2>1. F \in [V \X D -> V] /\ seq \in Seq(D)
    BY <1>3
  <2> HIDE DEF V, F, D, base
  <2> QED BY <1>1, <2>1, FoldIsThere
<1> HIDE DEF F
<1>5. fold = [s \in SUBSET DOMAIN seq |->
                IF s = {} THEN base ELSE Add(fold[s \ {Max(s)}], seq[Max(s)])]
  <2>1. ASSUME NEW s \in SUBSET DOMAIN seq
        PROVE  fold[s] = IF s = {} THEN base
                         ELSE Add(fold[s \ {Max(s)}], seq[Max(s)])
    <3> HIDE DEF V, Add, base, D
    <3> QED BY <1>3, <1>4 DEF FoldsBy
  <2>2. fold = [s \in SUBSET DOMAIN seq |-> fold[s]]
    BY <1>4
  <2> HIDE DEF Add, base
  <2> QED BY <2>1, <2>2
<1>6. adding = [s \in SUBSET DOMAIN seq |->
                IF s = {} THEN base ELSE Add(adding[s \ {Max(s)}], seq[Max(s)])]
  BY <1>5, Zenon DEF AddingMessages
<1>7. seq \in Seq(D) /\ n \in Nat /\ n \in 0..n /\ DOMAIN seq = 1..n
  OBVIOUS
<1> HIDE DEF V, D, base, Add, adding
<1>8. /\ adding[{}] = base
      /\ \A s \in SUBSET DOMAIN seq : s # {} =>
           adding[s] = Add(adding[s \ {Max(s)}], seq[Max(s)])
  BY <1>6
<1>9. ASSUME NEW s \in SUBSET DOMAIN seq, s # {}, adding[s \ {Max(s)}] \in V
      PROVE  adding[s] = F[<<adding[s \ {Max(s)}], seq[Max(s)]>>]
  <2>1. n \in Nat /\ s \in SUBSET (1..n)
    BY <1>7
  <2>2. Max(s) \in s
    BY <1>9, <2>1, MaxOfPositions
  <2>3. seq[Max(s)] \in D
    BY <1>7, <2>2
  <2> QED BY <1>3, <1>8, <1>9, <2>3
<1>10. FoldsWithin(adding, V, F, base, seq)
  BY <1>8, <1>9 DEF FoldsWithin
<1>11. F \in [V \X D -> V]
  BY <1>3
<1>12. StepsThrough(adding, V, F, seq)
  BY <1>1, <1>7, <1>10, <1>11, FoldSteps
<1>13. adding[DOMAIN seq] \in V
  BY <1>7, <1>12 DEF StepsThrough
<1> QED BY <1>13 DEF V, adding

LEMMA ReadEntriesAre ==
  ASSUME NEW request, NEW messages \in Seq(Messages), NEW flags \in SUBSET Flags,
         NEW ordinals \in SUBSET DOMAIN messages
  PROVE  read_entries(request, ordinals, messages, flags)
           \in Seq(RawEntries(request, messages))
<1>1. PICK seq : seq = Ascending(ordinals)
  OBVIOUS
<1>2. Len(messages) \in Nat /\ DOMAIN messages = 1..Len(messages)
  OBVIOUS
<1>3. seq \in Seq(ordinals)
  BY <1>1, <1>2, AscendingIs
<1>4. seq \in Seq(DOMAIN messages)
  BY <1>3
<1>5. PICK made : made = AddingMessages(request, messages, flags, seq)[DOMAIN seq]
  OBVIOUS
<1>6. read_entries(request, ordinals, messages, flags)
        = hidden_run_entry(made).entries
  BY <1>1, <1>5 DEF read_entries, FoldLeft, MapThenFoldSet, AddingMessages
<1>7. made \in MadeEntries(request, messages)
  BY <1>4, <1>5, AddingMessagesIs
<1>8. hidden_run_entry(made).entries \in Seq(RawEntries(request, messages))
  <2>1. CASE DOMAIN messages = {}
    <3>1. seq = <<>>
      BY <1>2, <1>4, <2>1
    <3>2. ASSUME NEW e \in RawEntries(request, messages) PROVE FALSE
      BY <2>1 DEF RawEntries, RawFields
    <3>3. made.run = NoRun /\ made.entries \in Seq(RawEntries(request, messages))
      BY <1>7, <3>2 DEF MadeEntries, HiddenEntries
    <3> QED BY <3>3 DEF hidden_run_entry, NoRun
  <2>2. CASE DOMAIN messages # {}
    BY <2>2, <1>7, AddMessageIs
  <2> QED BY <2>1, <2>2
<1> QED BY <1>6, <1>8

-----------------------------------------------------------------------------
(* The entries of a command.                                               *)

(* An entry of some requests: it is of messages of a conversation, and     *)
(* prints the content of a message: whole with its commands shortened, or  *)
(* lines of it as a read of the message alone shows it, from one of them.  *)
Fields(holds, requests) ==
  [conversation : DOMAIN holds, request : DOMAIN requests, first : Number,
   last : Number, is_hidden : BOOLEAN, hides : BOOLEAN, owner : Nat,
   flags : SUBSET Flags, blocks : Seq(BlockRecords), content : Seq(Nat \X Nat),
   numbering : Numberings, from_line : Number, record : Nat, omitted : Nat]

OffsetOf(entry) == entry.from_line - 1

MessageOf(holds, entry) == holds[entry.conversation][entry.first]

ContentOf(holds, entry) == Content(Blocks(MessageOf(holds, entry), entry.flags, "All"))

IsShortened(holds, entry) ==
  /\ entry.blocks = Blocks(MessageOf(holds, entry), entry.flags, "FirstLine")
  /\ entry.content = Content(entry.blocks)

IsPartOf(holds, entry) ==
  \A line \in DOMAIN entry.content :
    /\ OffsetOf(entry) + line \in DOMAIN ContentOf(holds, entry)
    /\ entry.content[line] = ContentOf(holds, entry)[OffsetOf(entry) + line]

PrintsLines(holds, entry) ==
  /\ entry.first = entry.last
  /\ IF entry.numbering = "CommandsShortened"
     THEN IsShortened(holds, entry) ELSE IsPartOf(holds, entry)

EntriesIn(holds, requests) ==
  {entry \in Fields(holds, requests) :
     /\ entry.first <= entry.last
     /\ entry.last \in DOMAIN holds[entry.conversation]
     /\ ~entry.is_hidden => PrintsLines(holds, entry)}

LEMMA ConversationsAre ==
  ASSUME NEW holds \in Transcripts
  PROVE  /\ \A conversation \in DOMAIN holds : holds[conversation] \in Seq(Messages)
         /\ FirstReads \subseteq Commands(DOMAIN holds)
  BY ReadsAssumption

LEMMA RequestsAre ==
  ASSUME NEW conversations, NEW requests \in Seq(Requests(conversations)),
         NEW number \in DOMAIN requests
  PROVE  /\ requests[number].conversation \in conversations
         /\ requests[number].range \in {<<>>} \cup (Number \X Number)
         /\ requests[number].subagent \in Nat
<1>1. requests[number] \in Requests(conversations)
  OBVIOUS
<1> QED BY <1>1 DEF Requests

LEMMA RawIsEntry ==
  ASSUME NEW holds \in Transcripts, NEW requests \in Seq(Requests(DOMAIN holds)),
         NEW number \in DOMAIN requests, NEW commands \in {"All", "FirstLine"},
         NEW request, request = [conversation |-> requests[number].conversation,
                                 number |-> number, commands |-> commands],
         NEW entry \in RawEntries(request, holds[requests[number].conversation])
  PROVE  /\ entry \in EntriesIn(holds, requests)
         /\ entry.numbering = NumberingOf(commands) /\ entry.from_line = 1
<1> DEFINE conversation == requests[number].conversation
           messages == holds[conversation]
<1>1. conversation \in DOMAIN holds
  BY RequestsAre
<1>2. messages \in Seq(Messages)
  BY <1>1, ConversationsAre
<1>3. /\ request.conversation = conversation /\ request.number = number
      /\ request.commands = commands
  OBVIOUS
<1>4. DOMAIN messages \subseteq Number /\ 1 \in Number
  BY <1>2 DEF Number
<1>5. /\ entry \in RawFields(request, messages)
      /\ entry.first <= entry.last
      /\ ~entry.is_hidden => PrintsContent(request, messages, entry)
  BY Zenon DEF RawEntries, messages, conversation
<1> HIDE DEF messages, conversation
<1>6. NumberingOf(commands) \in Numberings
  BY DEF NumberingOf, Numberings
<1>7. entry \in Fields(holds, requests)
  <2>1. entry \in [conversation : {conversation}, request : {number},
          first : DOMAIN messages, last : DOMAIN messages, is_hidden : BOOLEAN,
          hides : BOOLEAN, owner : Nat, flags : SUBSET Flags,
          blocks : Seq(BlockRecords), content : Seq(Nat \X Nat),
          numbering : {NumberingOf(commands)}, from_line : {1},
          record : Nat, omitted : Nat]
    BY <1>3, <1>5 DEF RawFields
  <2> HIDE DEF NumberingOf
  <2> QED BY <1>1, <1>4, <1>6, <2>1 DEF Fields
<1>8. /\ entry.conversation = conversation /\ entry.from_line = 1
      /\ entry.numbering = NumberingOf(commands)
      /\ entry.last \in DOMAIN messages /\ entry.content \in Seq(Nat \X Nat)
  BY <1>3, <1>5 DEF RawFields
<1>9. ASSUME ~entry.is_hidden PROVE PrintsLines(holds, entry)
  <2>1. /\ entry.first = entry.last
        /\ entry.blocks = Blocks(messages[entry.first], entry.flags, commands)
        /\ entry.content = Content(entry.blocks)
    BY <1>3, <1>5, <1>9 DEF PrintsContent
  <2>2. MessageOf(holds, entry) = messages[entry.first]
    BY <1>8 DEF MessageOf, messages
  <2>3. CASE commands = "FirstLine"
    <3>1. entry.numbering = "CommandsShortened"
      BY <1>8, <2>3 DEF NumberingOf
    <3> QED BY <2>1, <2>2, <2>3, <3>1 DEF PrintsLines, IsShortened
  <2>4. CASE commands = "All"
    <3>1. entry.numbering # "CommandsShortened"
      BY <1>8, <2>4 DEF NumberingOf
    <3>2. ContentOf(holds, entry) = entry.content
      BY <2>1, <2>2, <2>4 DEF ContentOf
    <3>3. OffsetOf(entry) = 0
      BY <1>8 DEF OffsetOf
    <3>4. \A line \in DOMAIN entry.content : 0 + line = line
      BY <1>8
    <3>5. IsPartOf(holds, entry)
      BY <3>2, <3>3, <3>4 DEF IsPartOf
    <3> QED BY <2>1, <3>1, <3>5 DEF PrintsLines
  <2> QED BY <2>3, <2>4
<1>10. entry.last \in DOMAIN holds[entry.conversation]
  BY <1>8 DEF messages
<1>11. entry \in EntriesIn(holds, requests)
  BY <1>5, <1>7, <1>9, <1>10, Zenon DEF EntriesIn
<1> QED BY <1>8, <1>11

LEMMA SubSeqIs ==
  ASSUME NEW D, NEW seq \in Seq(D), NEW from \in Nat, from # 0, NEW to \in Nat,
         to <= Len(seq)
  PROVE  /\ SubSeq(seq, from, to) \in Seq(D)
         /\ DOMAIN SubSeq(seq, from, to) = 1..(to - from + 1)
  OBVIOUS

LEMMA SubSeqAt ==
  ASSUME NEW D, NEW seq \in Seq(D), NEW from \in Nat, from # 0, NEW to \in Nat,
         to <= Len(seq), NEW place \in 1..(to - from + 1)
  PROVE  SubSeq(seq, from, to)[place] = seq[(from - 1) + place]
  OBVIOUS

(* Some lines of an entry's content are lines of the message.              *)
LEMMA SliceIsEntry ==
  ASSUME NEW holds, NEW requests, NEW entry \in EntriesIn(holds, requests),
         entry.numbering = "Own", entry.from_line = 1, ~entry.is_hidden,
         NEW lines \in Number \X Nat, lines[2] <= Len(entry.content)
  PROVE  apply_read_slice(entry, lines) \in EntriesIn(holds, requests)
<1> DEFINE slice == apply_read_slice(entry, lines)
<1>1. PICK from, to : from = lines[1] /\ to = lines[2]
  OBVIOUS
<1>2. from \in Number /\ from \in Nat /\ from # 0 /\ to \in Nat
  BY <1>1 DEF Number
<1>3. entry \in Fields(holds, requests) /\ entry.content \in Seq(Nat \X Nat)
  BY DEF EntriesIn, Fields
<1>4. PICK some : some = SubSeq(entry.content, from, to)
  OBVIOUS
<1>5. slice = [entry EXCEPT !.content = some, !.numbering = "Part",
                            !.from_line = from]
  BY <1>1, <1>4, Zenon DEF apply_read_slice
<1>6. /\ some \in Seq(Nat \X Nat)
      /\ \A line \in DOMAIN some :
           /\ (from - 1) + line \in DOMAIN entry.content
           /\ some[line] = entry.content[(from - 1) + line]
  <2>1. PICK content : content = entry.content
    OBVIOUS
  <2>2. content \in Seq(Nat \X Nat) /\ to <= Len(content)
    BY <1>1, <1>3, <2>1
  <2>0. PICK D : D = Nat \X Nat
    OBVIOUS
  <2>3. content \in Seq(D)
    BY <2>0, <2>2
  <2>4. SubSeq(content, from, to) \in Seq(D)
    BY <1>2, <2>2, <2>3, SubSeqIs
  <2>5. DOMAIN SubSeq(content, from, to) = 1..(to - from + 1)
    BY <1>2, <2>2, <2>3, SubSeqIs
  <2>6. \A line \in 1..(to - from + 1) :
          SubSeq(content, from, to)[line] = content[(from - 1) + line]
    BY <1>2, <2>2, <2>3, SubSeqAt
  <2>7. \A line \in 1..(to - from + 1) : (from - 1) + line \in DOMAIN content
    BY <1>2, <2>2
  <2> QED BY <1>4, <2>0, <2>1, <2>4, <2>5, <2>6, <2>7
<1>7. slice \in Fields(holds, requests)
  <2>1. "Part" \in Numberings
    BY DEF Numberings
  <2> HIDE DEF slice
  <2> QED BY <1>2, <1>3, <1>5, <1>6, <2>1 DEF Fields
<1>8. /\ slice.first = entry.first /\ slice.last = entry.last
      /\ slice.conversation = entry.conversation
      /\ slice.is_hidden = entry.is_hidden /\ slice.flags = entry.flags
      /\ slice.content = some /\ slice.numbering = "Part" /\ slice.from_line = from
  <2> HIDE DEF slice
  <2> QED BY <1>3, <1>5 DEF Fields
<1>9. OffsetOf(slice) = from - 1 /\ OffsetOf(entry) = 0
  <2> HIDE DEF slice
  <2> QED BY <1>2, <1>8 DEF OffsetOf
<1> HIDE DEF slice
<1>10. ContentOf(holds, slice) = ContentOf(holds, entry)
  BY <1>8 DEF ContentOf, MessageOf
<1>11. \A line \in DOMAIN entry.content :
         /\ line \in DOMAIN ContentOf(holds, entry)
         /\ entry.content[line] = ContentOf(holds, entry)[line]
  <2> SUFFICES ASSUME NEW line \in DOMAIN entry.content
               PROVE  /\ line \in DOMAIN ContentOf(holds, entry)
                      /\ entry.content[line] = ContentOf(holds, entry)[line]
    OBVIOUS
  <2>1. 0 + line = line
    BY <1>3
  <2>2. IsPartOf(holds, entry)
    BY DEF EntriesIn, PrintsLines
  <2> QED BY <1>9, <2>1, <2>2 DEF IsPartOf
<1>12. IsPartOf(holds, slice)
  BY <1>6, <1>8, <1>9, <1>10, <1>11 DEF IsPartOf
<1>13. /\ entry.first <= entry.last /\ entry.first = entry.last
       /\ entry.last \in DOMAIN holds[entry.conversation]
  BY DEF EntriesIn, PrintsLines
<1>14. /\ slice.first <= slice.last /\ slice.first = slice.last
       /\ slice.last \in DOMAIN holds[slice.conversation]
  BY <1>8, <1>13
<1>15. PrintsLines(holds, slice)
  BY <1>8, <1>12, <1>14 DEF PrintsLines
<1>16. slice \in EntriesIn(holds, requests)
  BY <1>7, <1>14, <1>15, Zenon DEF EntriesIn
<1> QED BY <1>16 DEF slice

LEMMA CommandsAre ==
  ASSUME NEW conversations, NEW command \in Commands(conversations)
  PROVE  /\ command.requests \in Seq(Requests(conversations))
         /\ command.flags \in SUBSET Flags
         /\ command.lines \in {<<>>} \cup (Number \X Nat)
         /\ command.tail \in Nat
         /\ command.focus \in {<<>>} \cup (conversations \X Nat \X Nat)
  BY DEF Commands

(* The entries of a command before any slice of their lines.               *)
WholeEntries(command) ==
  FlattenSeq([number \in DOMAIN command.requests |->
    read_entries([conversation |-> command.requests[number].conversation,
                  number |-> number, commands |-> command_lines(command.requests)],
                 Ordinals(command, command.requests[number]),
                 transcript[command.requests[number].conversation],
                 options(command.requests[number], command.flags,
                         transcript[command.requests[number].conversation]))])

UnslicedIn(holds, requests) ==
  {entry \in EntriesIn(holds, requests) :
     /\ entry.numbering = NumberingOf(command_lines(requests))
     /\ entry.from_line = 1}

LEMMA EntriesOfUnfolds ==
  ASSUME NEW command
  PROVE  EntriesOf(command) =
           IF command.lines = <<>> THEN WholeEntries(command)
           ELSE [i \in DOMAIN WholeEntries(command) |->
                   IF WholeEntries(command)[i].is_hidden
                   THEN WholeEntries(command)[i]
                   ELSE apply_read_slice(WholeEntries(command)[i], command.lines)]
  BY DEF EntriesOf, WholeEntries

LEMMA OrdinalsAre ==
  ASSUME transcript \in Transcripts,
         NEW command \in Commands(DOMAIN transcript),
         NEW number \in DOMAIN command.requests
  PROVE  /\ command.requests[number].conversation \in DOMAIN transcript
         /\ transcript[command.requests[number].conversation] \in Seq(Messages)
         /\ Ordinals(command, command.requests[number])
              \in SUBSET DOMAIN transcript[command.requests[number].conversation]
         /\ options(command.requests[number], command.flags,
                    transcript[command.requests[number].conversation])
              \in SUBSET Flags
<1>1. command.requests \in Seq(Requests(DOMAIN transcript))
  BY CommandsAre
<1>2. PICK request : request = command.requests[number]
  OBVIOUS
<1>3. request.conversation \in DOMAIN transcript
  BY <1>1, <1>2, RequestsAre
<1>4. transcript[request.conversation] \in Seq(Messages)
  BY <1>3, ConversationsAre
<1>5. Ordinals(command, request) \in SUBSET DOMAIN transcript[request.conversation]
  BY DEF Ordinals, requested_messages, tail_messages
<1>6. options(request, command.flags, transcript[request.conversation]) \in SUBSET Flags
  BY CommandsAre DEF options, Flags
<1> QED BY <1>2, <1>3, <1>4, <1>5, <1>6

LEMMA WholeEntriesAre ==
  ASSUME transcript \in Transcripts,
         NEW command \in Commands(DOMAIN transcript)
  PROVE  WholeEntries(command) \in Seq(UnslicedIn(transcript, command.requests))
<1> DEFINE requests == command.requests
           D == UnslicedIn(transcript, requests)
           Of(number) ==
             read_entries([conversation |-> requests[number].conversation,
                           number |-> number, commands |-> command_lines(requests)],
                          Ordinals(command, requests[number]),
                          transcript[requests[number].conversation],
                          options(requests[number], command.flags,
                                  transcript[requests[number].conversation]))
           seqs == [number \in DOMAIN requests |-> Of(number)]
<1>1. requests \in Seq(Requests(DOMAIN transcript))
  BY CommandsAre
<1>2. ASSUME NEW number \in DOMAIN requests
      PROVE  Of(number) \in Seq(D)
  <2>0. PICK commands : commands = command_lines(requests)
    OBVIOUS
  <2>1. PICK request : request = [conversation |-> requests[number].conversation,
                                  number |-> number, commands |-> commands]
    OBVIOUS
  <2>2. PICK messages : messages = transcript[requests[number].conversation]
    OBVIOUS
  <2>3. PICK ordinals : ordinals = Ordinals(command, requests[number])
    OBVIOUS
  <2>4. PICK flags : flags = options(requests[number], command.flags, messages)
    OBVIOUS
  <2>5. messages \in Seq(Messages)
    BY <2>2, OrdinalsAre
  <2>6. ordinals \in SUBSET DOMAIN messages
    BY <2>2, <2>3, OrdinalsAre
  <2>7. flags \in SUBSET Flags
    BY <2>2, <2>4, OrdinalsAre
  <2>8. read_entries(request, ordinals, messages, flags)
          \in Seq(RawEntries(request, messages))
    BY <2>5, <2>6, <2>7, ReadEntriesAre
  <2>9. RawEntries(request, messages) \subseteq D
    <3> SUFFICES ASSUME NEW entry \in RawEntries(request, messages)
                 PROVE  entry \in D
      OBVIOUS
    <3>0. commands \in {"All", "FirstLine"}
      BY <2>0 DEF command_lines
    <3> HIDE DEF requests
    <3>1. entry \in EntriesIn(transcript, requests)
      BY <1>1, <2>1, <2>2, <3>0, RawIsEntry
    <3>2. entry.numbering = NumberingOf(commands) /\ entry.from_line = 1
      BY <1>1, <2>1, <2>2, <3>0, RawIsEntry
    <3> QED BY <2>0, <3>1, <3>2 DEF UnslicedIn
  <2>10. read_entries(request, ordinals, messages, flags) \in Seq(D)
    <3> HIDE DEF D
    <3> QED BY <2>8, <2>9
  <2> QED BY <2>0, <2>1, <2>2, <2>3, <2>4, <2>10
<1>3. seqs \in Seq(Seq(D))
  <2> HIDE DEF D, Of, requests
  <2>1. DOMAIN requests = 1..Len(requests) /\ Len(requests) \in Nat
    BY <1>1
  <2> QED BY <1>2, <2>1
<1>4. WholeEntries(command) = FlattenSeq(seqs)
  BY DEF WholeEntries
<1> HIDE DEF seqs
<1> QED BY <1>3, <1>4, FlattenIs

(* What a command reads is a sequence of entries of its requests.          *)
LEMMA EntriesOfAre ==
  ASSUME transcript \in Transcripts,
         NEW command \in Commands(DOMAIN transcript), ~IsOutOfRange(command)
  PROVE  EntriesOf(command) \in Seq(EntriesIn(transcript, command.requests))
<1>1. PICK all : all = WholeEntries(command)
  OBVIOUS
<1>2. PICK D : D = EntriesIn(transcript, command.requests)
  OBVIOUS
<1>3. all \in Seq(UnslicedIn(transcript, command.requests))
  BY <1>1, WholeEntriesAre
<1>4. /\ Len(all) \in Nat /\ DOMAIN all = 1..Len(all)
      /\ \A i \in DOMAIN all : all[i] \in UnslicedIn(transcript, command.requests)
  BY <1>3
<1>5. \A i \in DOMAIN all :
        /\ all[i] \in D /\ all[i].from_line = 1
        /\ all[i].numbering = NumberingOf(command_lines(command.requests))
  BY <1>2, <1>4 DEF UnslicedIn
<1>6. CASE command.lines = <<>>
  <2>1. EntriesOf(command) = all
    BY <1>1, <1>6, EntriesOfUnfolds
  <2>2. all \in Seq(D)
    <3>1. all \in [1..Len(all) -> UnslicedIn(transcript, command.requests)]
      BY <1>3
    <3>2. all \in [1..Len(all) -> D]
      BY <1>4, <1>5, <3>1
    <3> QED BY <1>4, <3>2
  <2> QED BY <1>2, <2>1, <2>2
<1>7. CASE command.lines # <<>>
  <2>1. command.lines \in Number \X Nat
    BY <1>7, CommandsAre
  <2>0. \A i \in DOMAIN all : all[i].numbering = "Own"
    <3>1. reads_one_message(command.requests)
      BY <1>7 DEF Commands
    <3> QED BY <1>5, <3>1 DEF command_lines, NumberingOf
  <2>2. PICK whole : whole = [command EXCEPT !.lines = <<>>]
    OBVIOUS
  <2>3. EntriesOf(whole) = all
    <3>1. /\ whole.lines = <<>> /\ whole.requests = command.requests
          /\ whole.flags = command.flags /\ whole.tail = command.tail
      BY <2>2 DEF Commands
    <3>2. \A request : Ordinals(whole, request) = Ordinals(command, request)
      BY <3>1 DEF Ordinals
    <3>3. WholeEntries(whole) = WholeEntries(command)
      BY <3>1, <3>2 DEF WholeEntries
    <3>4. EntriesOf(whole) = WholeEntries(whole)
      BY <3>1, EntriesOfUnfolds
    <3> QED BY <1>1, <3>3, <3>4
  <2>4. ASSUME NEW i \in DOMAIN all, ~all[i].is_hidden
        PROVE  apply_read_slice(all[i], command.lines) \in D
    <3>1. all[i] \in Range(EntriesOf(whole))
      BY <2>3 DEF Range
    <3>2. ~(command.lines[2] > Len(all[i].content))
      BY <1>7, <2>2, <2>4, <3>1 DEF IsOutOfRange
    <3>3. all[i].content \in Seq(Nat \X Nat)
      BY <1>2, <1>5 DEF EntriesIn, Fields
    <3>4. command.lines[2] <= Len(all[i].content)
      <4>1. Len(all[i].content) \in Nat
        BY <3>3
      <4>2. command.lines[2] \in Nat
        BY <2>1
      <4> QED BY <4>1, <4>2, <3>2
    <3>5. PICK entry : entry = all[i]
      OBVIOUS
    <3>6. PICK lines : lines = command.lines
      OBVIOUS
    <3>7. /\ entry \in EntriesIn(transcript, command.requests)
          /\ entry.numbering = "Own" /\ entry.from_line = 1 /\ ~entry.is_hidden
          /\ lines \in Number \X Nat /\ lines[2] <= Len(entry.content)
      BY <1>2, <1>5, <2>0, <2>1, <2>4, <3>4, <3>5, <3>6
    <3>8. apply_read_slice(entry, lines) \in EntriesIn(transcript, command.requests)
      BY <3>7, SliceIsEntry
    <3> QED BY <1>2, <3>5, <3>6, <3>8
  <2>5. PICK made : made = [i \in DOMAIN all |->
                             IF all[i].is_hidden THEN all[i]
                             ELSE apply_read_slice(all[i], command.lines)]
    OBVIOUS
  <2>6. EntriesOf(command) = made
    BY <1>1, <1>7, <2>5, EntriesOfUnfolds
  <2>7. made \in [1..Len(all) -> D]
    BY <1>4, <1>5, <2>4, <2>5
  <2> QED BY <1>2, <1>4, <2>6, <2>7
<1> QED BY <1>6, <1>7

-----------------------------------------------------------------------------
(* The messages that a record names.                                       *)

(* Runs of consecutive messages, and the messages in them.                 *)
Spanning(all, seq) ==
  LET iter[s \in SUBSET DOMAIN seq] ==
        IF s = {} THEN <<>>
        ELSE LET x == Max(s) IN PushSpan(all, iter[s \ {x}], seq[x])
  IN  iter

Spans == {run \in Number \X Number : run[1] <= run[2]}

Ranges == Seq(Spans)

IsIn(ordinal, runs) ==
  \E place \in DOMAIN runs : ordinal \in runs[place][1]..runs[place][2]

HaveSpans(all) ==
  \A i \in DOMAIN all : /\ all[i].first \in Number /\ all[i].last \in Number
                        /\ all[i].first <= all[i].last

LEMMA PushSpanIs ==
  ASSUME NEW all, HaveSpans(all), NEW runs \in Ranges, NEW i \in DOMAIN all
  PROVE  /\ PushSpan(all, runs, i) \in Ranges
         /\ \A ordinal \in Int :
              IsIn(ordinal, runs) \/ ordinal \in all[i].first..all[i].last
                => IsIn(ordinal, PushSpan(all, runs, i))
<1>1. PICK first, last : first = all[i].first /\ last = all[i].last
  OBVIOUS
<1>2. first \in Number /\ last \in Number /\ first <= last
  BY <1>1 DEF HaveSpans
<1>3. PICK n : n = Len(runs)
  OBVIOUS
<1>4. /\ n \in Nat /\ DOMAIN runs = 1..n
      /\ \A place \in 1..n : runs[place] \in Spans
  BY <1>3 DEF Ranges
<1>5. CASE runs # <<>> /\ Last(runs)[2] + 1 = first
  <2>1. PICK pushed : pushed = [runs EXCEPT ![n] = <<runs[n][1], last>>]
    OBVIOUS
  <2>2. PushSpan(all, runs, i) = pushed
    BY <1>1, <1>3, <1>5, <2>1 DEF PushSpan, ReplaceAt, Last
  <2>3. n \in 1..n
    BY <1>3, <1>4, <1>5 DEF Ranges
  <2>4. /\ runs[n] \in Number \X Number /\ runs[n][1] <= runs[n][2]
        /\ runs[n][2] + 1 = first
    BY <1>3, <1>4, <1>5, <2>3 DEF Last, Spans
  <2>5. /\ runs[n][1] \in Nat /\ runs[n][2] \in Nat /\ runs[n][1] <= last
        /\ <<runs[n][1], last>> \in Spans
    <3>1. PICK a, b : a = runs[n][1] /\ b = runs[n][2]
      OBVIOUS
    <3>2. a \in Number /\ b \in Number /\ a <= b /\ b + 1 = first
      BY <3>1, <2>4
    <3>3. a \in Nat /\ b \in Nat /\ a <= last
      BY <3>2, <1>2 DEF Number
    <3>4. PICK run : run = <<a, last>>
      OBVIOUS
    <3>5. run \in Number \X Number /\ run[1] = a /\ run[2] = last
      BY <3>2, <3>4, <1>2
    <3>6. run \in Spans
      BY <3>3, <3>5 DEF Spans
    <3> QED BY <3>1, <3>3, <3>4, <3>6
  <2>6. pushed \in Ranges
    <3>1. runs \in Seq(Spans)
      BY DEF Ranges
    <3>2. PICK D : D = Spans
      OBVIOUS
    <3>3. PICK run : run = <<runs[n][1], last>>
      OBVIOUS
    <3>4. run \in D /\ runs \in Seq(D) /\ pushed = [runs EXCEPT ![n] = run]
      BY <2>1, <2>5, <3>1, <3>2, <3>3
    <3>5. pushed \in Seq(D)
      BY <3>4, <2>3, <1>4
    <3> QED BY <3>2, <3>5 DEF Ranges
  <2>7. DOMAIN pushed = 1..n
    BY <2>1, <1>4
  <2>8. pushed[n][1] = runs[n][1] /\ pushed[n][2] = last
    BY <2>1, <2>3, <1>4
  <2>9. \A place \in 1..n : place # n => pushed[place] = runs[place]
    BY <2>1, <1>4
  <2>10. ASSUME NEW ordinal \in Int,
                IsIn(ordinal, runs) \/ ordinal \in all[i].first..all[i].last
         PROVE  IsIn(ordinal, pushed)
    <3>1. CASE ordinal \in all[i].first..all[i].last
      <4>1. ordinal \in first..last
        BY <3>1, <1>1
      <4>2. PICK a, b : a = runs[n][1] /\ b = runs[n][2]
        OBVIOUS
      <4>3. a \in Nat /\ b \in Nat /\ b + 1 = first /\ a <= b
        BY <4>2, <2>4, <2>5
      <4>4. ordinal \in a..last
        BY <4>1, <4>3, <1>2 DEF Number
      <4>5. ordinal \in pushed[n][1]..pushed[n][2]
        BY <4>2, <4>4, <2>8
      <4> QED BY <4>5, <2>3, <2>7 DEF IsIn
    <3>2. CASE IsIn(ordinal, runs)
      <4>1. PICK place \in 1..n : ordinal \in runs[place][1]..runs[place][2]
        BY <3>2, <1>4 DEF IsIn
      <4>2. CASE place = n
        <5>1. ordinal \in pushed[n][1]..pushed[n][2]
          BY <4>1, <4>2, <2>4, <2>8, <1>2 DEF Number
        <5> QED BY <5>1, <2>3, <2>7 DEF IsIn
      <4>3. CASE place # n
        BY <4>1, <4>3, <2>7, <2>9 DEF IsIn
      <4> QED BY <4>2, <4>3
    <3> QED BY <3>1, <3>2, <2>10
  <2> QED BY <2>2, <2>6, <2>10
<1>6. CASE ~(runs # <<>> /\ Last(runs)[2] + 1 = first)
  <2>0. PICK run : run = <<first, last>>
    OBVIOUS
  <2>1. PICK pushed : pushed = Append(runs, run)
    OBVIOUS
  <2>2. PushSpan(all, runs, i) = pushed
    BY <1>1, <1>6, <2>0, <2>1 DEF PushSpan
  <2>3. run \in Spans /\ run[1] = first /\ run[2] = last
    <3>1. run \in Number \X Number /\ run[1] = first /\ run[2] = last
      BY <1>2, <2>0
    <3> QED BY <3>1, <1>2 DEF Spans
  <2>4. pushed \in Ranges
    <3>1. PICK D : D = Spans
      OBVIOUS
    <3>2. runs \in Seq(D) /\ run \in D
      BY <2>3, <3>1 DEF Ranges
    <3>3. pushed \in Seq(D)
      BY <3>2, <2>1
    <3> QED BY <3>1, <3>3 DEF Ranges
  <2>5. /\ DOMAIN pushed = 1..n + 1 /\ pushed[n + 1] = run
        /\ \A place \in 1..n : pushed[place] = runs[place]
    <3>1. PICK D : D = Spans
      OBVIOUS
    <3>2. runs \in Seq(D) /\ run \in D
      BY <2>3, <3>1 DEF Ranges
    <3> QED BY <3>2, <2>1, <1>3
  <2>6. ASSUME NEW ordinal \in Int,
                IsIn(ordinal, runs) \/ ordinal \in all[i].first..all[i].last
        PROVE  IsIn(ordinal, pushed)
    <3>1. CASE ordinal \in all[i].first..all[i].last
      <4>1. ordinal \in pushed[n + 1][1]..pushed[n + 1][2]
        BY <3>1, <1>1, <2>3, <2>5
      <4>2. n + 1 \in DOMAIN pushed
        BY <1>4, <2>5
      <4> QED BY <4>1, <4>2 DEF IsIn
    <3>2. CASE IsIn(ordinal, runs)
      <4>1. PICK place \in 1..n : ordinal \in runs[place][1]..runs[place][2]
        BY <3>2, <1>4 DEF IsIn
      <4>2. place \in DOMAIN pushed /\ pushed[place] = runs[place]
        BY <1>4, <2>5
      <4> QED BY <4>1, <4>2 DEF IsIn
    <3> QED BY <3>1, <3>2, <2>6
  <2> QED BY <2>2, <2>4, <2>6
<1> QED BY <1>5, <1>6

LEMMA SpanningIs ==
  ASSUME NEW all, HaveSpans(all), NEW seq \in Seq(DOMAIN all)
  PROVE  /\ Spanning(all, seq)[DOMAIN seq] \in Ranges
         /\ \A p \in 1..Len(seq) :
              \A ordinal \in all[seq[p]].first..all[seq[p]].last :
                IsIn(ordinal, Spanning(all, seq)[DOMAIN seq])
<1> DEFINE V == Ranges
           D == DOMAIN all
           F == [pair \in V \X D |-> PushSpan(all, pair[1], pair[2])]
           spanning == Spanning(all, seq)
           n == Len(seq)
<1>0. PICK base : base = <<>>
  OBVIOUS
<1>1. base \in V
  BY <1>0 DEF Ranges
<1>2. \A runs \in V, i \in D : PushSpan(all, runs, i) \in V
  BY PushSpanIs
<1>3. F \in [V \X D -> V] /\ \A runs \in V, i \in D : F[<<runs, i>>] = PushSpan(all, runs, i)
  <2> HIDE DEF V, D
  <2> QED BY <1>2
<1>4. PICK fold \in [SUBSET DOMAIN seq -> V] : FoldsBy(fold, V, D, F, base, seq)
  <2>1. F \in [V \X D -> V] /\ seq \in Seq(D)
    BY <1>3
  <2> HIDE DEF V, F, D
  <2> QED BY <1>1, <2>1, FoldIsThere
<1> HIDE DEF F
<1>5. fold = [s \in SUBSET DOMAIN seq |->
                IF s = {} THEN base
                ELSE PushSpan(all, fold[s \ {Max(s)}], seq[Max(s)])]
  <2>1. ASSUME NEW s \in SUBSET DOMAIN seq
        PROVE  fold[s] = IF s = {} THEN base
                         ELSE PushSpan(all, fold[s \ {Max(s)}], seq[Max(s)])
    <3> HIDE DEF V
    <3> QED BY <1>3, <1>4 DEF FoldsBy
  <2>2. fold = [s \in SUBSET DOMAIN seq |-> fold[s]]
    BY <1>4
  <2> QED BY <2>1, <2>2
<1>6. spanning = [s \in SUBSET DOMAIN seq |->
                IF s = {} THEN base
                ELSE PushSpan(all, spanning[s \ {Max(s)}], seq[Max(s)])]
  BY <1>0, <1>5, Zenon DEF Spanning
<1> HIDE DEF V, D, spanning
<1>7. /\ spanning[{}] = base
      /\ \A s \in SUBSET DOMAIN seq : s # {} =>
           spanning[s] = PushSpan(all, spanning[s \ {Max(s)}], seq[Max(s)])
  BY <1>6
<1>8. ASSUME NEW s \in SUBSET DOMAIN seq, s # {}, spanning[s \ {Max(s)}] \in V
      PROVE  spanning[s] = F[<<spanning[s \ {Max(s)}], seq[Max(s)]>>]
  <2>1. Len(seq) \in Nat /\ DOMAIN seq = 1..Len(seq)
    OBVIOUS
  <2>2. s \in SUBSET (1..Len(seq))
    BY <2>1
  <2>3. Max(s) \in s
    BY <1>8, <2>1, <2>2, MaxOfPositions
  <2>4. seq[Max(s)] \in D
    BY <2>3 DEF D
  <2> QED BY <1>3, <1>7, <1>8, <2>4
<1>9. seq \in Seq(D)
  BY DEF D
<1>10. /\ \A k \in 0..Len(seq) : spanning[1..k] \in V
       /\ \A k \in 1..Len(seq) :
            spanning[1..k] = F[<<spanning[1..k - 1], seq[k]>>]
  <2>1. FoldsWithin(spanning, V, F, base, seq)
    BY <1>7, <1>8 DEF FoldsWithin
  <2>2. F \in [V \X D -> V]
    BY <1>3
  <2>3. StepsThrough(spanning, V, F, seq)
    BY <1>1, <1>9, <2>1, <2>2, FoldSteps
  <2> QED BY <2>3 DEF StepsThrough
<1>11. n \in Nat /\ DOMAIN seq = 1..n /\ \A p \in 1..n : seq[p] \in D
  BY <1>9
<1> DEFINE Holds(k) == \A p \in 1..k :
             \A ordinal \in all[seq[p]].first..all[seq[p]].last :
               IsIn(ordinal, spanning[1..k])
           good == {k \in 0..n : Holds(k)}
<1>12. 0 \in good
  BY <1>11
<1>13. ASSUME NEW k \in 0..n, k < n, k \in good
       PROVE  k + 1 \in good
  <2> DEFINE q == k + 1
             before == spanning[1..k]
             after == spanning[1..q]
  <2>1. q \in 1..n /\ q \in 0..n /\ q - 1 = k
    BY <1>11, <1>13
  <2>2. before \in V /\ seq[q] \in D
    BY <1>10, <1>11, <2>1
  <2>3. after = PushSpan(all, before, seq[q])
    BY <1>3, <1>10, <2>1, <2>2
  <2> HIDE DEF q, before, after
  <2>4. \A ordinal \in Int :
              IsIn(ordinal, before) \/ ordinal \in all[seq[q]].first..all[seq[q]].last
                => IsIn(ordinal, after)
    <3>1. PICK i : i = seq[q]
      OBVIOUS
    <3>2. before \in Ranges /\ i \in DOMAIN all
      BY <2>2, <3>1 DEF V, D
    <3>3. \A ordinal \in Int :
              IsIn(ordinal, before) \/ ordinal \in all[i].first..all[i].last
                => IsIn(ordinal, PushSpan(all, before, i))
      BY <3>2, PushSpanIs
    <3> QED BY <2>3, <3>1, <3>3
  <2>5. Holds(k)
    BY <1>13
  <2>6. ASSUME NEW p \in 1..q, NEW ordinal \in all[seq[p]].first..all[seq[p]].last
        PROVE  IsIn(ordinal, after)
    <3>1. seq[p] \in DOMAIN all
      BY <1>11, <2>1 DEF D
    <3>2. ordinal \in Int
      BY <3>1 DEF HaveSpans, Number
    <3>3. CASE p = q
      BY <3>2, <3>3, <2>4
    <3>4. CASE p # q
      <4>1. p \in 1..k
        BY <3>4, <2>1, <1>11
      <4>2. IsIn(ordinal, before)
        BY <4>1, <2>5 DEF before
      <4> QED BY <4>2, <3>2, <2>4
    <3> QED BY <3>3, <3>4
  <2>7. Holds(q)
    BY <2>6 DEF after
  <2> QED BY <2>1, <2>7 DEF q
<1> HIDE DEF good
<1>14. \A k \in 0..n : k < n /\ k \in good => k + 1 \in good
  BY <1>13
<1>15. \A k \in 0..n : k \in good
  BY <1>11, <1>12, <1>14, UpTo, Zenon
<1>16. n \in 0..n
  BY <1>11
<1>17. Holds(n)
  BY <1>15, <1>16 DEF good
<1> QED BY <1>10, <1>11, <1>16, <1>17 DEF V, spanning

LEMMA MessageRunsAre ==
  ASSUME NEW n \in Nat, NEW all, DOMAIN all = 1..n, HaveSpans(all),
         NEW spans \in SUBSET DOMAIN all
  PROVE  /\ MessageRuns(all, spans) \in Ranges
         /\ \A i \in spans : \A ordinal \in all[i].first..all[i].last :
              IsIn(ordinal, MessageRuns(all, spans))
<1>1. PICK seq : seq = Ascending(spans)
  OBVIOUS
<1>2. spans \in SUBSET (1..n)
  OBVIOUS
<1>3. seq \in Seq(spans)
  BY <1>1, <1>2, AscendingIs
<1>4. \A i \in spans : \E p \in 1..Len(seq) : seq[p] = i
  <2>1. \A x \in spans : \E p \in 1..Len(Ascending(spans)) : Ascending(spans)[p] = x
    BY <1>2, AscendingIs
  <2> QED BY <1>1, <2>1
<1>5. seq \in Seq(DOMAIN all)
  BY <1>3
<1>6. PICK runs : runs = Spanning(all, seq)[DOMAIN seq]
  OBVIOUS
<1>7. MessageRuns(all, spans) = runs
  BY <1>1, <1>6 DEF MessageRuns, FoldLeft, MapThenFoldSet, Spanning
<1>8. runs \in Ranges
  BY <1>5, <1>6, SpanningIs
<1>9. \A p \in 1..Len(seq) :
              \A ordinal \in all[seq[p]].first..all[seq[p]].last :
                IsIn(ordinal, runs)
  <2>1. \A p \in 1..Len(seq) :
              \A ordinal \in all[seq[p]].first..all[seq[p]].last :
                IsIn(ordinal, Spanning(all, seq)[DOMAIN seq])
    BY <1>5, SpanningIs
  <2> QED BY <1>6, <2>1
<1>10. \A i \in spans : \A ordinal \in all[i].first..all[i].last : IsIn(ordinal, runs)
  BY <1>4, <1>9
<1> QED BY <1>7, <1>8, <1>10

-----------------------------------------------------------------------------
(* The characters of an output, and the bodies fitted to a budget.         *)

LEMMA SizesAre ==
  /\ \A kind \in {"header", "atom", "range", "conversation", "legend", "hidden",
                  "line", "number", "recipe", "ref"} :
       Size[kind] \in Nat
  /\ Size["header"] > 0 /\ Size["line"] > 0 /\ Floor \in Nat
  BY LayoutAssumption

LEMMA EntryFieldsAre ==
  ASSUME NEW holds, NEW requests, NEW entry \in EntriesIn(holds, requests)
  PROVE  /\ entry.conversation \in DOMAIN holds /\ entry.request \in DOMAIN requests
         /\ entry.first \in Number /\ entry.last \in Number
         /\ entry.is_hidden \in BOOLEAN /\ entry.owner \in Nat
         /\ entry.flags \in SUBSET Flags
         /\ entry.content \in Seq(Nat \X Nat) /\ entry.blocks \in Seq(BlockRecords)
         /\ entry.from_line \in Number
         /\ entry.record \in Nat /\ entry.omitted \in Nat
         /\ entry.first <= entry.last
<1>1. entry \in Fields(holds, requests) /\ entry.first <= entry.last
  BY DEF EntriesIn
<1> QED BY <1>1 DEF Fields

LEMMA LineCharsIs ==
  ASSUME NEW entry
  PROVE  LineChars(entry) \in Nat /\ LineChars(entry) > 0
  BY SizesAre DEF LineChars

LEMMA TextCharsIs ==
  ASSUME NEW holds, NEW requests, NEW entry \in EntriesIn(holds, requests)
  PROVE  TextChars(entry) \in Nat
<1>1. entry.content \in Seq(Nat \X Nat)
  BY EntryFieldsAre
<1>2. PICK n : n = Len(entry.content)
  OBVIOUS
<1>3. n \in Nat /\ (entry.content # <<>> => n > 0)
  BY <1>1, <1>2
<1>4. PICK width : width = LineChars(entry)
  OBVIOUS
<1>5. width \in Nat /\ width > 0
  BY <1>4, LineCharsIs
<1>6. n > 0 => n * width - 1 \in Nat
  BY <1>3, <1>5
<1>7. TextChars(entry) = IF entry.content = <<>> THEN 0 ELSE n * width - 1
  BY <1>2, <1>4 DEF TextChars
<1> QED BY <1>3, <1>6, <1>7

LEMMA EntryCharsIs ==
  ASSUME NEW holds, NEW requests, NEW entry \in EntriesIn(holds, requests),
         NEW left \in Nat \cup {Whole, Emptied}
  PROVE  EntryChars(entry, left) \in Nat
<1>1. TextChars(entry) \in Nat
  BY TextCharsIs
<1>2. entry.is_hidden \in BOOLEAN
  BY EntryFieldsAre
<1>3. Size["hidden"] \in Nat /\ entry.record \in Nat /\ entry.omitted \in Nat
  BY SizesAre, EntryFieldsAre
<1>4. CASE entry.is_hidden
  BY <1>3, <1>4 DEF EntryChars
<1>5. CASE ~entry.is_hidden /\ left = Whole
  BY <1>1, <1>3, <1>5 DEF EntryChars, Whole, Emptied
<1>6. CASE ~entry.is_hidden /\ left = Emptied
  BY <1>3, <1>6 DEF EntryChars, Whole, Emptied
<1>7. CASE ~entry.is_hidden /\ left \in Nat
  BY <1>3, <1>7 DEF EntryChars, Whole, Emptied
<1> QED BY <1>2, <1>4, <1>5, <1>6, <1>7

LEMMA FloorOfIs ==
  ASSUME NEW entry
  PROVE  FloorOf(entry) \in Nat \cup {Whole}
  BY SizesAre DEF FloorOf

(* A body made to fit is whole, or shorter than it is.                     *)
LEMMA ToFitIs ==
  ASSUME NEW holds, NEW requests, NEW entry \in EntriesIn(holds, requests),
         NEW room
  PROVE  /\ truncated_to_fit(entry, room) \in Nat \cup {Whole}
         /\ truncated_to_fit(entry, room) # Whole
              => truncated_to_fit(entry, room) < TextChars(entry)
<1>1. PICK chars : chars = TextChars(entry)
  OBVIOUS
<1>2. chars \in Nat
  BY <1>1, TextCharsIs
<1>3. CASE truncated_to_fit(entry, room) = Whole
  BY <1>3
<1>4. CASE truncated_to_fit(entry, room) # Whole
  <2>1. chars # 0
    BY <1>1, <1>4 DEF truncated_to_fit
  <2>2. PICK some : some = {0} \cup {left \in 0..chars - 1 :
                              EntryChars(entry, left) <= room}
    OBVIOUS
  <2>3. truncated_to_fit(entry, room) = Max(some)
    BY <1>1, <1>4, <2>2 DEF truncated_to_fit
  <2>4. chars - 1 \in Nat /\ some \in SUBSET (0..chars - 1) /\ some # {}
    BY <1>2, <2>1, <2>2
  <2>5. PICK n : n = chars - 1
    OBVIOUS
  <2>6. n \in Nat /\ some \in SUBSET (0..n)
    BY <2>4, <2>5
  <2>7. Max(some) \in some
    BY <2>4, <2>6, MaxOfNumbers
  <2>8. Max(some) \in 0..n
    BY <2>6, <2>7
  <2> QED BY <1>1, <1>2, <2>3, <2>5, <2>8
<1> QED BY <1>3, <1>4

LEMMA EntriesAre ==
  ASSUME NEW holds, NEW requests, NEW all \in Seq(EntriesIn(holds, requests))
  PROVE  /\ Len(all) \in Nat /\ DOMAIN all = 1..Len(all)
         /\ IsFiniteSet(DOMAIN all) /\ IsFiniteSet(SUBSET DOMAIN all)
         /\ HaveSpans(all)
         /\ \A i \in DOMAIN all : all[i] \in EntriesIn(holds, requests)
<1>1. Len(all) \in Nat /\ DOMAIN all = 1..Len(all)
  OBVIOUS
<1>2. IsFiniteSet(DOMAIN all)
  BY <1>1, FS_Interval
<1>3. IsFiniteSet(SUBSET DOMAIN all)
  BY <1>2, FS_SUBSET
<1>4. \A i \in DOMAIN all : all[i] \in EntriesIn(holds, requests)
  OBVIOUS
<1>5. HaveSpans(all)
  BY <1>4, EntryFieldsAre DEF HaveSpans
<1> QED BY <1>1, <1>2, <1>3, <1>4, <1>5

LEMMA RunLengthIs ==
  ASSUME NEW holds, NEW requests, NEW all \in Seq(EntriesIn(holds, requests)),
         NEW a \in DOMAIN all, NEW b \in DOMAIN all, a <= b
  PROVE  Len(RangesOf(all, <<a, b>>)) \in Nat
<1>1. PICK run : run = <<a, b>>
  OBVIOUS
<1>2. run[1] = a /\ run[2] = b /\ a \in Int /\ b \in Int
  BY <1>1, EntriesAre
<1>3. CASE all[a].conversation = all[b].conversation
  <2>1. RangesOf(all, run) = <<<<all[a].conversation, all[a].first, all[b].last>>>>
    BY <1>2, <1>3 DEF RangesOf
  <2> QED BY <1>1, <2>1
<1>4. CASE all[a].conversation # all[b].conversation
  <2>1. PICK n : n = b - a + 1
    OBVIOUS
  <2>2. n \in Nat
    BY <1>2, <2>1
  <2> DEFINE part(k) == LET entry == all[a + k - 1]
                        IN  <<entry.conversation, entry.first, entry.last>>
  <2>3. RangesOf(all, run) = [k \in 1..n |-> part(k)]
    BY <1>2, <1>4, <2>1 DEF RangesOf
  <2> HIDE DEF part
  <2>4. Len([k \in 1..n |-> part(k)]) = n
    BY <2>2
  <2> QED BY <1>1, <2>2, <2>3, <2>4
<1> QED BY <1>3, <1>4

LEMMA RangeCountIs ==
  ASSUME NEW holds, NEW requests, NEW all \in Seq(EntriesIn(holds, requests)),
         NEW chosen \in SUBSET DOMAIN all
  PROVE  OmittedRangeCount(all, chosen) \in Nat
<1> DEFINE runs == OmittedRuns(all, chosen)
           f == [run \in runs |-> Len(RangesOf(all, run))]
<1>1. ASSUME NEW run \in runs
      PROVE  Len(RangesOf(all, run)) \in Nat
  <2>1. /\ run \in (DOMAIN all) \X (DOMAIN all) /\ run[1] <= run[2]
    BY DEF OmittedRuns, Omitted
  <2>2. PICK a \in DOMAIN all, b \in DOMAIN all : run = <<a, b>>
    BY <2>1
  <2>3. a <= b
    BY <2>1, <2>2
  <2> QED BY <2>2, <2>3, RunLengthIs
<1>2. f \in [runs -> Nat]
  <2> HIDE DEF runs
  <2> QED BY <1>1
<1>3. IsFiniteSet(runs)
  <2>1. IsFiniteSet(DOMAIN all)
    BY EntriesAre
  <2>2. IsFiniteSet((DOMAIN all) \X (DOMAIN all))
    BY <2>1, FS_Product
  <2>3. runs \subseteq (DOMAIN all) \X (DOMAIN all)
    BY DEF OmittedRuns, Omitted
  <2> HIDE DEF runs
  <2> QED BY <2>2, <2>3, FS_Subset
<1>4. OmittedRangeCount(all, chosen) = SumFunction(f)
  BY DEF OmittedRangeCount
<1> HIDE DEF f, runs
<1> QED BY <1>2, <1>3, <1>4, SumIsNatural

LEMMA RecordsCharsIs ==
  ASSUME NEW holds, NEW requests, NEW all \in Seq(EntriesIn(holds, requests)),
         NEW groups \in SUBSET SUBSET DOMAIN all
  PROVE  RecordsChars(all, groups) \in Nat
<1> DEFINE f == [spans \in groups |->
                  Size["recipe"] + Size["ref"] * Len(MessageRuns(all, spans))]
<1>1. ASSUME NEW spans \in groups
      PROVE  Size["recipe"] + Size["ref"] * Len(MessageRuns(all, spans)) \in Nat
  <2>1. PICK n : n = Len(all)
    OBVIOUS
  <2>2. n \in Nat /\ DOMAIN all = 1..n /\ HaveSpans(all) /\ spans \in SUBSET DOMAIN all
    BY <2>1, EntriesAre
  <2>3. MessageRuns(all, spans) \in Ranges
    BY <2>2, MessageRunsAre
  <2>4. PICK m : m = Len(MessageRuns(all, spans))
    OBVIOUS
  <2>5. m \in Nat
    BY <2>3, <2>4 DEF Ranges
  <2>6. PICK s, r : s = Size["recipe"] /\ r = Size["ref"]
    OBVIOUS
  <2>7. s \in Nat /\ r \in Nat
    BY <2>6, SizesAre
  <2>8. s + r * m \in Nat
    BY <2>5, <2>7
  <2> QED BY <2>4, <2>6, <2>8
<1>2. f \in [groups -> Nat]
  BY <1>1
<1>3. IsFiniteSet(groups)
  <2>1. IsFiniteSet(SUBSET DOMAIN all)
    BY EntriesAre
  <2> QED BY <2>1, FS_Subset
<1>4. RecordsChars(all, groups) = SumFunction(f)
  BY DEF RecordsChars
<1> HIDE DEF f
<1> QED BY <1>2, <1>3, <1>4, SumIsNatural

LEMMA GroupsAre ==
  ASSUME NEW all, NEW chosen \in SUBSET DOMAIN all
  PROVE  /\ OmittedSpans(all, chosen) \in SUBSET SUBSET DOMAIN all
         /\ ConversationRuns(all, chosen) \in SUBSET SUBSET DOMAIN all
         /\ ConversationRuns(all, chosen) \in SUBSET SUBSET chosen
         /\ HiddenRuns(all, chosen) \in SUBSET SUBSET DOMAIN all
<1>1. OmittedSpans(all, chosen) \in SUBSET SUBSET DOMAIN all
  BY DEF OmittedSpans, Omitted
<1>2. ConversationRuns(all, chosen) \in SUBSET SUBSET chosen
  BY DEF ConversationRuns
<1>3. HiddenRuns(all, chosen) \subseteq ConversationRuns(all, chosen)
  BY DEF HiddenRuns
<1> QED BY <1>1, <1>2, <1>3

LEMMA LegendCharsAre ==
  ASSUME NEW holds, NEW requests, NEW all \in Seq(EntriesIn(holds, requests)),
         NEW groups \in SUBSET SUBSET DOMAIN all
  PROVE  SumFunction([run \in groups |-> Size["conversation"]
            + Size["legend"] * Cardinality(Legends(all, run))]) \in Nat
<1> DEFINE f == [run \in groups |-> Size["conversation"]
                  + Size["legend"] * Cardinality(Legends(all, run))]
<1>1. ASSUME NEW run \in groups
      PROVE  Size["conversation"] + Size["legend"] * Cardinality(Legends(all, run))
               \in Nat
  <2>1. IsFiniteSet(run)
    <3>1. IsFiniteSet(DOMAIN all)
      BY EntriesAre
    <3> QED BY <3>1, FS_Subset
  <2>2. IsFiniteSet({all[i].owner : i \in run})
    <3> DEFINE owners == {all[i].owner : i \in run}
               g == [i \in run |-> all[i].owner]
    <3>1. g \in Surjection(run, owners)
      BY DEF Surjection
    <3> HIDE DEF g, owners
    <3>2. IsFiniteSet(owners)
      BY <2>1, <3>1, FS_Surjection
    <3> QED BY <3>2 DEF owners
  <2>3. IsFiniteSet(Legends(all, run))
    BY <2>2, FS_Subset DEF Legends
  <2>4. PICK m : m = Cardinality(Legends(all, run))
    OBVIOUS
  <2>5. m \in Nat
    BY <2>3, <2>4, FS_CardinalityType
  <2>6. PICK s, r : s = Size["conversation"] /\ r = Size["legend"]
    OBVIOUS
  <2>7. s \in Nat /\ r \in Nat
    BY <2>6, SizesAre
  <2>8. s + r * m \in Nat
    BY <2>5, <2>7
  <2> QED BY <2>4, <2>6, <2>8
<1>2. f \in [groups -> Nat]
  BY <1>1
<1>3. IsFiniteSet(groups)
  <2>1. IsFiniteSet(SUBSET DOMAIN all)
    BY EntriesAre
  <2> QED BY <2>1, FS_Subset
<1> HIDE DEF f
<1>4. SumFunction(f) \in Nat
  BY <1>2, <1>3, SumIsNatural
<1> QED BY <1>4 DEF f

(* The characters of some entries without the records around them.         *)
BodyChars(all, chosen, bodies) ==
  SumFunction([i \in chosen |-> EntryChars(all[i], bodies[i])])

LEMMA BodyCharsAre ==
  ASSUME NEW holds, NEW requests, NEW all \in Seq(EntriesIn(holds, requests)),
         NEW chosen \in SUBSET DOMAIN all,
         NEW bodies \in [chosen -> Nat \cup {Whole, Emptied}]
  PROVE  BodyChars(all, chosen, bodies) \in Nat
<1> DEFINE f == [i \in chosen |-> EntryChars(all[i], bodies[i])]
<1>1. ASSUME NEW i \in chosen
      PROVE  EntryChars(all[i], bodies[i]) \in Nat
  <2>1. PICK entry : entry = all[i]
    OBVIOUS
  <2>2. PICK left : left = bodies[i]
    OBVIOUS
  <2>3. entry \in EntriesIn(holds, requests) /\ left \in Nat \cup {Whole, Emptied}
    BY <2>1, <2>2, EntriesAre
  <2>4. EntryChars(entry, left) \in Nat
    BY <2>3, EntryCharsIs
  <2> QED BY <2>1, <2>2, <2>4
<1>2. f \in [chosen -> Nat]
  BY <1>1
<1>3. IsFiniteSet(chosen)
  <2>1. IsFiniteSet(DOMAIN all)
    BY EntriesAre
  <2> QED BY <2>1, FS_Subset
<1> HIDE DEF f
<1>4. SumFunction(f) \in Nat
  BY <1>2, <1>3, SumIsNatural
<1> QED BY <1>4 DEF f, BodyChars

(* The characters of an output without the entries.                        *)
FrameChars(all, chosen, is_cut) ==
  Size["header"]
    + Size["atom"] * (Cardinality(cut_marker(all, chosen))
                        + (IF is_cut THEN 1 ELSE 0)
                        + (IF \E i \in chosen : all[i].hides THEN 1 ELSE 0))
    + Size["range"] * OmittedRangeCount(all, chosen)
    + RecordsChars(all, OmittedSpans(all, chosen))
    + RecordsChars(all, HiddenRuns(all, chosen))
    + SumFunction([run \in ConversationRuns(all, chosen) |-> Size["conversation"]
        + Size["legend"] * Cardinality(Legends(all, run))])

(* An output has a frame of some characters, and naming a shortened body   *)
(* among what is cut takes no less.                                        *)
LEMMA FrameCharsAre ==
  ASSUME NEW holds, NEW requests, NEW all \in Seq(EntriesIn(holds, requests)),
         NEW chosen \in SUBSET DOMAIN all, NEW is_cut
  PROVE  /\ FrameChars(all, chosen, is_cut) \in Nat /\ FrameChars(all, chosen, is_cut) > 0
         /\ FrameChars(all, chosen, FALSE) <= FrameChars(all, chosen, TRUE)
<1>1. PICK marks : marks = Cardinality(cut_marker(all, chosen))
  OBVIOUS
<1>2. marks \in Nat
  <2>1. cut_marker(all, chosen) \subseteq {"head", "focus", "tail"}
    BY DEF cut_marker
  <2>2. IsFiniteSet({"head", "focus", "tail"})
    <3>1. IsFiniteSet({"head"}) /\ IsFiniteSet({"focus"}) /\ IsFiniteSet({"tail"})
      BY FS_Singleton
    <3>2. IsFiniteSet({"head"} \cup {"focus"})
      BY <3>1, FS_Union
    <3>3. IsFiniteSet(({"head"} \cup {"focus"}) \cup {"tail"})
      BY <3>1, <3>2, FS_Union
    <3>4. {"head", "focus", "tail"} = ({"head"} \cup {"focus"}) \cup {"tail"}
      OBVIOUS
    <3> QED BY <3>3, <3>4
  <2>3. IsFiniteSet(cut_marker(all, chosen))
    BY <2>1, <2>2, FS_Subset
  <2> QED BY <1>1, <2>3, FS_CardinalityType
<1>3. PICK h : h = (IF \E i \in chosen : all[i].hides THEN 1 ELSE 0)
  OBVIOUS
<1>4. h \in Nat
  BY <1>3
<1>5. PICK ranges : ranges = OmittedRangeCount(all, chosen)
  OBVIOUS
<1>6. ranges \in Nat
  BY <1>5, RangeCountIs
<1>7. PICK cuts : cuts = RecordsChars(all, OmittedSpans(all, chosen))
  OBVIOUS
<1>8. cuts \in Nat
  <2>1. OmittedSpans(all, chosen) \in SUBSET SUBSET DOMAIN all
    BY GroupsAre
  <2> QED BY <1>7, <2>1, RecordsCharsIs
<1>9. PICK recipes : recipes = RecordsChars(all, HiddenRuns(all, chosen))
  OBVIOUS
<1>10. recipes \in Nat
  <2>1. HiddenRuns(all, chosen) \in SUBSET SUBSET DOMAIN all
    BY GroupsAre
  <2> QED BY <1>9, <2>1, RecordsCharsIs
<1>11. PICK legends : legends =
         SumFunction([run \in ConversationRuns(all, chosen) |-> Size["conversation"]
            + Size["legend"] * Cardinality(Legends(all, run))])
  OBVIOUS
<1>12. legends \in Nat
  <2>1. ConversationRuns(all, chosen) \in SUBSET SUBSET DOMAIN all
    BY GroupsAre
  <2> QED BY <1>11, <2>1, LegendCharsAre
<1>13. PICK header, atom, range :
         header = Size["header"] /\ atom = Size["atom"] /\ range = Size["range"]
  OBVIOUS
<1>14. header \in Nat /\ header > 0 /\ atom \in Nat /\ range \in Nat
  BY <1>13, SizesAre
<1>15. PICK y, rest : y = range * ranges /\ rest = header + y + cuts + recipes + legends
  OBVIOUS
<1>16. y \in Nat /\ rest \in Nat /\ rest > 0
  <2>1. y \in Nat
    BY <1>6, <1>14, <1>15
  <2> QED BY <1>8, <1>10, <1>12, <1>14, <1>15, <2>1
<1>17. ASSUME NEW cut
       PROVE  FrameChars(all, chosen, cut)
                = atom * (marks + (IF cut THEN 1 ELSE 0) + h) + rest
  <2>1. PICK c, x : c = (IF cut THEN 1 ELSE 0) /\ x = atom * (marks + c + h)
    OBVIOUS
  <2>2. FrameChars(all, chosen, cut) = header + atom * (marks + c + h)
          + range * ranges + cuts + recipes + legends
    BY <1>1, <1>3, <1>5, <1>7, <1>9, <1>11, <1>13, <2>1, Zenon DEF FrameChars
  <2>3. FrameChars(all, chosen, cut) = header + x + y + cuts + recipes + legends
    BY <1>15, <2>1, <2>2
  <2>4. c \in Nat
    BY <2>1
  <2>5. marks + c + h \in Nat
    BY <1>2, <1>4, <2>4
  <2>6. x \in Nat
    BY <1>14, <2>1, <2>5
  <2>7. FrameChars(all, chosen, cut) = x + (header + y + cuts + recipes + legends)
    BY <1>8, <1>10, <1>12, <1>14, <1>16, <2>3, <2>6
  <2> QED BY <1>15, <2>1, <2>7
<1>18. PICK few, more : few = atom * (marks + 0 + h) /\ more = atom * (marks + 1 + h)
  OBVIOUS
<1>19. few \in Nat /\ more \in Nat /\ few <= more
  <2>1. marks + 1 + h = (marks + 0 + h) + 1 /\ marks + 0 + h \in Nat
    BY <1>2, <1>4
  <2>2. PICK n : n = marks + 0 + h
    OBVIOUS
  <2>3. n \in Nat /\ few = atom * n /\ more = atom * n + atom
    BY <1>14, <1>18, <2>1, <2>2
  <2>4. atom * n \in Nat
    BY <1>14, <2>3
  <2> QED BY <1>14, <2>3, <2>4
<1>20. FrameChars(all, chosen, FALSE) = few + rest
  BY <1>17, <1>18
<1>21. FrameChars(all, chosen, TRUE) = more + rest
  BY <1>17, <1>18
<1>22. FrameChars(all, chosen, is_cut) = few + rest \/ FrameChars(all, chosen, is_cut) = more + rest
  <2>1. CASE is_cut
    BY <1>17, <1>18, <2>1
  <2>2. CASE ~is_cut
    BY <1>17, <1>18, <2>2
  <2> QED BY <2>1, <2>2
<1>23. /\ few + rest \in Nat /\ few + rest > 0 /\ more + rest \in Nat
       /\ more + rest > 0 /\ few + rest <= more + rest
  BY <1>16, <1>19
<1>24. FrameChars(all, chosen, is_cut) \in Nat /\ FrameChars(all, chosen, is_cut) > 0
  BY <1>22, <1>23
<1>25. FrameChars(all, chosen, FALSE) <= FrameChars(all, chosen, TRUE)
  BY <1>20, <1>21, <1>23
<1> QED BY <1>24, <1>25

(* An output has a number of characters, and never none.                   *)
LEMMA RenderedIs ==
  ASSUME NEW holds, NEW requests, NEW all \in Seq(EntriesIn(holds, requests)),
         NEW chosen \in SUBSET DOMAIN all,
         NEW bodies \in [chosen -> Nat \cup {Whole, Emptied}], NEW is_cut
  PROVE  /\ rendered_chars(all, chosen, bodies, is_cut) \in Nat
         /\ rendered_chars(all, chosen, bodies, is_cut) > 0
         /\ rendered_chars(all, chosen, bodies, is_cut)
              = FrameChars(all, chosen, is_cut) + BodyChars(all, chosen, bodies)
<1>1. PICK frame, texts : /\ frame = FrameChars(all, chosen, is_cut)
                          /\ texts = BodyChars(all, chosen, bodies)
  OBVIOUS
<1>2. frame \in Nat /\ frame > 0
  BY <1>1, FrameCharsAre
<1>3. texts \in Nat
  <2>1. BodyChars(all, chosen, bodies) \in Nat
    BY BodyCharsAre
  <2> QED BY <1>1, <2>1
<1>4. rendered_chars(all, chosen, bodies, is_cut) = frame + texts
  BY <1>1, Zenon DEF rendered_chars, FrameChars, BodyChars
<1>5. frame + texts \in Nat /\ frame + texts > 0
  BY <1>2, <1>3
<1> QED BY <1>1, <1>4, <1>5

LEMMA MonusIs ==
  ASSUME NEW a \in Int, NEW b \in Int
  PROVE  /\ Monus(a, b) \in Nat
         /\ Monus(a, b) = IF a >= b THEN a - b ELSE 0
<1>1. PICK c : c = a - b
  OBVIOUS
<1>2. c \in Int
  BY <1>1
<1>3. \E x \in {0, c} : \A y \in {0, c} : x >= y
  BY <1>2
<1>4. PICK m : m = Max({0, c})
  OBVIOUS
<1>5. m \in {0, c} /\ \A y \in {0, c} : m >= y
  BY <1>3, <1>4 DEF Max
<1>6. m = IF c >= 0 THEN c ELSE 0
  BY <1>2, <1>5
<1>7. Monus(a, b) = m
  BY <1>1, <1>4 DEF Monus
<1> QED BY <1>1, <1>2, <1>6, <1>7

(* A list of some entries, each once.                                      *)
IsListOf(some, list) ==
  /\ \A p, q \in 1..Cardinality(some) : p < q => list[p] # list[q]
  /\ \A i \in some : \E p \in 1..Cardinality(some) : list[p] = i

(* The shortest message first is a total order.                            *)
LEMMA ShortestFirstIs ==
  ASSUME NEW holds, NEW requests, NEW all \in Seq(EntriesIn(holds, requests)),
         NEW some \in SUBSET DOMAIN all
  PROVE  /\ ShortestFirst(all, some) \in Seq(some)
         /\ Cardinality(some) \in Nat
         /\ Len(ShortestFirst(all, some)) = Cardinality(some)
         /\ IsListOf(some, ShortestFirst(all, some))
<1> DEFINE chars == [i \in some |-> EntryChars(all[i], Whole)]
           order == {pair \in some \X some :
                       LET one == EntryChars(all[pair[1]], Whole)
                           other == EntryChars(all[pair[2]], Whole)
                       IN  one < other \/ (one = other /\ pair[1] < pair[2])}
<1>1. IsFiniteSet(some) /\ some \subseteq Int
  <2>1. IsFiniteSet(DOMAIN all) /\ DOMAIN all = 1..Len(all) /\ Len(all) \in Nat
    BY EntriesAre
  <2>2. IsFiniteSet(some)
    BY <2>1, FS_Subset
  <2> QED BY <2>1, <2>2
<1>2. \A i \in some : chars[i] \in Int
  <2> SUFFICES ASSUME NEW i \in some PROVE chars[i] \in Int
    OBVIOUS
  <2>1. PICK entry : entry = all[i]
    OBVIOUS
  <2>2. entry \in EntriesIn(holds, requests)
    BY <2>1, EntriesAre
  <2>3. EntryChars(entry, Whole) \in Nat
    BY <2>2, EntryCharsIs
  <2> QED BY <2>1, <2>3
<1>3. \A i, j \in some : <<i, j>> \in order
        <=> (chars[i] < chars[j] \/ (chars[i] = chars[j] /\ i < j))
  OBVIOUS
<1> HIDE DEF chars, order
<1>4. IsTotalOrder(order, some)
  <2>1. \A x \in some : <<x, x>> \notin order
    BY <1>1, <1>2, <1>3
  <2>2. ASSUME NEW x \in some, NEW y \in some, x # y
        PROVE  <<x, y>> \in order \/ <<y, x>> \in order
    <3>1. /\ chars[x] \in Int /\ chars[y] \in Int
          /\ x \in Int /\ y \in Int
      BY <1>1, <1>2
    <3>2. chars[x] < chars[y] \/ chars[y] < chars[x] \/ chars[x] = chars[y]
      BY <3>1
    <3>3. x < y \/ y < x
      BY <2>2, <3>1
    <3> QED BY <3>2, <3>3, <1>3
  <2>3. ASSUME NEW x \in some, NEW y \in some, NEW z \in some,
               <<x, y>> \in order, <<y, z>> \in order
        PROVE  <<x, z>> \in order
    BY <1>1, <1>2, <1>3, <2>3
  <2>4. \A x, y, z \in some : <<x, y>> \in order /\ <<y, z>> \in order
          => <<x, z>> \in order
    BY <2>3
  <2>5. \A x, y \in some : x = y \/ <<x, y>> \in order \/ <<y, x>> \in order
    BY <2>2
  <2> QED BY <2>1, <2>4, <2>5 DEF IsTotalOrder
<1>5. PICK list : list = Sorted(some, order)
  OBVIOUS
<1>6. /\ list \in Seq(some) /\ Cardinality(some) \in Nat
      /\ Len(list) = Cardinality(some)
  BY <1>1, <1>4, <1>5, SortedIs
<1>7. list \in [1..Cardinality(some) -> some]
  BY <1>1, <1>4, <1>5, SortedIs
<1>8. \A p, q \in 1..Cardinality(some) : p < q => <<list[p], list[q]>> \in order
  BY <1>1, <1>4, <1>5, SortedIs
<1>9. \A x \in some : \E p \in 1..Cardinality(some) : list[p] = x
  <2>1. \A x \in some : \E p \in 1..Cardinality(some) : Sorted(some, order)[p] = x
    BY <1>1, <1>4, SortedIs
  <2> QED BY <1>5, <2>1
<1>10. ASSUME NEW p \in 1..Cardinality(some), NEW q \in 1..Cardinality(some), p < q
       PROVE  list[p] # list[q]
  <2>1. list[p] \in some /\ <<list[p], list[q]>> \in order
    BY <1>7, <1>8, <1>10
  <2>2. <<list[p], list[p]>> \notin order
    BY <1>4, <2>1 DEF IsTotalOrder
  <2> QED BY <2>1, <2>2
<1>11. IsListOf(some, list)
  BY <1>9, <1>10 DEF IsListOf
<1>12. ShortestFirst(all, some) = list
  BY <1>5 DEF ShortestFirst, order
<1> QED BY <1>6, <1>11, <1>12

LEMMA AtFloorsIs ==
  ASSUME NEW all, NEW chosen, NEW shortened
  PROVE  AtFloors(all, chosen, shortened) \in [chosen -> Nat \cup {Whole, Emptied}]
<1>1. \A i \in chosen : FloorOf(all[i]) \in Nat \cup {Whole}
  BY FloorOfIs
<1> QED BY <1>1 DEF AtFloors

LEMMA ExtraRoomIs ==
  ASSUME NEW holds, NEW requests, NEW all \in Seq(EntriesIn(holds, requests)),
         NEW chosen \in SUBSET DOMAIN all, NEW shortened, NEW limit \in Nat
  PROVE  ExtraRoom(all, chosen, shortened, limit) \in Int
<1> DEFINE some == Truncatable(all, chosen, shortened)
           emptied == [i \in chosen |-> IF i \in some THEN Emptied ELSE Whole]
           nothing == [i \in some |-> Emptied]
<1>1. PICK floors : floors = rendered_chars(all, chosen,
                      AtFloors(all, chosen, shortened), shortened # {})
  OBVIOUS
<1>2. floors \in Nat
  <2>1. PICK bodies : bodies = AtFloors(all, chosen, shortened)
    OBVIOUS
  <2>2. bodies \in [chosen -> Nat \cup {Whole, Emptied}]
    BY <2>1, AtFloorsIs
  <2>3. PICK is_cut : is_cut = (shortened # {})
    OBVIOUS
  <2>4. rendered_chars(all, chosen, bodies, is_cut) \in Nat
    BY <2>2, RenderedIs
  <2> QED BY <1>1, <2>1, <2>3, <2>4
<1>3. PICK base : base = rendered_chars(all, chosen, emptied, shortened # {})
  OBVIOUS
<1>4. base \in Nat
  <2>1. PICK bodies : bodies = emptied
    OBVIOUS
  <2>2. bodies \in [chosen -> Nat \cup {Whole, Emptied}]
    BY <2>1
  <2>3. PICK is_cut : is_cut = (shortened # {})
    OBVIOUS
  <2>4. rendered_chars(all, chosen, bodies, is_cut) \in Nat
    BY <2>2, RenderedIs
  <2> QED BY <1>3, <2>1, <2>3, <2>4
<1>5. PICK frames : frames = SumFunction([i \in some |-> EntryChars(all[i], Emptied)])
  OBVIOUS
<1>6. frames \in Nat
  <2>1. PICK bodies : bodies = nothing
    OBVIOUS
  <2>2. PICK few : few = some
    OBVIOUS
  <2>3. few \in SUBSET DOMAIN all
    BY <2>2 DEF Truncatable
  <2>4. bodies \in [few -> Nat \cup {Whole, Emptied}]
    BY <2>1, <2>2
  <2>5. BodyChars(all, few, bodies) \in Nat
    BY <2>3, <2>4, BodyCharsAre
  <2>6. \A i \in some : bodies[i] = Emptied
    BY <2>1
  <2>7. [i \in some |-> EntryChars(all[i], bodies[i])]
          = [i \in some |-> EntryChars(all[i], Emptied)]
    BY <2>6
  <2>8. BodyChars(all, few, bodies) = SumFunction([i \in some |-> EntryChars(all[i], Emptied)])
    BY <2>2, <2>7 DEF BodyChars
  <2> QED BY <1>5, <2>5, <2>8
<1>7. Monus(limit, base) \in Nat
  <2>1. limit \in Int /\ base \in Int
    BY <1>4
  <2> QED BY <2>1, MonusIs
<1>8. ExtraRoom(all, chosen, shortened, limit)
        = IF floors <= limit THEN limit - floors ELSE Monus(limit, base) + frames
  BY <1>1, <1>3, <1>5, Zenon DEF ExtraRoom, FloorsFit
<1> QED BY <1>2, <1>6, <1>7, <1>8

(* What some entries may keep of their bodies: one is shortened only if it *)
(* may be, and then to less than it is.                                    *)
Bodies(all, chosen, some) ==
  {bodies \in [chosen -> Nat \cup {Whole}] :
     \A i \in chosen : bodies[i] # Whole =>
       i \in some /\ bodies[i] < TextChars(all[i])}

Shares(all, chosen, some) ==
  [kept : Bodies(all, chosen, some), extra : Int, left : Int]

Sharing(all, chosen, shortened, limit, base, seq) ==
  LET iter[s \in SUBSET DOMAIN seq] ==
        IF s = {} THEN base
        ELSE LET x == Max(s)
             IN  ShareRoom(all, chosen, shortened, limit, iter[s \ {x}], seq[x])
  IN  iter

LEMMA ShareRoomIs ==
  ASSUME NEW holds, NEW requests, NEW all \in Seq(EntriesIn(holds, requests)),
         NEW chosen \in SUBSET DOMAIN all, NEW shortened, NEW limit \in Nat,
         NEW some \in SUBSET chosen,
         NEW fit \in Shares(all, chosen, some), NEW i \in some
  PROVE  ShareRoom(all, chosen, shortened, limit, fit, i) \in Shares(all, chosen, some)
<1>1. PICK entry : entry = all[i]
  OBVIOUS
<1>2. entry \in EntriesIn(holds, requests)
  <2>1. i \in DOMAIN all
    OBVIOUS
  <2> QED BY <1>1, <2>1, EntriesAre
<1>3. PICK reserved : reserved = Reserved(all, chosen, shortened, limit, i)
  OBVIOUS
<1>4. reserved \in Nat
  <2>1. PICK floor : floor = FloorOf(entry)
    OBVIOUS
  <2>2. floor \in Nat \cup {Whole, Emptied}
    BY <2>1, FloorOfIs
  <2>3. EntryChars(entry, floor) \in Nat
    BY <1>2, <2>2, EntryCharsIs
  <2> QED BY <1>1, <1>3, <2>1, <2>3 DEF Reserved
<1>5. PICK room : room = reserved + fit.extra \div fit.left
  OBVIOUS
<1>6. PICK fitted : fitted = truncated_to_fit(entry, room)
  OBVIOUS
<1>7. fitted \in Nat \cup {Whole} /\ (fitted # Whole => fitted < TextChars(entry))
  <2>1. truncated_to_fit(entry, room) \in Nat \cup {Whole}
    BY <1>2, ToFitIs
  <2>2. truncated_to_fit(entry, room) # Whole
              => truncated_to_fit(entry, room) < TextChars(entry)
    BY <1>2, ToFitIs
  <2> QED BY <1>6, <2>1, <2>2
<1>8. /\ fit.kept \in Bodies(all, chosen, some) /\ fit.extra \in Int /\ fit.left \in Int
  BY DEF Shares
<1>9. PICK extra : extra = Monus(fit.extra + reserved, EntryChars(entry, fitted))
  OBVIOUS
<1>10. extra \in Int
  <2>1. fitted \in Nat \cup {Whole, Emptied}
    BY <1>7
  <2>2. EntryChars(entry, fitted) \in Nat
    BY <1>2, <2>1, EntryCharsIs
  <2>3. PICK a, b : a = fit.extra + reserved /\ b = EntryChars(entry, fitted)
    OBVIOUS
  <2>4. a \in Int /\ b \in Int
    BY <1>4, <1>8, <2>2, <2>3
  <2>5. Monus(a, b) \in Nat
    BY <2>4, MonusIs
  <2> QED BY <1>9, <2>3, <2>5
<1>11. PICK bodies : bodies = [fit.kept EXCEPT ![i] = fitted]
  OBVIOUS
<1>12. bodies \in Bodies(all, chosen, some)
  <2>1. PICK before : before = fit.kept
    OBVIOUS
  <2>2. /\ before \in [chosen -> Nat \cup {Whole}]
        /\ \A j \in chosen : before[j] # Whole =>
             j \in some /\ before[j] < TextChars(all[j])
    BY <1>8, <2>1 DEF Bodies
  <2>3. /\ bodies \in [chosen -> Nat \cup {Whole}]
        /\ \A j \in chosen : bodies[j] = IF j = i THEN fitted ELSE before[j]
    BY <1>7, <1>11, <2>1, <2>2
  <2>4. ASSUME NEW j \in chosen, bodies[j] # Whole
        PROVE  j \in some /\ bodies[j] < TextChars(all[j])
    <3>1. CASE j = i
      BY <1>1, <1>7, <2>3, <2>4, <3>1
    <3>2. CASE j # i
      BY <2>2, <2>3, <2>4, <3>2
    <3> QED BY <3>1, <3>2
  <2> QED BY <2>3, <2>4 DEF Bodies
<1>13. PICK left : left = fit.left - 1
  OBVIOUS
<1>14. left \in Int
  BY <1>8, <1>13
<1>15. ShareRoom(all, chosen, shortened, limit, fit, i)
         = [kept |-> bodies, extra |-> extra, left |-> left]
  BY <1>1, <1>3, <1>5, <1>6, <1>9, <1>11, <1>13, Zenon DEF ShareRoom
<1> QED BY <1>10, <1>12, <1>14, <1>15 DEF Shares

(* The room is shared by one body after another.                           *)
SharesInTurn(sharing, all, chosen, shortened, limit, some, base, seq) ==
  /\ sharing[1..0] = base
  /\ \A k \in 1..Len(seq) :
       /\ sharing[1..k - 1] \in Shares(all, chosen, some)
       /\ sharing[1..k] = ShareRoom(all, chosen, shortened, limit,
                                    sharing[1..k - 1], seq[k])

LEMMA SharingIs ==
  ASSUME NEW holds, NEW requests, NEW all \in Seq(EntriesIn(holds, requests)),
         NEW chosen \in SUBSET DOMAIN all, NEW shortened, NEW limit \in Nat,
         NEW some \in SUBSET chosen,
         NEW base \in Shares(all, chosen, some), NEW seq \in Seq(some)
  PROVE  /\ Sharing(all, chosen, shortened, limit, base, seq)[DOMAIN seq]
              \in Shares(all, chosen, some)
         /\ SharesInTurn(Sharing(all, chosen, shortened, limit, base, seq),
                         all, chosen, shortened, limit, some, base, seq)
<1> DEFINE V == Shares(all, chosen, some)
           Share(fit, i) == ShareRoom(all, chosen, shortened, limit, fit, i)
           F == [pair \in V \X some |-> Share(pair[1], pair[2])]
           sharing == Sharing(all, chosen, shortened, limit, base, seq)
           n == Len(seq)
<1>1. base \in V
  OBVIOUS
<1>2. \A fit \in V, i \in some : Share(fit, i) \in V
  BY ShareRoomIs
<1>3. F \in [V \X some -> V] /\ \A fit \in V, i \in some : F[<<fit, i>>] = Share(fit, i)
  <2> HIDE DEF V, Share
  <2> QED BY <1>2
<1>4. PICK fold \in [SUBSET DOMAIN seq -> V] : FoldsBy(fold, V, some, F, base, seq)
  <2>1. F \in [V \X some -> V]
    BY <1>3
  <2> HIDE DEF V, F
  <2> QED BY <1>1, <2>1, FoldIsThere
<1> HIDE DEF F
<1>5. fold = [s \in SUBSET DOMAIN seq |->
                IF s = {} THEN base ELSE Share(fold[s \ {Max(s)}], seq[Max(s)])]
  <2>1. ASSUME NEW s \in SUBSET DOMAIN seq
        PROVE  fold[s] = IF s = {} THEN base
                         ELSE Share(fold[s \ {Max(s)}], seq[Max(s)])
    <3> HIDE DEF V, Share
    <3> QED BY <1>3, <1>4 DEF FoldsBy
  <2>2. fold = [s \in SUBSET DOMAIN seq |-> fold[s]]
    BY <1>4
  <2> HIDE DEF Share
  <2> QED BY <2>1, <2>2
<1>6. sharing = [s \in SUBSET DOMAIN seq |->
                IF s = {} THEN base
                ELSE Share(sharing[s \ {Max(s)}], seq[Max(s)])]
  BY <1>5, Zenon DEF Sharing
<1> HIDE DEF V, sharing, Share
<1>7. /\ sharing[{}] = base
      /\ \A s \in SUBSET DOMAIN seq : s # {} =>
           sharing[s] = Share(sharing[s \ {Max(s)}], seq[Max(s)])
  BY <1>6
<1>8. ASSUME NEW s \in SUBSET DOMAIN seq, s # {}, sharing[s \ {Max(s)}] \in V
      PROVE  sharing[s] = F[<<sharing[s \ {Max(s)}], seq[Max(s)]>>]
  <2>1. Len(seq) \in Nat /\ DOMAIN seq = 1..Len(seq)
    OBVIOUS
  <2>2. s \in SUBSET (1..Len(seq))
    BY <2>1
  <2>3. Max(s) \in s
    BY <1>8, <2>1, <2>2, MaxOfPositions
  <2>4. seq[Max(s)] \in some
    BY <2>3
  <2> QED BY <1>3, <1>7, <1>8, <2>4
<1>9. FoldsWithin(sharing, V, F, base, seq)
  BY <1>7, <1>8 DEF FoldsWithin
<1>10. F \in [V \X some -> V]
  BY <1>3
<1>11. StepsThrough(sharing, V, F, seq)
  BY <1>1, <1>9, <1>10, FoldSteps
<1>12. n \in Nat /\ n \in 0..n /\ DOMAIN seq = 1..n
  OBVIOUS
<1>13. sharing[DOMAIN seq] \in V
  BY <1>11, <1>12 DEF StepsThrough
<1>14. sharing[1..0] = base
  BY <1>7
<1>15. ASSUME NEW k \in 1..n
       PROVE  /\ sharing[1..k - 1] \in V
              /\ sharing[1..k] = Share(sharing[1..k - 1], seq[k])
  <2>1. k - 1 \in 0..n
    BY <1>12
  <2>2. sharing[1..k - 1] \in V /\ seq[k] \in some
    BY <1>11, <1>12, <2>1 DEF StepsThrough
  <2>3. sharing[1..k] = F[<<sharing[1..k - 1], seq[k]>>]
    BY <1>11 DEF StepsThrough
  <2> QED BY <1>3, <2>2, <2>3
<1>16. SharesInTurn(sharing, all, chosen, shortened, limit, some, base, seq)
  BY <1>14, <1>15 DEF SharesInTurn, V, Share
<1> QED BY <1>13, <1>16 DEF V, sharing

(* A budget keeps of each body all or less, and shortens no other.         *)
LEMMA FitBodiesIs ==
  ASSUME NEW holds, NEW requests, NEW all \in Seq(EntriesIn(holds, requests)),
         NEW chosen \in SUBSET DOMAIN all, NEW shortened, NEW limit \in Nat
  PROVE  fit_bodies(all, chosen, shortened, limit)
           \in Bodies(all, chosen, Truncatable(all, chosen, shortened))
<1>1. PICK some : some = Truncatable(all, chosen, shortened)
  OBVIOUS
<1>2. some \in SUBSET chosen /\ some \in SUBSET DOMAIN all
  BY <1>1 DEF Truncatable
<1>3. PICK seq : seq = ShortestFirst(all, some)
  OBVIOUS
<1>4. seq \in Seq(some)
  BY <1>2, <1>3, ShortestFirstIs
<1>5. PICK base : base = [kept |-> AllWhole(chosen),
                          extra |-> ExtraRoom(all, chosen, shortened, limit),
                          left |-> Cardinality(some)]
  OBVIOUS
<1>6. base \in Shares(all, chosen, some)
  <2>1. Cardinality(some) \in Nat
    BY <1>2, ShortestFirstIs
  <2>2. ExtraRoom(all, chosen, shortened, limit) \in Int
    BY ExtraRoomIs
  <2>3. AllWhole(chosen) \in Bodies(all, chosen, some)
    BY DEF AllWhole, Bodies
  <2> QED BY <1>5, <2>1, <2>2, <2>3 DEF Shares
<1>7. PICK shared : shared = Sharing(all, chosen, shortened, limit, base, seq)[DOMAIN seq]
  OBVIOUS
<1>8. shared \in Shares(all, chosen, some)
  BY <1>2, <1>4, <1>6, <1>7, SharingIs
<1>9. fit_bodies(all, chosen, shortened, limit) = shared.kept
  BY <1>1, <1>3, <1>5, <1>7 DEF fit_bodies, FoldLeft, MapThenFoldSet, Sharing
<1> QED BY <1>1, <1>8, <1>9 DEF Shares

-----------------------------------------------------------------------------
(* What the bodies leave of the budget.                                    *)

LEMMA DivBounds ==
  ASSUME NEW a \in Nat, NEW b \in Nat, b > 0
  PROVE  /\ a \div b \in Nat
         /\ b * (a \div b) <= a
         /\ a < b * (a \div b) + b
<1>1. a \div b \in Nat
  OBVIOUS
<1>2. b * (a \div b) <= a
  OBVIOUS
<1>3. a < b * (a \div b) + b
  OBVIOUS
<1> QED BY <1>1, <1>2, <1>3

LEMMA LongerFactor ==
  ASSUME NEW a \in Nat, NEW b \in Nat, NEW c \in Nat, a <= b
  PROVE  a * c <= b * c
  OBVIOUS

(* A share of what has so much for each is no less, and leaves that much   *)
(* for each of the others.                                                 *)
LEMMA ShareLeaves ==
  ASSUME NEW a \in Nat, NEW b \in Nat, b > 0, NEW share \in Nat, share * b <= a
  PROVE  /\ a \div b \in Nat /\ share <= a \div b /\ a \div b <= a
         /\ share * (b - 1) <= a - a \div b
<1>1. PICK s, others : s = a \div b /\ others = b - 1
  OBVIOUS
<1>2. s \in Nat /\ b * s <= a /\ a < b * s + b
  BY <1>1, DivBounds
<1>3. others \in Nat /\ b = others + 1
  BY <1>1
<1>4. share <= s
  <2> SUFFICES ASSUME s + 1 <= share PROVE FALSE
    BY <1>2
  <2>1. (s + 1) * b <= share * b
    BY <1>2, LongerFactor
  <2>2. (s + 1) * b = b * s + b
    BY <1>2
  <2>3. PICK x, y : x = b * s /\ y = share * b
    OBVIOUS
  <2>4. x \in Nat /\ y \in Nat
    BY <1>2, <2>3
  <2> QED BY <1>2, <2>1, <2>2, <2>3, <2>4
<1>5. share * others <= s * others
  BY <1>2, <1>3, <1>4, LongerFactor
<1>6. b * s = s * others + s
  BY <1>2, <1>3
<1>7. PICK x, y, z : x = b * s /\ y = s * others /\ z = share * others
  OBVIOUS
<1>8. x \in Nat /\ y \in Nat /\ z \in Nat
  BY <1>2, <1>3, <1>7
<1>9. s <= a /\ z <= a - s
  BY <1>2, <1>5, <1>6, <1>7, <1>8
<1> QED BY <1>1, <1>2, <1>4, <1>7, <1>9

(* What a body takes of its share of the extra room: no more, and if it is *)
(* shortened, all of it.                                                   *)
FitsShare(entry, share, fitted) ==
  /\ EntryChars(entry, fitted) <= EntryChars(entry, FloorOf(entry)) + share
  /\ fitted # Whole => HasShare(entry, share, fitted)

LEMMA FitsItsShare ==
  ASSUME NEW holds, NEW requests, NEW entry \in EntriesIn(holds, requests),
         NEW share \in Nat, NEW reserved, NEW fitted,
         reserved = EntryChars(entry, FloorOf(entry)),
         fitted = truncated_to_fit(entry, reserved + share)
  PROVE  FitsShare(entry, share, fitted)
<1>1. PICK chars, whole, room : /\ chars = TextChars(entry)
                                /\ whole = EntryChars(entry, Whole)
                                /\ room = reserved + share
  OBVIOUS
<1>2. chars \in Nat /\ Floor \in Nat
  BY <1>1, TextCharsIs, SizesAre
<1>3. whole \in Nat
  BY <1>1, EntryCharsIs
<1>4. \A left \in Nat : EntryChars(entry, left) \in Nat
  BY EntryCharsIs
<1>5. reserved \in Nat
  <2>1. PICK floor : floor = FloorOf(entry)
    OBVIOUS
  <2>2. floor \in Nat \cup {Whole, Emptied}
    BY <2>1, FloorOfIs
  <2> QED BY <2>1, <2>2, EntryCharsIs
<1>6. room \in Nat /\ reserved <= room
  BY <1>1, <1>5
<1>7. CASE chars = 0 \/ whole <= room
  <2>1. fitted = Whole
    BY <1>1, <1>7 DEF truncated_to_fit
  <2>2. CASE whole <= room
    BY <1>1, <2>1, <2>2 DEF FitsShare
  <2>3. CASE chars = 0
    <3>1. FloorOf(entry) = Whole
      BY <1>1, <1>2, <2>3 DEF FloorOf, can_truncate
    <3>2. whole <= room
      BY <1>1, <1>6, <3>1
    <3> QED BY <1>1, <2>1, <3>2 DEF FitsShare
  <2> QED BY <1>7, <2>2, <2>3
<1>8. CASE chars # 0 /\ whole > room
  <2>1. PICK some : some = {0} \cup {left \in 0..chars - 1 :
                                       EntryChars(entry, left) <= room}
    OBVIOUS
  <2>2. fitted = Max(some)
    <3>1. ~(chars = 0 \/ whole <= room)
      BY <1>3, <1>6, <1>8
    <3> QED BY <1>1, <2>1, <3>1 DEF truncated_to_fit
  <2>3. PICK n : n = chars - 1
    OBVIOUS
  <2>4. n \in Nat
    BY <1>2, <1>8, <2>3
  <2>5. some \in SUBSET (0..n) /\ some # {}
    BY <2>1, <2>3, <2>4
  <2>6. fitted \in some /\ \A left \in some : left <= fitted
    BY <2>2, <2>4, <2>5, MaxOfNumbers
  <2>7. fitted \in Nat
    BY <2>4, <2>5, <2>6
  <2>8. FloorOf(entry) # Whole
    BY <1>1, <1>3, <1>6, <1>8
  <2>9. FloorOf(entry) = Floor /\ chars > Floor
    BY <1>1, <2>8 DEF FloorOf, can_truncate
  <2>10. Floor \in some
    <3>1. Floor \in 0..n
      BY <1>2, <2>3, <2>9
    <3>2. EntryChars(entry, Floor) <= room
      BY <1>6, <2>9
    <3> QED BY <2>1, <2>3, <3>1, <3>2
  <2>11. fitted >= Floor
    BY <2>6, <2>10
  <2>12. EntryChars(entry, fitted) <= room
    <3>1. CASE fitted = 0
      <4>1. fitted = Floor
        BY <1>2, <2>11, <3>1
      <4> QED BY <1>6, <2>9, <4>1
    <3>2. CASE fitted # 0
      BY <2>1, <2>6, <3>2
    <3> QED BY <3>1, <3>2
  <2>13. ASSUME fitted + 1 < chars
         PROVE  EntryChars(entry, fitted + 1) > room
    <3>1. PICK more : more = fitted + 1
      OBVIOUS
    <3>2. more \in Nat /\ more \in 0..n /\ ~(more <= fitted)
      BY <1>2, <2>3, <2>4, <2>7, <2>13, <3>1
    <3>3. more \notin some
      BY <2>6, <3>2
    <3>4. ~(EntryChars(entry, more) <= room)
      BY <2>1, <2>3, <3>2, <3>3
    <3>5. EntryChars(entry, more) \in Nat
      BY <1>4, <3>2
    <3> QED BY <1>6, <3>1, <3>4, <3>5
  <2>14. HasShare(entry, share, fitted)
    BY <1>1, <1>8, <2>11, <2>13 DEF HasShare
  <2> QED BY <1>1, <2>12, <2>14 DEF FitsShare
<1> QED BY <1>2, <1>3, <1>6, <1>7, <1>8

(* A body with a share of room has any smaller share.                      *)
LEMMA HasLessToo ==
  ASSUME NEW holds, NEW requests, NEW entry \in EntriesIn(holds, requests),
         NEW share \in Nat, NEW more \in Nat, share <= more,
         NEW keeps \in Nat, HasShare(entry, more, keeps)
  PROVE  HasShare(entry, share, keeps)
<1>1. PICK reserved, whole, next : /\ reserved = EntryChars(entry, FloorOf(entry))
                                   /\ whole = EntryChars(entry, Whole)
                                   /\ next = EntryChars(entry, keeps + 1)
  OBVIOUS
<1>2. reserved \in Nat
  <2>1. PICK floor : floor = FloorOf(entry)
    OBVIOUS
  <2>2. floor \in Nat \cup {Whole, Emptied}
    BY <2>1, FloorOfIs
  <2> QED BY <1>1, <2>1, <2>2, EntryCharsIs
<1>3. whole \in Nat
  BY <1>1, EntryCharsIs
<1>4. next \in Nat
  <2>1. keeps + 1 \in Nat
    OBVIOUS
  <2> QED BY <1>1, <2>1, EntryCharsIs
<1>5. /\ keeps >= Floor /\ whole > reserved + more
      /\ keeps + 1 < TextChars(entry) => next > reserved + more
  BY <1>1 DEF HasShare
<1>6. /\ whole > reserved + share
      /\ keeps + 1 < TextChars(entry) => next > reserved + share
  BY <1>2, <1>3, <1>4, <1>5
<1> QED BY <1>1, <1>5, <1>6 DEF HasShare

AgreeBeside(f, g, S, i) == \A j \in S \ {i} : f[j] = g[j]

LEMMA OneTermChanges ==
  ASSUME NEW S, IsFiniteSet(S), NEW f \in [S -> Int], NEW g \in [S -> Int],
         NEW i \in S, AgreeBeside(f, g, S, i)
  PROVE  Summing(g)[S] + f[i] = Summing(f)[S] + g[i]
<1>1. PICK others : others = S \ {i}
  OBVIOUS
<1>2. others \in SUBSET S /\ S \in SUBSET S
  BY <1>1
<1>3. Summing(f)[S] = f[i] + Summing(f)[others]
  <2>1. Summing(f)[S] = f[i] + Summing(f)[S \ {i}]
    BY <1>2, SumTakesOut
  <2> QED BY <1>1, <2>1
<1>4. Summing(g)[S] = g[i] + Summing(g)[others]
  <2>1. Summing(g)[S] = g[i] + Summing(g)[S \ {i}]
    BY <1>2, SumTakesOut
  <2> QED BY <1>1, <2>1
<1>5. Summing(f)[others] = Summing(g)[others]
  <2>1. \A j \in others : f[j] = g[j]
    BY <1>1 DEF AgreeBeside
  <2>2. \A j \in others : f[j] <= g[j]
    BY <1>2, <2>1
  <2>3. (\A j \in others : f[j] = g[j]) => Summing(f)[others] = Summing(g)[others]
    BY <1>2, <2>2, SumsAgree
  <2> QED BY <2>1, <2>3
<1>6. Summing(f)[others] \in Int
  BY <1>2, SumIs
<1>7. f[i] \in Int /\ g[i] \in Int
  OBVIOUS
<1> QED BY <1>3, <1>4, <1>5, <1>6, <1>7

(* What changes when one body does.                                        *)
LEMMA OneBodyChanges ==
  ASSUME NEW holds, NEW requests, NEW all \in Seq(EntriesIn(holds, requests)),
         NEW chosen \in SUBSET DOMAIN all,
         NEW before \in [chosen -> Nat \cup {Whole, Emptied}],
         NEW after \in [chosen -> Nat \cup {Whole, Emptied}],
         NEW i \in chosen, \A j \in chosen : j # i => after[j] = before[j]
  PROVE  BodyChars(all, chosen, after) + EntryChars(all[i], before[i])
           = BodyChars(all, chosen, before) + EntryChars(all[i], after[i])
<1> DEFINE f == [j \in chosen |-> EntryChars(all[j], before[j])]
           g == [j \in chosen |-> EntryChars(all[j], after[j])]
<1>1. ASSUME NEW j \in chosen
      PROVE  EntryChars(all[j], before[j]) \in Nat /\ EntryChars(all[j], after[j]) \in Nat
  <2>1. PICK entry, one, other : entry = all[j] /\ one = before[j] /\ other = after[j]
    OBVIOUS
  <2>2. /\ entry \in EntriesIn(holds, requests)
        /\ one \in Nat \cup {Whole, Emptied} /\ other \in Nat \cup {Whole, Emptied}
    BY <2>1, EntriesAre
  <2>3. EntryChars(entry, one) \in Nat /\ EntryChars(entry, other) \in Nat
    BY <2>2, EntryCharsIs
  <2> QED BY <2>1, <2>3
<1>2. f \in [chosen -> Int] /\ g \in [chosen -> Int]
  BY <1>1
<1>3. IsFiniteSet(chosen)
  <2>1. IsFiniteSet(DOMAIN all)
    BY EntriesAre
  <2> QED BY <2>1, FS_Subset
<1>4. /\ f[i] = EntryChars(all[i], before[i]) /\ g[i] = EntryChars(all[i], after[i])
      /\ \A j \in chosen \ {i} : f[j] = g[j]
      /\ DOMAIN f = chosen /\ DOMAIN g = chosen
  OBVIOUS
<1>5. /\ BodyChars(all, chosen, before) = SumFunction(f)
      /\ BodyChars(all, chosen, after) = SumFunction(g)
  BY DEF BodyChars
<1> HIDE DEF f, g
<1>6. SumFunction(f) = Summing(f)[chosen] /\ SumFunction(g) = Summing(g)[chosen]
  BY <1>4, SumUnfolds
<1>7. Summing(g)[chosen] + f[i] = Summing(f)[chosen] + g[i]
  <2>1. PICK one, other : one = f /\ other = g
    OBVIOUS
  <2>2. one \in [chosen -> Int] /\ other \in [chosen -> Int]
    BY <1>2, <2>1
  <2>3. AgreeBeside(one, other, chosen, i)
    BY <1>4, <2>1 DEF AgreeBeside
  <2>4. Summing(other)[chosen] + one[i] = Summing(one)[chosen] + other[i]
    BY <1>3, <2>2, <2>3, OneTermChanges
  <2> QED BY <2>1, <2>4
<1> QED BY <1>4, <1>5, <1>6, <1>7

(* While the room is shared: what the bodies at hand hold, those not yet   *)
(* fitted at their floors, and the extra room are together what they were; *)
(* there is a share of the extra room for each body left; and a body that  *)
(* is shortened has had one.                                               *)
MixedBodies(all, chosen, undone, bodies) ==
  [i \in chosen |-> IF i \in undone THEN FloorOf(all[i]) ELSE bodies[i]]

SharesAll(all, chosen, undone, total, share, fit) ==
  /\ fit.extra \in Nat
  /\ BodyChars(all, chosen, MixedBodies(all, chosen, undone, fit.kept)) + fit.extra
       = total
  /\ share * fit.left <= fit.extra
  /\ \A i \in undone : fit.kept[i] = Whole
  /\ \A i \in chosen : fit.kept[i] # Whole => HasShare(all[i], share, fit.kept[i])

LEMMA MixedBodiesAre ==
  ASSUME NEW all, NEW chosen, NEW undone, NEW bodies \in [chosen -> Nat \cup {Whole}]
  PROVE  /\ MixedBodies(all, chosen, undone, bodies)
              \in [chosen -> Nat \cup {Whole, Emptied}]
         /\ \A i \in chosen : MixedBodies(all, chosen, undone, bodies)[i] =
              IF i \in undone THEN FloorOf(all[i]) ELSE bodies[i]
<1>1. \A i \in chosen : FloorOf(all[i]) \in Nat \cup {Whole}
  BY FloorOfIs
<1> QED BY <1>1 DEF MixedBodies

LEMMA SharingKeepsAll ==
  ASSUME NEW holds, NEW requests, NEW all \in Seq(EntriesIn(holds, requests)),
         NEW chosen \in SUBSET DOMAIN all, NEW shortened, NEW limit \in Nat,
         NEW some \in SUBSET chosen, NEW undone \in SUBSET some, NEW total,
         NEW least \in Nat,
         NEW fit \in Shares(all, chosen, some), NEW i \in undone,
         FloorsFit(all, chosen, shortened, limit), fit.left > 0,
         SharesAll(all, chosen, undone, total, least, fit)
  PROVE  /\ SharesAll(all, chosen, undone \ {i}, total, least,
                      ShareRoom(all, chosen, shortened, limit, fit, i))
         /\ ShareRoom(all, chosen, shortened, limit, fit, i).left = fit.left - 1
<1>1. PICK entry, extra, left, before :
        /\ entry = all[i] /\ extra = fit.extra /\ left = fit.left
        /\ before = fit.kept
  OBVIOUS
<1>2. entry \in EntriesIn(holds, requests)
  <2>1. i \in DOMAIN all
    OBVIOUS
  <2> QED BY <1>1, <2>1, EntriesAre
<1>3. /\ extra \in Nat /\ left \in Nat /\ left > 0
      /\ before \in [chosen -> Nat \cup {Whole}] /\ least * left <= extra
  BY <1>1 DEF SharesAll, Shares, Bodies
<1>4. PICK share : share = extra \div left
  OBVIOUS
<1>5. /\ share \in Nat /\ least <= share /\ share <= extra
      /\ least * (left - 1) <= extra - share
  BY <1>3, <1>4, ShareLeaves
<1>6. PICK floor, reserved : floor = FloorOf(entry) /\ reserved = EntryChars(entry, floor)
  OBVIOUS
<1>7. floor \in Nat \cup {Whole, Emptied} /\ reserved \in Nat
  <2>1. floor \in Nat \cup {Whole, Emptied}
    BY <1>6, FloorOfIs
  <2> QED BY <1>2, <1>6, <2>1, EntryCharsIs
<1>8. PICK fitted : fitted = truncated_to_fit(entry, reserved + share)
  OBVIOUS
<1>9. fitted \in Nat \cup {Whole}
  BY <1>2, <1>8, ToFitIs
<1>10. PICK chars : chars = EntryChars(entry, fitted)
  OBVIOUS
<1>11. chars \in Nat
  <2>1. fitted \in Nat \cup {Whole, Emptied}
    BY <1>9
  <2> QED BY <1>2, <1>10, <2>1, EntryCharsIs
<1>12. FitsShare(entry, share, fitted)
  BY <1>2, <1>5, <1>6, <1>8, FitsItsShare
<1>13. chars <= reserved + share
  BY <1>6, <1>10, <1>12 DEF FitsShare
<1>14. PICK rest : rest = extra + reserved - chars
  OBVIOUS
<1>15. rest \in Nat /\ Monus(extra + reserved, chars) = rest
  <2>1. PICK all_room : all_room = extra + reserved
    OBVIOUS
  <2>2. all_room \in Int /\ chars \in Int /\ all_room >= chars
    BY <1>3, <1>5, <1>7, <1>11, <1>13, <2>1
  <2>3. Monus(all_room, chars) = IF all_room >= chars THEN all_room - chars ELSE 0
    BY <2>2, MonusIs
  <2>4. rest = all_room - chars
    BY <1>3, <1>7, <1>11, <1>14, <2>1
  <2>5. rest \in Nat
    BY <2>2, <2>4
  <2> QED BY <2>1, <2>2, <2>3, <2>4, <2>5
<1>16. PICK after : after = [before EXCEPT ![i] = fitted]
  OBVIOUS
<1>17. /\ after \in [chosen -> Nat \cup {Whole}] /\ after[i] = fitted
       /\ \A j \in chosen : j # i => after[j] = before[j]
  BY <1>3, <1>9, <1>16
<1>18. PICK next : next = ShareRoom(all, chosen, shortened, limit, fit, i)
  OBVIOUS
<1>19. next = [kept |-> after, extra |-> rest, left |-> left - 1]
  <2>1. Reserved(all, chosen, shortened, limit, i) = reserved
    BY <1>1, <1>6 DEF Reserved
  <2>2. ShareRoom(all, chosen, shortened, limit, fit, i)
          = [kept |-> after, extra |-> Monus(extra + reserved, chars), left |-> left - 1]
    BY <1>1, <1>4, <1>8, <1>10, <1>16, <2>1, Zenon DEF ShareRoom
  <2> QED BY <1>15, <1>18, <2>2
<1>20. next.kept = after /\ next.extra = rest /\ next.left = left - 1
  BY <1>19
<1>21. PICK now, fewer : fewer = undone \ {i} /\ now = MixedBodies(all, chosen, fewer, after)
  OBVIOUS
<1>22. PICK was : was = MixedBodies(all, chosen, undone, before)
  OBVIOUS
<1>23. BodyChars(all, chosen, now) + rest = total
  <2>1. /\ was \in [chosen -> Nat \cup {Whole, Emptied}]
        /\ \A j \in chosen : was[j] = IF j \in undone THEN FloorOf(all[j]) ELSE before[j]
    BY <1>3, <1>22, MixedBodiesAre
  <2>2. /\ now \in [chosen -> Nat \cup {Whole, Emptied}]
        /\ \A j \in chosen : now[j] = IF j \in fewer THEN FloorOf(all[j]) ELSE after[j]
    BY <1>17, <1>21, MixedBodiesAre
  <2>3. \A j \in chosen : j # i => now[j] = was[j]
    BY <1>17, <1>21, <2>1, <2>2
  <2>4. i \in chosen
    OBVIOUS
  <2>5. was[i] = floor /\ now[i] = fitted
    BY <1>1, <1>6, <1>17, <1>21, <2>1, <2>2, <2>4
  <2>6. BodyChars(all, chosen, now) + EntryChars(all[i], was[i])
          = BodyChars(all, chosen, was) + EntryChars(all[i], now[i])
    BY <2>1, <2>2, <2>3, <2>4, OneBodyChanges
  <2>7. BodyChars(all, chosen, now) \in Nat /\ BodyChars(all, chosen, was) \in Nat
    BY <2>1, <2>2, BodyCharsAre
  <2>8. EntryChars(all[i], was[i]) = reserved /\ EntryChars(all[i], now[i]) = chars
    BY <1>1, <1>6, <1>10, <2>5
  <2>9. BodyChars(all, chosen, was) + extra = total
    BY <1>1, <1>22 DEF SharesAll
  <2>10. PICK a, b : a = BodyChars(all, chosen, now) /\ b = BodyChars(all, chosen, was)
    OBVIOUS
  <2>11. a \in Nat /\ b \in Nat /\ a + reserved = b + chars /\ b + extra = total
    BY <2>6, <2>7, <2>8, <2>9, <2>10
  <2>12. a + rest = total
    BY <1>3, <1>7, <1>11, <1>14, <2>11
  <2> QED BY <2>10, <2>12
<1>24. ASSUME NEW j \in chosen, after[j] # Whole
       PROVE  HasShare(all[j], least, after[j])
  <2>1. CASE j = i
    <3>1. fitted # Whole /\ fitted \in Nat
      BY <1>9, <1>17, <1>24, <2>1
    <3>2. HasShare(entry, share, fitted)
      BY <1>12, <3>1 DEF FitsShare
    <3>3. HasShare(entry, least, fitted)
      BY <1>2, <1>5, <3>1, <3>2, HasLessToo
    <3> QED BY <1>1, <1>17, <2>1, <3>3
  <2>2. CASE j # i
    BY <1>1, <1>17, <1>24, <2>2 DEF SharesAll
  <2> QED BY <2>1, <2>2
<1>25. \A j \in fewer : after[j] = Whole
  <2> SUFFICES ASSUME NEW j \in fewer PROVE after[j] = Whole
    OBVIOUS
  <2>1. j \in undone /\ j \in chosen /\ j # i
    BY <1>21
  <2> QED BY <1>1, <1>17, <2>1 DEF SharesAll
<1>26. least * (left - 1) <= rest
  <2>1. PICK q : q = least * (left - 1)
    OBVIOUS
  <2>2. q \in Nat
    BY <1>3, <2>1
  <2> QED BY <1>3, <1>5, <1>7, <1>11, <1>13, <1>14, <2>1, <2>2
<1>27. SharesAll(all, chosen, fewer, total, least, next)
  BY <1>15, <1>20, <1>21, <1>23, <1>24, <1>25, <1>26 DEF SharesAll
<1> QED BY <1>1, <1>18, <1>20, <1>21, <1>27

(* The entries of a list from a place on.                                  *)
LeftAfter(list, k) == {list[p] : p \in k + 1..Len(list)}

LEMMA SharingEnds ==
  ASSUME NEW holds, NEW requests, NEW all \in Seq(EntriesIn(holds, requests)),
         NEW chosen \in SUBSET DOMAIN all, NEW shortened, NEW limit \in Nat,
         NEW some \in SUBSET chosen, NEW share \in Nat,
         NEW base \in Shares(all, chosen, some), NEW seq \in Seq(some), NEW total,
         FloorsFit(all, chosen, shortened, limit), Len(seq) = Cardinality(some),
         IsListOf(some, seq), base.left = Len(seq),
         SharesAll(all, chosen, some, total, share, base), NEW fit,
         fit = Sharing(all, chosen, shortened, limit, base, seq)[DOMAIN seq]
  PROVE  SharesAll(all, chosen, {}, total, share, fit) /\ fit.left = 0
<1>1. PICK n, sharing : /\ n = Len(seq)
                        /\ sharing = Sharing(all, chosen, shortened, limit, base, seq)
  OBVIOUS
<1>2. n \in Nat /\ DOMAIN seq = 1..n /\ \A p \in 1..n : seq[p] \in some
  BY <1>1
<1>3. SharesInTurn(sharing, all, chosen, shortened, limit, some, base, seq)
  BY <1>1, SharingIs
<1>4. /\ sharing[1..0] = base
      /\ \A k \in 1..n :
           /\ sharing[1..k - 1] \in Shares(all, chosen, some)
           /\ sharing[1..k] = ShareRoom(all, chosen, shortened, limit,
                                        sharing[1..k - 1], seq[k])
  BY <1>1, <1>3 DEF SharesInTurn
<1>5. \A p, q \in 1..n : p < q => seq[p] # seq[q]
  BY <1>1 DEF IsListOf
<1>6. \A i \in some : \E p \in 1..n : seq[p] = i
  BY <1>1 DEF IsListOf
<1> DEFINE good == {k \in 0..n :
              /\ SharesAll(all, chosen, LeftAfter(seq, k), total, share, sharing[1..k])
              /\ sharing[1..k].left = n - k}
<1>8. 0 \in good
  <2>1. LeftAfter(seq, 0) = some
    BY <1>1, <1>2, <1>6 DEF LeftAfter
  <2>2. sharing[1..0].left = n - 0
    BY <1>1, <1>2, <1>4
  <2> QED BY <1>2, <1>4, <2>1, <2>2
<1> HIDE DEF good
<1>9. ASSUME NEW k \in 0..n, k < n, k \in good
      PROVE  k + 1 \in good
  <2>1. PICK next, i, undone, before : /\ next = k + 1 /\ i = seq[next]
            /\ undone = LeftAfter(seq, k) /\ before = sharing[1..k]
    OBVIOUS
  <2>2. next \in 1..n /\ next \in 0..n /\ next - 1 = k
    BY <1>2, <1>9, <2>1
  <2>3. /\ SharesAll(all, chosen, undone, total, share, before)
        /\ before.left = n - k
    BY <1>9, <2>1 DEF good
  <2>4. /\ before \in Shares(all, chosen, some)
        /\ sharing[1..next] = ShareRoom(all, chosen, shortened, limit, before, i)
    BY <1>4, <2>1, <2>2
  <2>5. undone = {seq[p] : p \in next..n}
    BY <1>1, <2>1 DEF LeftAfter
  <2>6. undone \in SUBSET some /\ i \in undone /\ i \in some
    BY <1>2, <2>1, <2>2, <2>5
  <2>8. before.left > 0
    BY <1>2, <1>9, <2>3
  <2>10. SharesAll(all, chosen, undone \ {i}, total, share,
                   ShareRoom(all, chosen, shortened, limit, before, i))
    BY <2>3, <2>4, <2>6, <2>8, SharingKeepsAll
  <2>11. ShareRoom(all, chosen, shortened, limit, before, i).left = before.left - 1
    BY DEF ShareRoom
  <2>12. undone \ {i} = LeftAfter(seq, next)
    <3>1. LeftAfter(seq, next) = {seq[p] : p \in next + 1..n}
      BY <1>1 DEF LeftAfter
    <3>2. ASSUME NEW p \in next..n, seq[p] # i
          PROVE  p \in next + 1..n
      BY <1>2, <2>1, <2>2, <3>2
    <3>3. ASSUME NEW p \in next + 1..n
          PROVE  p \in next..n /\ seq[p] # i
      <4>1. p \in 1..n /\ next < p /\ p \in next..n
        BY <1>2, <2>2
      <4>2. seq[next] # seq[p]
        BY <1>5, <2>2, <4>1
      <4> QED BY <2>1, <4>1, <4>2
    <3> QED BY <2>5, <3>1, <3>2, <3>3
  <2>13. sharing[1..next].left = n - next
    BY <1>2, <2>1, <2>2, <2>3, <2>4, <2>11
  <2>14. SharesAll(all, chosen, LeftAfter(seq, next), total, share, sharing[1..next])
    BY <2>4, <2>10, <2>12
  <2> QED BY <2>1, <2>2, <2>13, <2>14 DEF good
<1>10. \A k \in 0..n : k \in good
  <2>1. \A k \in 0..n : k < n /\ k \in good => k + 1 \in good
    BY <1>9
  <2> QED BY <1>2, <1>8, <2>1, UpTo, Zenon
<1>11. n \in good
  BY <1>2, <1>10
<1>12. LeftAfter(seq, n) = {}
  BY <1>1, <1>2 DEF LeftAfter
<1>13. fit = sharing[1..n]
  BY <1>1, <1>2
<1>14. /\ SharesAll(all, chosen, LeftAfter(seq, n), total, share, sharing[1..n])
       /\ sharing[1..n].left = n - n
  BY <1>11 DEF good
<1> QED BY <1>2, <1>12, <1>13, <1>14

(* Where the floors fit, what is left is what the output at floors leaves. *)
LEMMA StartsAtFloors ==
  ASSUME NEW holds, NEW requests, NEW all \in Seq(EntriesIn(holds, requests)),
         NEW chosen \in SUBSET DOMAIN all, NEW shortened \in SUBSET chosen,
         NEW limit \in Nat, FloorsFit(all, chosen, shortened, limit), NEW base, NEW some,
         some = Truncatable(all, chosen, shortened), NEW share,
         base = [kept |-> AllWhole(chosen),
                 extra |-> ExtraRoom(all, chosen, shortened, limit),
                 left |-> Cardinality(some)],
         share * Cardinality(some) <= ExtraRoom(all, chosen, shortened, limit)
  PROVE  SharesAll(all, chosen, some,
                   limit - FrameChars(all, chosen, shortened # {}), share, base)
<1>1. PICK floors, is_cut : /\ floors = AtFloors(all, chosen, shortened)
                            /\ is_cut = (shortened # {})
  OBVIOUS
<1>2. floors \in [chosen -> Nat \cup {Whole, Emptied}]
  BY <1>1, AtFloorsIs
<1>3. PICK frame, texts, room : /\ frame = FrameChars(all, chosen, is_cut)
                                /\ texts = BodyChars(all, chosen, floors)
                                /\ room = ExtraRoom(all, chosen, shortened, limit)
  OBVIOUS
<1>4. frame \in Nat
  BY <1>3, FrameCharsAre
<1>5. texts \in Nat
  BY <1>2, <1>3, BodyCharsAre
<1>6. rendered_chars(all, chosen, floors, is_cut) = frame + texts
  BY <1>2, <1>3, RenderedIs
<1>7. frame + texts <= limit
  BY <1>1, <1>6 DEF FloorsFit
<1>8. room = limit - (frame + texts)
  BY <1>1, <1>3, <1>6 DEF ExtraRoom
<1>9. room \in Nat /\ texts + room = limit - frame
  BY <1>4, <1>5, <1>7, <1>8
<1>10. base.kept = AllWhole(chosen) /\ base.extra = room
  BY <1>3
<1>11. \A i \in chosen : base.kept[i] = Whole
  BY <1>10 DEF AllWhole
<1>12. MixedBodies(all, chosen, some, base.kept) = floors
  <2>1. ASSUME NEW i \in chosen
        PROVE  (IF i \in some THEN FloorOf(all[i]) ELSE base.kept[i])
                 = IF i \in shortened THEN FloorOf(all[i]) ELSE Whole
    <3>1. CASE i \in some
      BY <3>1 DEF Truncatable
    <3>2. CASE i \notin some /\ i \in shortened
      <4>1. all[i].is_hidden
        BY <3>2 DEF Truncatable
      <4>2. FloorOf(all[i]) = Whole
        BY <4>1 DEF FloorOf, can_truncate
      <4> QED BY <1>11, <3>2, <4>2
    <3>3. CASE i \notin some /\ i \notin shortened
      BY <1>11, <3>3
    <3> QED BY <3>1, <3>2, <3>3
  <2> QED BY <1>1, <2>1 DEF MixedBodies, AtFloors
<1>13. share * base.left <= base.extra
  OBVIOUS
<1>14. some \subseteq chosen
  BY DEF Truncatable
<1> QED BY <1>1, <1>3, <1>9, <1>10, <1>11, <1>12, <1>13, <1>14 DEF SharesAll

(* Where the floors fit, the bodies keep within the limit, and any share   *)
(* that there is room for, for each, is had by each that is shortened.     *)
LEMMA RoomIsShared ==
  ASSUME NEW holds, NEW requests, NEW all \in Seq(EntriesIn(holds, requests)),
         NEW chosen \in SUBSET DOMAIN all, NEW shortened \in SUBSET chosen,
         NEW limit \in Nat, FloorsFit(all, chosen, shortened, limit),
         NEW share \in Nat,
         share * Cardinality(Truncatable(all, chosen, shortened))
           <= ExtraRoom(all, chosen, shortened, limit),
         NEW bodies, bodies = fit_bodies(all, chosen, shortened, limit)
  PROVE  /\ BodyChars(all, chosen, bodies)
              <= limit - FrameChars(all, chosen, shortened # {})
         /\ \A i \in chosen : bodies[i] # Whole => HasShare(all[i], share, bodies[i])
<1>1. PICK some : some = Truncatable(all, chosen, shortened)
  OBVIOUS
<1>2. some \in SUBSET chosen /\ some \in SUBSET DOMAIN all
  BY <1>1 DEF Truncatable
<1>3. PICK seq : seq = ShortestFirst(all, some)
  OBVIOUS
<1>4. /\ seq \in Seq(some) /\ Len(seq) = Cardinality(some)
      /\ Cardinality(some) \in Nat
  BY <1>2, <1>3, ShortestFirstIs
<1>5. IsListOf(some, seq)
  BY <1>2, <1>3, ShortestFirstIs
<1>6. PICK base : base = [kept |-> AllWhole(chosen),
                          extra |-> ExtraRoom(all, chosen, shortened, limit),
                          left |-> Cardinality(some)]
  OBVIOUS
<1>7. base \in Shares(all, chosen, some)
  <2>1. ExtraRoom(all, chosen, shortened, limit) \in Int
    BY ExtraRoomIs
  <2>2. AllWhole(chosen) \in Bodies(all, chosen, some)
    BY DEF AllWhole, Bodies
  <2> QED BY <1>4, <1>6, <2>1, <2>2 DEF Shares
<1>8. base.left = Len(seq)
  BY <1>4, <1>6
<1>9. PICK is_cut, total : /\ is_cut = (shortened # {})
                           /\ total = limit - FrameChars(all, chosen, is_cut)
  OBVIOUS
<1>10. SharesAll(all, chosen, some, total, share, base)
  BY <1>1, <1>6, <1>9, StartsAtFloors
<1>11. PICK fit : fit = Sharing(all, chosen, shortened, limit, base, seq)[DOMAIN seq]
  OBVIOUS
<1>12. SharesAll(all, chosen, {}, total, share, fit)
  BY <1>2, <1>4, <1>5, <1>7, <1>8, <1>10, <1>11, SharingEnds
<1>13. fit.kept = bodies
  BY <1>1, <1>3, <1>6, <1>11 DEF fit_bodies, FoldLeft, MapThenFoldSet, Sharing
<1>14. bodies \in [chosen -> Nat \cup {Whole}]
  <2>1. bodies \in Bodies(all, chosen, some)
    BY <1>1, FitBodiesIs
  <2> QED BY <2>1 DEF Bodies
<1>15. MixedBodies(all, chosen, {}, fit.kept) = bodies
  BY <1>13, <1>14 DEF MixedBodies
<1>16. \A i \in chosen : bodies[i] # Whole => HasShare(all[i], share, bodies[i])
  BY <1>12, <1>13 DEF SharesAll
<1>17. PICK texts, extra : texts = BodyChars(all, chosen, bodies) /\ extra = fit.extra
  OBVIOUS
<1>18. extra \in Nat /\ texts + extra = total
  BY <1>12, <1>15, <1>17 DEF SharesAll
<1>19. texts \in Nat
  <2>1. bodies \in [chosen -> Nat \cup {Whole, Emptied}]
    BY <1>14
  <2> QED BY <1>17, <2>1, BodyCharsAre
<1>20. texts <= total
  BY <1>18, <1>19
<1> QED BY <1>9, <1>16, <1>17, <1>20

(* Where the floors fit, there is room beyond them.                        *)
LEMMA ExtraIsRoom ==
  ASSUME NEW holds, NEW requests, NEW all \in Seq(EntriesIn(holds, requests)),
         NEW chosen \in SUBSET DOMAIN all, NEW shortened,
         NEW limit \in Nat, FloorsFit(all, chosen, shortened, limit)
  PROVE  ExtraRoom(all, chosen, shortened, limit) \in Nat
<1>1. PICK floors, is_cut : /\ floors = AtFloors(all, chosen, shortened)
                            /\ is_cut = (shortened # {})
  OBVIOUS
<1>2. floors \in [chosen -> Nat \cup {Whole, Emptied}]
  BY <1>1, AtFloorsIs
<1>3. PICK chars : chars = rendered_chars(all, chosen, floors, is_cut)
  OBVIOUS
<1>4. chars \in Nat
  BY <1>2, <1>3, RenderedIs
<1>5. chars <= limit
  BY <1>1, <1>3 DEF FloorsFit
<1>6. ExtraRoom(all, chosen, shortened, limit) = limit - chars
  BY <1>1, <1>3 DEF ExtraRoom
<1> QED BY <1>4, <1>5, <1>6

(* Where the floors fit, so do the bodies that are fitted.                 *)
LEMMA FittedWithinLimit ==
  ASSUME NEW holds, NEW requests, NEW all \in Seq(EntriesIn(holds, requests)),
         NEW chosen \in SUBSET DOMAIN all, NEW shortened \in SUBSET chosen,
         NEW limit \in Nat, FloorsFit(all, chosen, shortened, limit),
         NEW bodies, bodies = fit_bodies(all, chosen, shortened, limit),
         NEW is_body_cut \in BOOLEAN, is_body_cut => \E i \in chosen : bodies[i] # Whole
  PROVE  rendered_chars(all, chosen, bodies, is_body_cut) <= limit
<1>1. PICK texts, is_cut, frame, printed :
        /\ texts = BodyChars(all, chosen, bodies) /\ is_cut = (shortened # {})
        /\ frame = FrameChars(all, chosen, is_cut)
        /\ printed = FrameChars(all, chosen, is_body_cut)
  OBVIOUS
<1>2. texts <= limit - frame
  <2>1. PICK some, extra : /\ some = Truncatable(all, chosen, shortened)
                           /\ extra = ExtraRoom(all, chosen, shortened, limit)
    OBVIOUS
  <2>2. some \in SUBSET DOMAIN all
    BY <2>1 DEF Truncatable
  <2>3. Cardinality(some) \in Nat
    BY <2>2, ShortestFirstIs
  <2>4. extra \in Nat
    BY <2>1, ExtraIsRoom
  <2>5. 0 * Cardinality(some) <= extra /\ 0 \in Nat
    BY <2>3, <2>4
  <2> QED BY <1>1, <2>1, <2>5, RoomIsShared
<1>3. bodies \in Bodies(all, chosen, Truncatable(all, chosen, shortened))
  BY FitBodiesIs
<1>4. bodies \in [chosen -> Nat \cup {Whole, Emptied}]
  BY <1>3 DEF Bodies
<1>5. texts \in Nat
  BY <1>1, <1>4, BodyCharsAre
<1>6. frame \in Nat /\ printed \in Nat
  BY <1>1, FrameCharsAre
<1>7. is_body_cut => is_cut
  <2>1. ASSUME NEW i \in chosen, bodies[i] # Whole
        PROVE  i \in shortened
    BY <1>3, <2>1 DEF Bodies, Truncatable
  <2> QED BY <1>1, <2>1
<1>8. printed <= frame
  <2>1. CASE is_body_cut = is_cut
    BY <1>1, <1>6, <2>1
  <2>2. CASE is_body_cut # is_cut
    <3>1. is_body_cut = FALSE /\ is_cut = TRUE
      BY <1>1, <1>7, <2>2
    <3> QED BY <1>1, <3>1, FrameCharsAre
  <2> QED BY <2>1, <2>2
<1>9. rendered_chars(all, chosen, bodies, is_body_cut) = printed + texts
  BY <1>1, <1>4, RenderedIs
<1> QED BY <1>2, <1>5, <1>6, <1>8, <1>9

(* Where the floors fit, a body that is shortened has an even share of the *)
(* room beyond them.                                                       *)
LEMMA SharesAreEven ==
  ASSUME NEW holds, NEW requests, NEW all \in Seq(EntriesIn(holds, requests)),
         NEW chosen \in SUBSET DOMAIN all, NEW shortened \in SUBSET chosen,
         NEW limit \in Nat, FloorsFit(all, chosen, shortened, limit),
         NEW bodies, bodies = fit_bodies(all, chosen, shortened, limit),
         NEW i \in chosen, bodies[i] # Whole
  PROVE  HasShare(all[i], ExtraRoom(all, chosen, shortened, limit)
                    \div Cardinality(Truncatable(all, chosen, shortened)), bodies[i])
<1>1. PICK some, extra, count, share :
        /\ some = Truncatable(all, chosen, shortened)
        /\ extra = ExtraRoom(all, chosen, shortened, limit)
        /\ count = Cardinality(some) /\ share = extra \div count
  OBVIOUS
<1>2. bodies \in Bodies(all, chosen, some)
  BY <1>1, FitBodiesIs
<1>3. i \in some
  BY <1>2 DEF Bodies
<1>4. count \in Nat /\ count > 0
  <2>1. some \in SUBSET DOMAIN all
    BY <1>1 DEF Truncatable
  <2>2. count \in Nat /\ IsListOf(some, ShortestFirst(all, some))
    BY <1>1, <2>1, ShortestFirstIs
  <2>3. PICK p \in 1..count : TRUE
    BY <1>1, <1>3, <2>2 DEF IsListOf
  <2> QED BY <2>2, <2>3
<1>5. extra \in Nat
  BY <1>1, ExtraIsRoom
<1>6. share \in Nat /\ share * count <= extra
  <2>1. share \in Nat /\ count * share <= extra
    BY <1>1, <1>4, <1>5, DivBounds
  <2>2. count * share = share * count
    BY <1>4, <2>1
  <2> QED BY <2>1, <2>2
<1>7. HasShare(all[i], share, bodies[i])
  BY <1>1, <1>6, RoomIsShared
<1> QED BY <1>1, <1>7

-----------------------------------------------------------------------------
(* The lines that the record after a shortened body names.                 *)

LEMMA LinesShownIs ==
  ASSUME NEW entry, NEW left \in Nat
  PROVE  LinesShown(entry, left) \in Nat
<1>1. PICK width : width = LineChars(entry)
  OBVIOUS
<1>2. width \in Nat /\ width > 0
  BY <1>1, LineCharsIs
<1>3. LinesShown(entry, left) = (left + 1) \div width
  BY <1>1 DEF LinesShown, Whole
<1>4. (left + 1) \div width \in Nat
  BY <1>2
<1> QED BY <1>3, <1>4

(* What some sequences put end to end begin with.                          *)
Prefix(seqs, k) == IF k = 0 THEN <<>> ELSE Flattening(seqs)[k]

LEMMA PrefixesAre ==
  ASSUME NEW D, NEW seqs \in Seq(Seq(D))
  PROVE  /\ Prefix(seqs, 0) = <<>>
         /\ \A k \in 0..Len(seqs) : Prefix(seqs, k) \in Seq(D)
         /\ \A k \in 1..Len(seqs) : Prefix(seqs, k) = Prefix(seqs, k - 1) \o seqs[k]
         /\ FlattenSeq(seqs) = Prefix(seqs, Len(seqs))
<1>1. PICK n, flat : n = Len(seqs) /\ flat = Flattening(seqs)
  OBVIOUS
<1>2. n \in Nat /\ \A k \in 1..n : seqs[k] \in Seq(D)
  BY <1>1
<1>3. /\ \A k \in 1..n : flat[k] \in Seq(D)
      /\ \A k \in 1..n : flat[k] = IF k = 1 THEN seqs[k] ELSE flat[k - 1] \o seqs[k]
  BY <1>1, FlattenIs
<1>4. (n # 0 => FlattenSeq(seqs) = flat[n]) /\ (n = 0 => FlattenSeq(seqs) = <<>>)
  BY <1>1, FlattenIs
<1>5. \A k : Prefix(seqs, k) = IF k = 0 THEN <<>> ELSE flat[k]
  BY <1>1 DEF Prefix
<1>6. ASSUME NEW k \in 0..n PROVE Prefix(seqs, k) \in Seq(D)
  <2>1. CASE k = 0
    <3>1. Prefix(seqs, k) = <<>> /\ <<>> \in Seq(D)
      BY <1>5, <2>1
    <3> QED BY <3>1
  <2>2. CASE k # 0
    <3>1. k \in 1..n
      BY <1>2, <2>2
    <3> QED BY <1>3, <1>5, <2>2, <3>1
  <2> QED BY <2>1, <2>2
<1>7. ASSUME NEW k \in 1..n PROVE Prefix(seqs, k) = Prefix(seqs, k - 1) \o seqs[k]
  <2>1. CASE k = 1
    <3>1. Prefix(seqs, k) = seqs[k] /\ Prefix(seqs, k - 1) = <<>>
      BY <1>3, <1>5, <2>1
    <3>2. seqs[k] \in Seq(D)
      BY <1>2
    <3>3. <<>> \o seqs[k] = seqs[k]
      BY <3>2
    <3> QED BY <3>1, <3>3
  <2>2. CASE k # 1
    <3>1. k # 0 /\ k - 1 # 0
      BY <1>2, <2>2
    <3> QED BY <1>3, <1>5, <2>2, <3>1
  <2> QED BY <2>1, <2>2
<1> QED BY <1>1, <1>2, <1>4, <1>5, <1>6, <1>7

Walks == [line : Nat, next_line : Number, first : Nat]

LEMMA PassBlockIs ==
  ASSUME NEW walk \in Walks, NEW block \in BlockRecords, NEW shown \in Nat
  PROVE  PassBlock(walk, block, shown) \in Walks
<1>1. PICK line, next_line, first : /\ line = walk.line /\ next_line = walk.next_line
                                    /\ first = walk.first
  OBVIOUS
<1>2. line \in Nat /\ next_line \in Nat /\ next_line # 0 /\ first \in Nat
  BY <1>1 DEF Walks, Number
<1>3. block.lines \in Nat /\ block.whole \in Nat /\ block.is_call \in BOOLEAN
  BY DEF BlockRecords
<1>4. PICK a, b, c : /\ a = line + block.lines
                     /\ b = next_line + (IF block.is_call THEN block.whole ELSE block.lines)
                     /\ c = IF first # 0 \/ shown \notin line..line + block.lines - 1
                            THEN first
                            ELSE next_line + (IF block.is_call THEN 0 ELSE shown - line)
  OBVIOUS
<1>5. a \in Nat /\ b \in Nat /\ b # 0
  BY <1>2, <1>3, <1>4
<1>6. c \in Nat
  BY <1>2, <1>3, <1>4
<1>7. PassBlock(walk, block, shown) = [line |-> a, next_line |-> b, first |-> c]
  BY <1>1, <1>4, Zenon DEF PassBlock
<1> QED BY <1>5, <1>6, <1>7 DEF Walks, Number

(* A walk of some blocks is computed by a function, block after block.     *)
Walking(blocks, shown) ==
  LET iter[s \in SUBSET DOMAIN blocks] ==
        IF s = {} THEN AtFirstLine
        ELSE LET x == Max(s) IN PassBlock(iter[s \ {x}], blocks[x], shown)
  IN  iter

WalksThrough(walking, blocks, shown) ==
  /\ walking[1..0] = AtFirstLine
  /\ \A k \in 1..Len(blocks) :
       /\ walking[1..k - 1] \in Walks
       /\ walking[1..k] = PassBlock(walking[1..k - 1], blocks[k], shown)

LEMMA WalkingIs ==
  ASSUME NEW blocks \in Seq(BlockRecords), NEW shown \in Nat
  PROVE  /\ WalksThrough(Walking(blocks, shown), blocks, shown)
         /\ Walk(blocks, shown) = Walking(blocks, shown)[1..Len(blocks)]
         /\ Walk(blocks, shown) \in Walks
<1> DEFINE Pass(walk, block) == PassBlock(walk, block, shown)
           F == [pair \in Walks \X BlockRecords |-> Pass(pair[1], pair[2])]
           walking == Walking(blocks, shown)
           n == Len(blocks)
<1>1. AtFirstLine \in Walks
  BY DEF AtFirstLine, Walks, Number
<1>2. \A walk \in Walks, block \in BlockRecords : Pass(walk, block) \in Walks
  BY PassBlockIs
<1>3. /\ F \in [Walks \X BlockRecords -> Walks]
      /\ \A walk \in Walks, block \in BlockRecords :
           F[<<walk, block>>] = Pass(walk, block)
  <2> HIDE DEF Pass
  <2> QED BY <1>2
<1>4. PICK fold \in [SUBSET DOMAIN blocks -> Walks] :
        FoldsBy(fold, Walks, BlockRecords, F, AtFirstLine, blocks)
  <2>1. F \in [Walks \X BlockRecords -> Walks]
    BY <1>3
  <2> HIDE DEF F
  <2> QED BY <1>1, <2>1, FoldIsThere
<1> HIDE DEF F
<1>5. fold = [s \in SUBSET DOMAIN blocks |->
                IF s = {} THEN AtFirstLine ELSE Pass(fold[s \ {Max(s)}], blocks[Max(s)])]
  <2>1. ASSUME NEW s \in SUBSET DOMAIN blocks
        PROVE  fold[s] = IF s = {} THEN AtFirstLine
                         ELSE Pass(fold[s \ {Max(s)}], blocks[Max(s)])
    <3> HIDE DEF Pass
    <3> QED BY <1>3, <1>4 DEF FoldsBy
  <2>2. fold = [s \in SUBSET DOMAIN blocks |-> fold[s]]
    BY <1>4
  <2> HIDE DEF Pass
  <2> QED BY <2>1, <2>2
<1>6. walking = [s \in SUBSET DOMAIN blocks |->
                IF s = {} THEN AtFirstLine
                ELSE Pass(walking[s \ {Max(s)}], blocks[Max(s)])]
  BY <1>5, Zenon DEF Walking
<1> HIDE DEF walking, Pass
<1>7. /\ walking[{}] = AtFirstLine
      /\ \A s \in SUBSET DOMAIN blocks : s # {} =>
           walking[s] = Pass(walking[s \ {Max(s)}], blocks[Max(s)])
  BY <1>6
<1>8. ASSUME NEW s \in SUBSET DOMAIN blocks, s # {}, walking[s \ {Max(s)}] \in Walks
      PROVE  walking[s] = F[<<walking[s \ {Max(s)}], blocks[Max(s)]>>]
  <2>1. Len(blocks) \in Nat /\ DOMAIN blocks = 1..Len(blocks)
    OBVIOUS
  <2>2. s \in SUBSET (1..Len(blocks))
    BY <2>1
  <2>3. Max(s) \in s
    BY <1>8, <2>1, <2>2, MaxOfPositions
  <2>4. blocks[Max(s)] \in BlockRecords
    BY <2>3
  <2> QED BY <1>3, <1>7, <1>8, <2>4
<1>9. FoldsWithin(walking, Walks, F, AtFirstLine, blocks)
  BY <1>7, <1>8 DEF FoldsWithin
<1>10. F \in [Walks \X BlockRecords -> Walks]
  BY <1>3
<1>11. StepsThrough(walking, Walks, F, blocks)
  BY <1>1, <1>9, <1>10, FoldSteps
<1>12. n \in Nat /\ n \in 0..n /\ DOMAIN blocks = 1..n
  OBVIOUS
<1>13. walking[1..n] \in Walks
  BY <1>11, <1>12 DEF StepsThrough
<1>14. walking[1..0] = AtFirstLine
  BY <1>7
<1>15. ASSUME NEW k \in 1..n
       PROVE  /\ walking[1..k - 1] \in Walks
              /\ walking[1..k] = Pass(walking[1..k - 1], blocks[k])
  <2>1. k - 1 \in 0..n
    BY <1>12
  <2>2. walking[1..k - 1] \in Walks /\ blocks[k] \in BlockRecords
    BY <1>11, <1>12, <2>1 DEF StepsThrough
  <2>3. walking[1..k] = F[<<walking[1..k - 1], blocks[k]>>]
    BY <1>11 DEF StepsThrough
  <2> QED BY <1>3, <2>2, <2>3
<1>16. WalksThrough(walking, blocks, shown)
  BY <1>14, <1>15 DEF WalksThrough, Pass
<1>17. Walk(blocks, shown) = walking[DOMAIN blocks]
  BY DEF Walk, FoldLeft, MapThenFoldSet, walking, Walking
<1> QED BY <1>12, <1>13, <1>16, <1>17 DEF walking

(* How far a walk is: as many lines of the content, and of the message     *)
(* read alone, as it has passed; and once it is past the lines shown, the  *)
(* others it has passed are of the message from its first line on.         *)
Covers(walk, lines, alone, shown) ==
  /\ walk.line = Len(lines) /\ walk.next_line = Len(alone) + 1
  /\ walk.first = 0 <=> Len(lines) <= shown
  /\ walk.first <= Len(alone)
  /\ \A p \in 1..Len(lines) : p > shown =>
       \E m \in walk.first..Len(alone) : alone[m] = lines[p]

LEMMA ConcatIs ==
  ASSUME NEW D, NEW s \in Seq(D), NEW t \in Seq(D)
  PROVE  Len(s \o t) = Len(s) + Len(t)
  OBVIOUS

LEMMA PassBlockCovers ==
  ASSUME NEW walk \in Walks, NEW block \in BlockRecords, NEW shown \in Nat,
         NEW D, NEW lines \in Seq(D), NEW alone \in Seq(D),
         NEW more \in Seq(D), NEW others \in Seq(D),
         Len(more) = block.lines, Len(others) = block.whole,
         block.lines <= block.whole, ~block.is_call => block.lines = block.whole,
         \A line \in 1..block.lines : more[line] = others[line],
         Covers(walk, lines, alone, shown)
  PROVE  Covers(PassBlock(walk, block, shown), lines \o more, alone \o others, shown)
<1>1. PICK c, w, l, g, first :
        /\ c = Len(lines) /\ w = Len(alone) /\ l = block.lines /\ g = block.whole
        /\ first = walk.first
  OBVIOUS
<1>2. /\ c \in Nat /\ w \in Nat /\ l \in Nat /\ g \in Nat /\ l <= g
      /\ first \in Nat /\ block.is_call \in BOOLEAN
      /\ ~block.is_call => l = g
  BY <1>1 DEF BlockRecords, Walks
<1>3. /\ walk.line = c /\ walk.next_line = w + 1 /\ (first = 0 <=> c <= shown)
      /\ first <= w
      /\ \A p \in 1..c : p > shown => \E m \in first..w : alone[m] = lines[p]
  BY <1>1 DEF Covers
<1>4. PICK next, start : /\ next = PassBlock(walk, block, shown) /\ start = next.first
  OBVIOUS
<1>5. /\ next.line = c + l
      /\ next.next_line = w + 1 + g
      /\ start = IF first # 0 \/ shown \notin c..c + l - 1 THEN first
                 ELSE w + 1 + (IF block.is_call THEN 0 ELSE shown - c)
  BY <1>1, <1>2, <1>3, <1>4 DEF PassBlock
<1>6. PICK now, all : now = lines \o more /\ all = alone \o others
  OBVIOUS
<1>7. /\ Len(now) = c + l /\ Len(all) = w + g
      /\ \A p \in 1..c : now[p] = lines[p]
      /\ \A p \in 1..w : all[p] = alone[p]
      /\ \A p \in 1..l : now[c + p] = more[p]
      /\ \A p \in 1..g : all[w + p] = others[p]
  <2>1. Len(now) = c + l /\ Len(all) = w + g
    <3>1. Len(lines \o more) = Len(lines) + Len(more)
      BY ConcatIs
    <3>2. Len(alone \o others) = Len(alone) + Len(others)
      BY ConcatIs
    <3> QED BY <1>1, <1>6, <3>1, <3>2
  <2>2. \A p \in 1..c : now[p] = lines[p]
    BY <1>1, <1>6
  <2>3. \A p \in 1..w : all[p] = alone[p]
    BY <1>1, <1>6
  <2>4. \A p \in 1..l : now[c + p] = more[p]
    BY <1>1, <1>2, <1>6
  <2>5. \A p \in 1..g : all[w + p] = others[p]
    BY <1>1, <1>2, <1>6
  <2> QED BY <2>1, <2>2, <2>3, <2>4, <2>5
<1>8. start = 0 <=> c + l <= shown
  BY <1>2, <1>3, <1>5
<1>9. start <= w + g
  BY <1>2, <1>3, <1>5
<1>10. start \in Nat
  BY <1>2, <1>3, <1>5
<1>11. ASSUME NEW p \in 1..c + l, p > shown
       PROVE  \E m \in start..w + g : all[m] = now[p]
  <2>1. CASE p <= c
    <3>1. p \in 1..c /\ first # 0 /\ start = first
      BY <1>2, <1>3, <1>5, <1>11, <2>1
    <3>2. PICK m \in first..w : alone[m] = lines[p]
      BY <1>3, <1>11, <3>1
    <3>3. m \in 1..w /\ m \in start..w + g
      BY <1>2, <3>1, <3>2
    <3> QED BY <1>7, <3>1, <3>2, <3>3
  <2>2. CASE p > c
    <3>1. PICK j, m : j = p - c /\ m = w + j
      OBVIOUS
    <3>2. j \in 1..l /\ j \in 1..g /\ p = c + j
      BY <1>2, <2>2, <3>1
    <3>3. all[m] = others[j] /\ now[p] = more[j]
      BY <1>7, <3>1, <3>2
    <3>4. more[j] = others[j]
      BY <1>1, <3>2
    <3>5. m \in start..w + g
      BY <1>2, <1>3, <1>5, <1>10, <1>11, <3>1, <3>2
    <3> QED BY <3>3, <3>4, <3>5
  <2> QED BY <1>2, <2>1, <2>2
<1>12. \A p \in 1..Len(now) : p > shown => \E m \in start..Len(all) : all[m] = now[p]
  BY <1>7, <1>11
<1>13. /\ next.line = Len(now) /\ next.next_line = Len(all) + 1
       /\ (start = 0 <=> Len(now) <= shown) /\ start <= Len(all)
  BY <1>2, <1>5, <1>7, <1>8, <1>9
<1>14. Covers(next, now, all, shown)
  BY <1>4, <1>12, <1>13, Zenon DEF Covers
<1> QED BY <1>4, <1>6, <1>14

(* The blocks of a message as two reads show them.                         *)
LEMMA WalkCovers ==
  ASSUME NEW message \in Messages, NEW flags, NEW shown \in Nat, NEW blocks, NEW alone,
         blocks = Blocks(message, flags, "FirstLine"),
         alone = Blocks(message, flags, "All")
  PROVE  Covers(Walk(blocks, shown), Content(blocks), Content(alone), shown)
<1>1. PICK n : n = Len(message.parts)
  OBVIOUS
<1>2. /\ n \in Nat /\ blocks \in Seq(BlockRecords) /\ Len(blocks) = n
      /\ alone \in Seq(BlockRecords) /\ Len(alone) = n
  <2>1. n \in Nat
    BY <1>1, PartsAre
  <2> QED BY <1>1, <2>1, BlocksAre
<1>3. PICK short, whole : short = BlockLines(blocks) /\ whole = BlockLines(alone)
  OBVIOUS
<1>4. /\ short \in Seq(Seq(Nat \X Nat)) /\ Len(short) = n
      /\ whole \in Seq(Seq(Nat \X Nat)) /\ Len(whole) = n
  BY <1>2, <1>3, BlockLinesAre
<1>5. /\ Content(blocks) = Prefix(short, n) /\ Content(alone) = Prefix(whole, n)
  <2>1. Content(blocks) = FlattenSeq(short) /\ Content(alone) = FlattenSeq(whole)
    BY <1>3 DEF Content, BlockLines
  <2>2. FlattenSeq(short) = Prefix(short, n) /\ FlattenSeq(whole) = Prefix(whole, n)
    BY <1>4, PrefixesAre
  <2> QED BY <2>1, <2>2
<1>6. /\ Prefix(short, 0) = <<>> /\ Prefix(whole, 0) = <<>>
      /\ \A k \in 0..n : Prefix(short, k) \in Seq(Nat \X Nat)
      /\ \A k \in 0..n : Prefix(whole, k) \in Seq(Nat \X Nat)
      /\ \A k \in 1..n : Prefix(short, k) = Prefix(short, k - 1) \o short[k]
      /\ \A k \in 1..n : Prefix(whole, k) = Prefix(whole, k - 1) \o whole[k]
  BY <1>4, PrefixesAre
<1>7. PICK walking : walking = Walking(blocks, shown)
  OBVIOUS
<1>8. /\ walking[1..0] = AtFirstLine
      /\ \A k \in 1..n :
           /\ walking[1..k - 1] \in Walks
           /\ walking[1..k] = PassBlock(walking[1..k - 1], blocks[k], shown)
      /\ Walk(blocks, shown) = walking[1..n]
  BY <1>2, <1>7, WalkingIs DEF WalksThrough
<1> DEFINE good == {k \in 0..n :
              Covers(walking[1..k], Prefix(short, k), Prefix(whole, k), shown)}
<1>9. 0 \in good
  <2>1. Covers(AtFirstLine, <<>>, <<>>, shown)
    BY DEF Covers, AtFirstLine
  <2>2. 0 \in 0..n
    BY <1>2
  <2> QED BY <1>6, <1>8, <2>1, <2>2
<1> HIDE DEF good
<1>10. ASSUME NEW k \in 0..n, k < n, k \in good
       PROVE  k + 1 \in good
  <2>1. PICK next, block, walk, before, beside :
          /\ next = k + 1 /\ block = blocks[next] /\ walk = walking[1..k]
          /\ before = Prefix(short, k) /\ beside = Prefix(whole, k)
    OBVIOUS
  <2>2. next \in 1..n /\ next \in 0..n /\ next - 1 = k
    BY <1>2, <1>10, <2>1
  <2>3. /\ walk \in Walks
        /\ walking[1..next] = PassBlock(walk, block, shown)
    BY <1>8, <2>1, <2>2
  <2>4. block \in BlockRecords
    BY <1>2, <2>1, <2>2
  <2>5. before \in Seq(Nat \X Nat) /\ beside \in Seq(Nat \X Nat)
    BY <1>6, <2>1
  <2>6. PICK more, others, other :
          more = short[next] /\ others = whole[next] /\ other = alone[next]
    OBVIOUS
  <2>7. /\ more \in Seq(Nat \X Nat) /\ Len(more) = block.lines
        /\ \A line \in 1..block.lines : more[line] = <<next, line>>
    <3>1. next \in 1..Len(blocks)
      BY <1>2, <2>2
    <3>2. /\ BlockLines(blocks)[next] \in Seq(Nat \X Nat)
          /\ Len(BlockLines(blocks)[next]) = blocks[next].lines
          /\ \A line \in 1..blocks[next].lines :
               BlockLines(blocks)[next][line] = <<next, line>>
      BY <1>2, <3>1, BlockLinesAre
    <3> QED BY <1>3, <2>1, <2>6, <3>2
  <2>8. /\ others \in Seq(Nat \X Nat) /\ Len(others) = other.lines
        /\ \A line \in 1..other.lines : others[line] = <<next, line>>
    BY <1>2, <1>3, <2>2, <2>6, BlockLinesAre
  <2>9. /\ block.whole = other.lines /\ block.lines <= other.lines
        /\ ~block.is_call => block.lines = other.lines
    <3>1. next \in 1..Len(message.parts)
      BY <1>1, <2>2
    <3> QED BY <2>1, <2>6, <3>1, BlocksShortened
  <2>10. \A line \in 1..block.lines : more[line] = others[line]
    <3>1. block.lines \in Nat /\ other.lines \in Nat
      BY <2>4, <2>9 DEF BlockRecords
    <3>2. \A line \in 1..block.lines : line \in 1..other.lines
      BY <2>9, <3>1
    <3> QED BY <2>7, <2>8, <3>2
  <2>11. Covers(walk, before, beside, shown)
    BY <1>10, <2>1 DEF good
  <2>12. Covers(PassBlock(walk, block, shown), before \o more, beside \o others, shown)
    <3>1. /\ Len(others) = block.whole /\ block.lines <= block.whole
          /\ ~block.is_call => block.lines = block.whole
      BY <2>8, <2>9
    <3> QED BY <2>3, <2>4, <2>5, <2>7, <2>8, <2>10, <2>11, <3>1, PassBlockCovers
  <2>13. Prefix(short, next) = before \o more /\ Prefix(whole, next) = beside \o others
    BY <1>6, <2>1, <2>2, <2>6
  <2>14. next \in good
    BY <2>2, <2>3, <2>12, <2>13 DEF good
  <2> QED BY <2>1, <2>14
<1>11. \A k \in 0..n : k \in good
  <2>1. \A k \in 0..n : k < n /\ k \in good => k + 1 \in good
    BY <1>10
  <2> QED BY <1>2, <1>9, <2>1, UpTo, Zenon
<1>12. n \in good
  BY <1>2, <1>11
<1> QED BY <1>5, <1>8, <1>12 DEF good

(* A shortened body has a line that is not shown whole.                    *)
LEMMA ShownIsLess ==
  ASSUME NEW holds, NEW requests, NEW entry \in EntriesIn(holds, requests),
         NEW left \in Nat, left < TextChars(entry)
  PROVE  LinesShown(entry, left) \in Nat /\ LinesShown(entry, left) < Len(entry.content)
<1>1. PICK n, width, shown : /\ n = Len(entry.content) /\ width = LineChars(entry)
                             /\ shown = LinesShown(entry, left)
  OBVIOUS
<1>2. n \in Nat
  <2>1. entry.content \in Seq(Nat \X Nat)
    BY EntryFieldsAre
  <2> QED BY <1>1, <2>1
<1>3. width \in Nat /\ width > 0
  BY <1>1, LineCharsIs
<1>4. shown \in Nat /\ shown = (left + 1) \div width
  BY <1>1, LinesShownIs DEF LinesShown, Whole
<1>5. left < n * width - 1
  BY <1>1, <1>2, <1>3 DEF TextChars
<1>6. width * shown <= left + 1
  <2>1. left + 1 \in Nat
    OBVIOUS
  <2> QED BY <1>3, <1>4, <2>1, DivBounds
<1>7. shown < n
  <2> SUFFICES ASSUME n <= shown PROVE FALSE
    BY <1>2, <1>4
  <2>1. n * width <= shown * width
    BY <1>2, <1>3, <1>4, LongerFactor
  <2>2. shown * width = width * shown
    BY <1>3, <1>4
  <2>3. PICK x, y : x = n * width /\ y = width * shown
    OBVIOUS
  <2>4. x \in Nat /\ y \in Nat
    BY <1>2, <1>3, <1>4, <2>3
  <2> QED BY <1>5, <1>6, <2>1, <2>2, <2>3, <2>4
<1> QED BY <1>1, <1>4, <1>7

(* Each line of a body that is not shown is among those to read again.     *)
NamesTheRest(holds, entry, left) ==
  \A p \in 1..Len(entry.content) : p > LinesShown(entry, left) =>
    \E n \in reread_lines(entry, left)[1]..reread_lines(entry, left)[2] :
      ContentOf(holds, entry)[n] = entry.content[p]

LEMMA RereadLinesAre ==
  ASSUME NEW holds \in Transcripts, NEW requests,
         NEW entry \in EntriesIn(holds, requests), ~entry.is_hidden,
         NEW left \in Nat, left < TextChars(entry)
  PROVE  /\ reread_lines(entry, left) \in Number \X Nat
         /\ NamesTheRest(holds, entry, left)
<1>1. PICK shown, n, lines : /\ shown = LinesShown(entry, left)
                             /\ n = Len(entry.content)
                             /\ lines = reread_lines(entry, left)
  OBVIOUS
<1>2. shown \in Nat /\ n \in Nat /\ shown < n
  <2>1. entry.content \in Seq(Nat \X Nat)
    BY EntryFieldsAre
  <2> QED BY <1>1, <2>1, ShownIsLess
<1>3. PrintsLines(holds, entry)
  BY DEF EntriesIn
<1>4. CASE entry.numbering = "CommandsShortened"
  <2>1. PICK message, blocks, alone :
          /\ message = MessageOf(holds, entry)
          /\ blocks = Blocks(message, entry.flags, "FirstLine")
          /\ alone = Blocks(message, entry.flags, "All")
    OBVIOUS
  <2>2. message \in Messages
    <3>1. /\ entry.conversation \in DOMAIN holds
          /\ entry.first \in DOMAIN holds[entry.conversation]
      <4>1. entry.conversation \in DOMAIN holds
        BY EntryFieldsAre
      <4>2. entry.first \in DOMAIN holds[entry.conversation]
        BY <1>3 DEF EntriesIn, PrintsLines
      <4> QED BY <4>1, <4>2
    <3>2. holds[entry.conversation] \in Seq(Messages)
      BY <3>1, ConversationsAre
    <3> QED BY <2>1, <3>1, <3>2 DEF MessageOf
  <2>3. entry.blocks = blocks /\ entry.content = Content(blocks)
    BY <1>3, <1>4, <2>1 DEF PrintsLines, IsShortened
  <2>4. PICK walk, whole : walk = Walk(blocks, shown) /\ whole = Content(alone)
    OBVIOUS
  <2>5. whole = ContentOf(holds, entry)
    BY <2>1, <2>4 DEF ContentOf
  <2>6. alone \in Seq(BlockRecords) /\ blocks \in Seq(BlockRecords)
    BY <2>1, <2>2, BlocksAre
  <2>7. whole \in Seq(Nat \X Nat)
    BY <2>4, <2>6, ContentIs
  <2>8. PICK w : w = Len(whole)
    OBVIOUS
  <2>9. w \in Nat
    BY <2>7, <2>8
  <2>10. walk \in Walks
    BY <1>2, <2>4, <2>6, WalkingIs
  <2>11. Covers(walk, Content(blocks), Content(alone), shown)
    BY <1>2, <2>1, <2>2, <2>4, WalkCovers
  <2>12. PICK first : first = walk.first
    OBVIOUS
  <2>13. /\ walk.next_line = w + 1 /\ first <= w /\ (first = 0 <=> n <= shown)
         /\ \A p \in 1..n : p > shown => \E m \in first..w : whole[m] = entry.content[p]
    BY <1>1, <2>3, <2>4, <2>8, <2>11, <2>12 DEF Covers
  <2>14. first \in Nat /\ first # 0
    BY <1>2, <2>10, <2>12, <2>13 DEF Walks
  <2>15. walk.next_line - 1 = w
    BY <2>9, <2>13
  <2>16. lines = <<first, w>>
    BY <1>1, <1>4, <2>3, <2>4, <2>12, <2>14, <2>15 DEF reread_lines
  <2>17. lines[1] = first /\ lines[2] = w
    BY <2>16
  <2>18. lines \in Number \X Nat
    BY <2>9, <2>14, <2>16 DEF Number
  <2>19. NamesTheRest(holds, entry, left)
    BY <1>1, <2>5, <2>13, <2>17 DEF NamesTheRest
  <2> QED BY <1>1, <2>18, <2>19
<1>5. CASE entry.numbering # "CommandsShortened"
  <2>1. IsPartOf(holds, entry)
    BY <1>3, <1>5 DEF PrintsLines
  <2>2. PICK from, offset : from = entry.from_line /\ offset = OffsetOf(entry)
    OBVIOUS
  <2>3. from \in Nat /\ from # 0 /\ offset = from - 1 /\ offset \in Nat
    <3>1. entry.from_line \in Number
      BY EntryFieldsAre
    <3> QED BY <2>2, <3>1 DEF Number, OffsetOf
  <2>4. lines = <<from + shown, from + n - 1>>
    BY <1>1, <1>5, <2>2 DEF reread_lines
  <2>5. lines \in Number \X Nat /\ lines[1] = from + shown /\ lines[2] = from + n - 1
    BY <1>2, <2>3, <2>4 DEF Number
  <2>6. ASSUME NEW p \in 1..n, p > shown
        PROVE  \E m \in lines[1]..lines[2] : ContentOf(holds, entry)[m] = entry.content[p]
    <3>1. PICK m : m = offset + p
      OBVIOUS
    <3>2. m \in lines[1]..lines[2]
      BY <1>2, <2>3, <2>5, <2>6, <3>1
    <3>3. p \in DOMAIN entry.content
      <4>1. entry.content \in Seq(Nat \X Nat)
        BY EntryFieldsAre
      <4> QED BY <1>1, <4>1
    <3>4. entry.content[p] = ContentOf(holds, entry)[m]
      BY <2>1, <2>2, <3>1, <3>3 DEF IsPartOf
    <3> QED BY <3>2, <3>4
  <2>7. NamesTheRest(holds, entry, left)
    BY <1>1, <2>6 DEF NamesTheRest
  <2> QED BY <1>1, <2>5, <2>7
<1> QED BY <1>4, <1>5

-----------------------------------------------------------------------------
(* The commands that the records of an answer name.                        *)

(* The record of some entries names their conversation, messages, flags.   *)
LEMMA ReadRecordIs ==
  ASSUME NEW holds, NEW requests, NEW all \in Seq(EntriesIn(holds, requests)),
         NEW spans \in SUBSET DOMAIN all, spans # {}
  PROVE  /\ Min(spans) \in spans
         /\ ReadRecord(all, spans).conversation = all[Min(spans)].conversation
         /\ ReadRecord(all, spans).conversation \in DOMAIN holds
         /\ ReadRecord(all, spans).runs \in Ranges
         /\ ReadRecord(all, spans).flags \in SUBSET Flags
<1>1. PICK n : n = Len(all)
  OBVIOUS
<1>2. n \in Nat /\ DOMAIN all = 1..n /\ HaveSpans(all)
  BY <1>1, EntriesAre
<1>3. Min(spans) \in spans
  <2>1. spans \in SUBSET (1..n)
    BY <1>2
  <2> QED BY <1>2, <2>1, MinOfPositions
<1>4. all[Min(spans)].conversation \in DOMAIN holds
  <2>1. PICK entry : entry = all[Min(spans)]
    OBVIOUS
  <2>2. entry \in EntriesIn(holds, requests)
    BY <1>3, <2>1, EntriesAre
  <2>3. entry.conversation \in DOMAIN holds
    BY <2>2, EntryFieldsAre
  <2> QED BY <2>1, <2>3
<1>5. MessageRuns(all, spans) \in Ranges
  BY <1>2, MessageRunsAre
<1>6. UNION {all[i].flags : i \in spans} \in SUBSET Flags
  <2>1. \A i \in spans : all[i].flags \in SUBSET Flags
    <3> SUFFICES ASSUME NEW i \in spans PROVE all[i].flags \in SUBSET Flags
      OBVIOUS
    <3>1. PICK entry : entry = all[i]
      OBVIOUS
    <3>2. entry \in EntriesIn(holds, requests)
      BY <3>1, EntriesAre
    <3>3. entry.flags \in SUBSET Flags
      BY <3>2, EntryFieldsAre
    <3> QED BY <3>1, <3>3
  <2> QED BY <2>1
<1> QED BY <1>3, <1>4, <1>5, <1>6 DEF ReadRecord

LEMMA SpansAreNotEmpty ==
  ASSUME NEW n \in Nat, NEW all, DOMAIN all = 1..n, NEW chosen \in SUBSET DOMAIN all
  PROVE  /\ {} \notin OmittedSpans(all, chosen)
         /\ {} \notin HiddenRuns(all, chosen)
<1>1. {} \notin OmittedSpans(all, chosen)
  BY DEF OmittedSpans
<1>2. {} \notin ConversationRuns(all, chosen)
  <2> DEFINE run(j) ==
        {i \in chosen : \A k \in chosen : k \in Min({i, j})..Max({i, j}) =>
           all[k].conversation = all[j].conversation}
  <2>1. ASSUME NEW j \in chosen
        PROVE  j \in run(j)
    <3>1. j \in 1..n /\ {j, j} \in SUBSET (1..n) /\ {j, j} # {}
      OBVIOUS
    <3>2. PICK one : one = {j, j}
      OBVIOUS
    <3>3. one \in SUBSET (1..n) /\ one # {}
      BY <3>1, <3>2
    <3>4. Min(one) \in one
      BY <3>3, MinOfPositions
    <3>5. Max(one) \in one
      BY <3>3, MaxOfPositions
    <3>6. Min({j, j}) = j /\ Max({j, j}) = j
      BY <3>2, <3>4, <3>5
    <3>7. \A k \in chosen : k \in j..j => k = j
      BY <3>1
    <3>8. \A k \in chosen : k \in Min({j, j})..Max({j, j}) =>
            all[k].conversation = all[j].conversation
      BY <3>6, <3>7
    <3> QED BY <3>8
  <2>2. ConversationRuns(all, chosen) = {run(j) : j \in chosen}
    BY DEF ConversationRuns
  <2> HIDE DEF run
  <2> QED BY <2>1, <2>2
<1> QED BY <1>1, <1>2 DEF HiddenRuns

LEMMA IsCommand ==
  ASSUME NEW conversations, NEW requests \in Seq(Requests(conversations)),
         NEW flags \in SUBSET Flags, NEW lines \in {<<>>} \cup (Number \X Nat),
         lines # <<>> => reads_one_message(requests)
  PROVE  Command(requests, flags, lines, 0, <<>>) \in Commands(conversations)
<1>1. PICK command : command = Command(requests, flags, lines, 0, <<>>)
  OBVIOUS
<1>2. /\ command \in [requests : Seq(Requests(conversations)), flags : SUBSET Flags,
                      lines : {<<>>} \cup (Number \X Nat), tail : Nat,
                      focus : {<<>>} \cup (conversations \X Nat \X Nat)]
      /\ command.lines = lines /\ command.requests = requests
  BY <1>1 DEF Command
<1>3. command.lines # <<>> => reads_one_message(command.requests)
  BY <1>2
<1> QED BY <1>1, <1>2, <1>3 DEF Commands

LEMMA RangeCommandIs ==
  ASSUME NEW conversations, NEW record, record.conversation \in conversations,
         record.runs \in Ranges, record.flags \in SUBSET Flags
  PROVE  RangeCommand(record) \in Commands(conversations)
<1> DEFINE request(number) ==
             [conversation |-> record.conversation, range |-> record.runs[number],
              subagent |-> Session]
           requests == [number \in DOMAIN record.runs |-> request(number)]
<1>1. PICK runs : runs = record.runs
  OBVIOUS
<1>2. /\ Len(runs) \in Nat /\ DOMAIN runs = 1..Len(runs)
      /\ \A number \in DOMAIN runs : runs[number] \in Number \X Number
  <2>1. PICK n : n = Len(runs)
    OBVIOUS
  <2>2. n \in Nat /\ DOMAIN runs = 1..n /\ \A number \in 1..n : runs[number] \in Spans
    BY <1>1, <2>1 DEF Ranges
  <2>3. \A run \in Spans : run \in Number \X Number
    BY DEF Spans
  <2> QED BY <2>1, <2>2, <2>3
<1>3. \A number \in DOMAIN runs : request(number) \in Requests(conversations)
  BY <1>1, <1>2 DEF Requests, Session
<1>4. requests \in Seq(Requests(conversations))
  <2> HIDE DEF request
  <2> QED BY <1>1, <1>2, <1>3
<1>5. RangeCommand(record) = Command(requests, record.flags, <<>>, 0, <<>>)
  BY DEF RangeCommand
<1> HIDE DEF requests
<1> QED BY <1>4, <1>5, IsCommand

Shortenable(all, chosen) == {i \in chosen : ~all[i].is_hidden}

(* The entries of the read under way, and what an answer keeps of them.    *)
EntriesInv ==
  /\ transcript \in Transcripts
  /\ entries \in Seq(EntriesIn(transcript, read.requests))
  /\ selected \in SUBSET DOMAIN entries /\ truncated \in SUBSET selected

KeptInv == kept \in Bodies(entries, selected, Shortenable(entries, selected))

LEMMA RecordsAreCommands ==
  ASSUME EntriesInv
  PROVE  /\ \A record \in continuation_records(entries, selected) :
              RangeCommand(record) \in Commands(DOMAIN transcript)
         /\ Recipes \subseteq Commands(DOMAIN transcript)
<1>1. PICK holds, all, requests, chosen :
        /\ holds = transcript /\ all = entries /\ requests = read.requests
        /\ chosen = selected
  OBVIOUS
<1>2. all \in Seq(EntriesIn(holds, requests)) /\ chosen \in SUBSET DOMAIN all
  BY <1>1 DEF EntriesInv
<1>3. /\ OmittedSpans(all, chosen) \in SUBSET SUBSET DOMAIN all
      /\ HiddenRuns(all, chosen) \in SUBSET SUBSET DOMAIN all
  BY <1>2, GroupsAre
<1>4. {} \notin OmittedSpans(all, chosen) /\ {} \notin HiddenRuns(all, chosen)
  <2>1. PICK n : n = Len(all)
    OBVIOUS
  <2>2. n \in Nat /\ DOMAIN all = 1..n
    BY <1>2, <2>1
  <2> QED BY <1>2, <2>2, SpansAreNotEmpty
<1>5. ASSUME NEW spans \in SUBSET DOMAIN all, spans # {}
      PROVE  RangeCommand(ReadRecord(all, spans)) \in Commands(DOMAIN holds)
  <2>1. PICK record : record = ReadRecord(all, spans)
    OBVIOUS
  <2>2. record.conversation \in DOMAIN holds
    BY <1>2, <1>5, <2>1, ReadRecordIs
  <2>3. record.runs \in Ranges
    BY <1>2, <1>5, <2>1, ReadRecordIs
  <2>4. record.flags \in SUBSET Flags
    BY <1>2, <1>5, <2>1, ReadRecordIs
  <2>5. RangeCommand(record) \in Commands(DOMAIN holds)
    BY <2>2, <2>3, <2>4, RangeCommandIs
  <2> QED BY <2>1, <2>5
<1>6. \A record \in continuation_records(all, chosen) :
        RangeCommand(record) \in Commands(DOMAIN holds)
  BY <1>3, <1>4, <1>5 DEF continuation_records
<1>7. \A record \in recipes_showing_hidden_messages(all, chosen) :
        RangeCommand(record) \in Commands(DOMAIN holds)
  BY <1>3, <1>4, <1>5 DEF recipes_showing_hidden_messages
<1> QED BY <1>1, <1>6, <1>7 DEF Recipes

LEMMA ShortenedBodies ==
  ASSUME EntriesInv, KeptInv, NEW i \in selected, kept[i] # Whole
  PROVE  /\ entries[i] \in EntriesIn(transcript, read.requests)
         /\ kept[i] \in Nat /\ kept[i] < TextChars(entries[i])
         /\ ~entries[i].is_hidden
<1>1. i \in DOMAIN entries
  BY DEF EntriesInv
<1>2. entries \in Seq(EntriesIn(transcript, read.requests))
  BY DEF EntriesInv
<1>3. entries[i] \in EntriesIn(transcript, read.requests)
  BY <1>1, <1>2
<1>4. kept[i] \in Nat /\ kept[i] < TextChars(entries[i]) /\ ~entries[i].is_hidden
  BY DEF KeptInv, Bodies, Shortenable
<1> QED BY <1>3, <1>4

LEMMA LinesCommandIs ==
  ASSUME EntriesInv, KeptInv, NEW i \in selected, kept[i] # Whole
  PROVE  LinesCommand(i) \in Commands(DOMAIN transcript)
<1>1. PICK entry, left : entry = entries[i] /\ left = kept[i]
  OBVIOUS
<1>2. /\ entry \in EntriesIn(transcript, read.requests) /\ ~entry.is_hidden
      /\ left \in Nat /\ left < TextChars(entry)
  BY <1>1, ShortenedBodies
<1>3. reread_lines(entry, left) \in Number \X Nat
  <2>1. transcript \in Transcripts
    BY DEF EntriesInv
  <2> QED BY <1>2, <2>1, RereadLinesAre
<1>4. /\ entry.conversation \in DOMAIN transcript /\ entry.first \in Number
      /\ entry.flags \in SUBSET Flags
  BY <1>2, EntryFieldsAre
<1>5. PICK request : request = [conversation |-> entry.conversation,
                                range |-> <<entry.first, entry.first>>,
                                subagent |-> Session]
  OBVIOUS
<1>6. request \in Requests(DOMAIN transcript)
  BY <1>4, <1>5 DEF Requests, Session
<1>7. <<request>> \in Seq(Requests(DOMAIN transcript))
  BY <1>6
<1>8. LinesCommand(i) = Command(<<request>>, entry.flags, reread_lines(entry, left), 0, <<>>)
  BY <1>1, <1>5 DEF LinesCommand
<1>9. reads_one_message(<<request>>)
  <2>1. request.range = <<entry.first, entry.first>>
    BY <1>5
  <2>2. IsSingle(request)
    BY <2>1 DEF IsSingle
  <2>3. Len(<<request>>) = 1 /\ <<request>>[1] = request
    OBVIOUS
  <2> QED BY <2>2, <2>3 DEF reads_one_message
<1> QED BY <1>3, <1>4, <1>7, <1>8, <1>9, IsCommand

LEMMA ContinuationsAreCommands ==
  ASSUME EntriesInv, KeptInv
  PROVE  Continuations \subseteq Commands(DOMAIN transcript)
  BY RecordsAreCommands, LinesCommandIs DEF Continuations

-----------------------------------------------------------------------------
(* The types, at every step.                                               *)

Fitted == {"omit", "answer", "refused"}

Tails(all) ==
  [left : SUBSET DOMAIN all, stopped : SUBSET {all[i].request : i \in DOMAIN all}]

(* The invariant behind the types.  The entries are those of the command   *)
(* under way, in the sessions as they are; what is kept of their bodies is *)
(* of the entries selected; and every command left to run is well formed.  *)
TypeInv ==
  /\ warning \in Nat /\ budget \in Nat
  /\ todo \in SUBSET Commands(DOMAIN transcript)
  /\ step \in {"idle", "grow", "tail", "fit", "omit", "answer", "refused",
               "out_of_range"}
  /\ step = "idle" => entries = <<>>
  /\ step # "idle" => read \in todo
  /\ EntriesInv
  /\ IF step \in Fitted THEN KeptInv ELSE kept = <<>>
  /\ tail \in Tails(entries)

LEMMA NothingIsRead ==
  ASSUME transcript \in Transcripts, entries = <<>>, selected = {}, truncated = {}
  PROVE  EntriesInv
  BY DEF EntriesInv

LEMMA TypeInit == Init => TypeInv
<1> SUFFICES ASSUME Init PROVE TypeInv
  OBVIOUS
<1>1. transcript \in Transcripts /\ entries = <<>> /\ selected = {} /\ truncated = {}
  BY DEF Init
<1>2. EntriesInv
  BY <1>1, NothingIsRead
<1>3. todo \in SUBSET Commands(DOMAIN transcript)
  BY <1>1, ConversationsAre DEF Init
<1>4. warning \in Nat /\ budget \in Nat
  BY BudgetsAssumption DEF Init
<1>5. step = "idle" /\ kept = <<>> /\ tail = [left |-> {}, stopped |-> {}]
  BY DEF Init, NoTail
<1>6. tail \in Tails(entries)
  BY <1>5 DEF Tails
<1> QED BY <1>1, <1>2, <1>3, <1>4, <1>5, <1>6 DEF TypeInv, Fitted

LEMMA TypeBegin == TypeInv /\ Begin => TypeInv'
<1> SUFFICES ASSUME TypeInv, Begin PROVE TypeInv'
  OBVIOUS
<1>0. /\ UNCHANGED <<transcript, warning, budget, todo, kept>>
      /\ step = "idle"
  BY DEF Begin
<1>1. PICK command \in todo :
       /\ read' = command
       /\ \/ /\ step' = "out_of_range"
             /\ UNCHANGED <<entries, selected, truncated, tail>>
          \/ LET all == EntriesOf(command)
                 focus == focused_indices(command, all)
                 first == IF focus = {} /\ all # <<>> THEN {1} ELSE focus
             IN  /\ ~IsOutOfRange(command)
                 /\ entries' = all
                 /\ \/ /\ selected' = DOMAIN all /\ truncated' = {}
                       /\ step' = "fit" /\ tail' = NoTail
                    \/ /\ selected' = {} /\ truncated' = {}
                       /\ step' = "tail"
                       /\ tail' = [left |-> DOMAIN all, stopped |-> {}]
                    \/ /\ selected' = first /\ truncated' \subseteq first
                       /\ step' = "grow" /\ tail' = NoTail
  BY DEF Begin
<1>2. /\ transcript \in Transcripts /\ warning \in Nat /\ budget \in Nat
      /\ todo \in SUBSET Commands(DOMAIN transcript) /\ kept = <<>>
      /\ entries = <<>>
  BY <1>0 DEF TypeInv, EntriesInv, Fitted
<1>3. CASE /\ step' = "out_of_range"
           /\ UNCHANGED <<entries, selected, truncated, tail>>
  <2>1. EntriesInv'
    BY <1>0, <1>2, <1>3 DEF TypeInv, EntriesInv
  <2>2. tail' \in Tails(entries')
    BY <1>3 DEF TypeInv
  <2> QED BY <1>0, <1>1, <1>2, <1>3, <2>1, <2>2 DEF TypeInv, Fitted
<1>4. CASE /\ ~IsOutOfRange(command)
           /\ entries' = EntriesOf(command)
           /\ LET all == EntriesOf(command)
                  focus == focused_indices(command, all)
                  first == IF focus = {} /\ all # <<>> THEN {1} ELSE focus
              IN  \/ /\ selected' = DOMAIN all /\ truncated' = {}
                     /\ step' = "fit" /\ tail' = NoTail
                  \/ /\ selected' = {} /\ truncated' = {}
                     /\ step' = "tail"
                     /\ tail' = [left |-> DOMAIN all, stopped |-> {}]
                  \/ /\ selected' = first /\ truncated' \subseteq first
                     /\ step' = "grow" /\ tail' = NoTail
  <2>1. PICK all : all = EntriesOf(command)
    OBVIOUS
  <2>2. all \in Seq(EntriesIn(transcript, command.requests))
    BY <1>2, <1>4, <2>1, EntriesOfAre
  <2>3. focused_indices(command, all) \subseteq DOMAIN all
    BY DEF focused_indices
  <2>4. all # <<>> => 1 \in DOMAIN all
    BY <2>2
  <2>5. /\ selected' \in SUBSET DOMAIN all /\ truncated' \in SUBSET selected'
        /\ step' \in {"fit", "tail", "grow"}
        /\ tail' = NoTail \/ tail' = [left |-> DOMAIN all, stopped |-> {}]
    BY <1>4, <2>1, <2>3, <2>4
  <2>6. EntriesInv'
    BY <1>0, <1>1, <1>2, <1>4, <2>1, <2>2, <2>5 DEF EntriesInv
  <2>7. tail' \in Tails(entries')
    BY <1>4, <2>1, <2>5 DEF Tails, NoTail
  <2> QED BY <1>0, <1>1, <1>2, <2>5, <2>6, <2>7 DEF TypeInv, Fitted
<1> QED BY <1>1, <1>3, <1>4

(* Steps that leave the command and its entries.                           *)
LEMMA TypeStays ==
  ASSUME TypeInv, UNCHANGED <<transcript, warning, budget, todo, read, entries>>,
         step \in {"grow", "tail", "fit", "omit"},
         step' \in {"grow", "tail", "fit", "omit", "answer", "refused"},
         selected' \in SUBSET DOMAIN entries, truncated' \in SUBSET selected',
         IF step' \in Fitted THEN KeptInv' ELSE kept' = <<>>,
         tail' \in Tails(entries)
  PROVE  TypeInv'
<1>1. EntriesInv'
  BY DEF TypeInv, EntriesInv
<1> QED BY <1>1 DEF TypeInv, Fitted

LEMMA TypeGrow == TypeInv /\ Grow => TypeInv'
<1> SUFFICES ASSUME TypeInv, Grow PROVE TypeInv'
  OBVIOUS
<1>1. /\ UNCHANGED <<transcript, warning, budget, todo, read, entries, kept, tail>>
      /\ step = "grow" /\ step' \in {"grow", "fit"}
  BY DEF Grow
<1>2. /\ kept = <<>> /\ tail \in Tails(entries)
      /\ selected \in SUBSET DOMAIN entries /\ truncated \in SUBSET selected
  BY <1>1 DEF TypeInv, EntriesInv, Fitted
<1> DEFINE Chosen == {selection \in [selected : SUBSET DOMAIN entries,
                                     truncated : SUBSET DOMAIN entries] :
                        selection.truncated \subseteq selection.selected}
           before == [selected |-> selected, truncated |-> truncated]
<1>3. before \in Chosen
  BY <1>2
<1>4. ASSUME NEW selection \in Chosen, NEW candidate
      PROVE  try_add(selection, candidate) \in Chosen
  <2>1. PICK some, few : /\ selection = [selected |-> some, truncated |-> few]
                         /\ some \in SUBSET DOMAIN entries /\ few \in SUBSET some
    <3>1. selection = [selected |-> selection.selected,
                       truncated |-> selection.truncated]
      OBVIOUS
    <3> QED BY <3>1
  <2>2. [selection EXCEPT !.selected = @ \cup {candidate}]
          = [selected |-> some \cup {candidate}, truncated |-> few]
    BY <2>1
  <2>3. [[selected |-> some \cup {candidate}, truncated |-> few]
           EXCEPT !.truncated = @ \cup {candidate}]
          = [selected |-> some \cup {candidate}, truncated |-> few \cup {candidate}]
    OBVIOUS
  <2>4. \/ try_add(selection, candidate) = selection
        \/ /\ candidate \in DOMAIN entries
           /\ \/ try_add(selection, candidate)
                   = [selected |-> some \cup {candidate}, truncated |-> few]
              \/ try_add(selection, candidate)
                   = [selected |-> some \cup {candidate},
                      truncated |-> few \cup {candidate}]
    BY <2>2, <2>3 DEF try_add
  <2> QED BY <2>1, <2>4
<1>5. \E grown \in Chosen : selected' = grown.selected /\ truncated' = grown.truncated
  <2> HIDE DEF Chosen, before
  <2>1. PICK head, grown :
          /\ head = (IF selected = {} THEN before
                     ELSE try_add(before, Min(selected) - 1))
          /\ grown = (IF selected = {} THEN head
                      ELSE try_add(head, Max(head.selected) + 1))
          /\ selected' = grown.selected /\ truncated' = grown.truncated
    BY DEF Grow, before
  <2>2. head \in Chosen
    BY <2>1, <1>3, <1>4
  <2>3. grown \in Chosen
    BY <2>1, <2>2, <1>4
  <2> QED BY <2>1, <2>3
<1>6. selected' \in SUBSET DOMAIN entries /\ truncated' \in SUBSET selected'
  BY <1>5
<1> QED BY <1>1, <1>2, <1>6, TypeStays DEF Fitted

LEMMA TypeKeepTail == TypeInv /\ KeepTail => TypeInv'
<1> SUFFICES ASSUME TypeInv, KeepTail PROVE TypeInv'
  OBVIOUS
<1>1. /\ UNCHANGED <<transcript, warning, budget, todo, read, entries, kept, step>>
      /\ step = "tail"
  BY DEF KeepTail
<1>2. /\ kept = <<>> /\ tail \in Tails(entries)
      /\ selected \in SUBSET DOMAIN entries /\ truncated \in SUBSET selected
  BY <1>1 DEF TypeInv, EntriesInv, Fitted
<1>3. PICK entry \in KeptFirst(entries, tail.left) :
        \/ /\ tail' = [tail EXCEPT !.left = @ \ {entry}]
           /\ selected' = selected /\ truncated' = truncated
        \/ /\ tail' = [tail EXCEPT !.left = @ \ {entry}]
           /\ selected' = selected \cup {entry}
           /\ truncated' = truncated \/ truncated' = truncated \cup {entry}
        \/ /\ tail' = [left |-> tail.left \ {entry},
                       stopped |-> tail.stopped \cup {entries[entry].request}]
           /\ selected' = selected /\ truncated' = truncated
  BY DEF KeepTail
<1>4. entry \in DOMAIN entries
  BY <1>2 DEF KeptFirst, Tails
<1>5. selected' \in SUBSET DOMAIN entries /\ truncated' \in SUBSET selected'
  BY <1>2, <1>3, <1>4
<1>6. tail' \in Tails(entries)
  <2>1. PICK left, stopped :
          /\ tail = [left |-> left, stopped |-> stopped]
          /\ left \in SUBSET DOMAIN entries
          /\ stopped \in SUBSET {entries[i].request : i \in DOMAIN entries}
    <3>1. tail = [left |-> tail.left, stopped |-> tail.stopped]
      BY <1>2 DEF Tails
    <3> QED BY <1>2, <3>1 DEF Tails
  <2>2. [tail EXCEPT !.left = @ \ {entry}] = [left |-> left \ {entry}, stopped |-> stopped]
    BY <2>1
  <2>3. \/ tail' = [left |-> left \ {entry}, stopped |-> stopped]
        \/ tail' = [left |-> left \ {entry},
                    stopped |-> stopped \cup {entries[entry].request}]
    BY <1>3, <2>1, <2>2
  <2>4. stopped \cup {entries[entry].request}
          \in SUBSET {entries[i].request : i \in DOMAIN entries}
    BY <1>4, <2>1
  <2> QED BY <2>1, <2>3, <2>4 DEF Tails
<1> QED BY <1>1, <1>2, <1>5, <1>6, TypeStays DEF Fitted

LEMMA TypeEndTail == TypeInv /\ EndTail => TypeInv'
<1> SUFFICES ASSUME TypeInv, EndTail PROVE TypeInv'
  OBVIOUS
<1>1. /\ UNCHANGED <<transcript, warning, budget, todo, read, entries, kept, tail,
                     selected, truncated>>
      /\ step = "tail" /\ step' = "fit"
  BY DEF EndTail
<1>2. /\ kept = <<>> /\ tail \in Tails(entries)
      /\ selected \in SUBSET DOMAIN entries /\ truncated \in SUBSET selected
  BY <1>1 DEF TypeInv, EntriesInv, Fitted
<1> QED BY <1>1, <1>2, TypeStays DEF Fitted

(* The bodies fitted are of the entries that are left.                     *)
LEMMA FittedBodiesAre ==
  ASSUME TypeInv, NEW chosen \in SUBSET DOMAIN entries, NEW shortened
  PROVE  FittedBodies(chosen, shortened)
           \in Bodies(entries, chosen, Shortenable(entries, chosen))
<1>1. PICK all, holds, requests :
        /\ all = entries /\ holds = transcript /\ requests = read.requests
  OBVIOUS
<1>2. all \in Seq(EntriesIn(holds, requests)) /\ chosen \in SUBSET DOMAIN all
  BY <1>1 DEF TypeInv, EntriesInv
<1>3. PICK limit : limit = budget_beside_warnings
  OBVIOUS
<1>4. limit \in Nat
  <2>1. budget \in Int /\ warning \in Int
    BY DEF TypeInv
  <2> QED BY <1>3, <2>1, MonusIs DEF budget_beside_warnings
<1>5. fit_bodies(all, chosen, shortened, limit)
        \in Bodies(all, chosen, Truncatable(all, chosen, shortened))
  BY <1>2, <1>4, FitBodiesIs
<1>6. Bodies(all, chosen, Truncatable(all, chosen, shortened))
        \subseteq Bodies(all, chosen, Shortenable(all, chosen))
  BY DEF Bodies, Truncatable, Shortenable
<1> QED BY <1>1, <1>3, <1>5, <1>6 DEF FittedBodies

LEMMA TypeFit == TypeInv /\ Fit => TypeInv'
<1> SUFFICES ASSUME TypeInv, Fit PROVE TypeInv'
  OBVIOUS
<1>1. /\ UNCHANGED <<transcript, warning, budget, todo, read, entries, tail>>
      /\ step = "fit" /\ step' \in {"answer", "omit"}
  BY DEF Fit
<1>2. /\ tail \in Tails(entries)
      /\ selected \in SUBSET DOMAIN entries /\ truncated \in SUBSET selected
  BY <1>1 DEF TypeInv, EntriesInv
<1>3. /\ selected' \in SUBSET selected /\ truncated' \in SUBSET selected'
      /\ kept' = FittedBodies(selected', truncated')
  BY <1>2 DEF Fit
<1>4. kept' \in Bodies(entries, selected', Shortenable(entries, selected'))
  BY <1>2, <1>3, FittedBodiesAre
<1>5. KeptInv'
  BY <1>1, <1>4 DEF KeptInv
<1> QED BY <1>1, <1>2, <1>3, <1>5, TypeStays DEF Fitted

LEMMA TypeOmitNext == TypeInv /\ OmitNext => TypeInv'
<1> SUFFICES ASSUME TypeInv, OmitNext PROVE TypeInv'
  OBVIOUS
<1>1. /\ UNCHANGED <<transcript, warning, budget, todo, read, entries, tail>>
      /\ step = "omit" /\ step' \in {"answer", "omit", "refused"}
  BY DEF OmitNext
<1>2. /\ tail \in Tails(entries) /\ KeptInv
      /\ selected \in SUBSET DOMAIN entries /\ truncated \in SUBSET selected
  BY <1>1 DEF TypeInv, EntriesInv, Fitted
<1>3. \/ UNCHANGED <<selected, truncated, kept>>
      \/ /\ selected' \in SUBSET selected /\ truncated' = selected'
         /\ kept' = FittedBodies(selected', truncated')
  BY DEF OmitNext
<1>4. CASE UNCHANGED <<selected, truncated, kept>>
  <2>1. KeptInv'
    BY <1>1, <1>2, <1>4 DEF KeptInv
  <2> QED BY <1>1, <1>2, <1>4, <2>1, TypeStays DEF Fitted
<1>5. CASE /\ selected' \in SUBSET selected /\ truncated' = selected'
           /\ kept' = FittedBodies(selected', truncated')
  <2>1. kept' \in Bodies(entries, selected', Shortenable(entries, selected'))
    BY <1>2, <1>5, FittedBodiesAre
  <2>2. KeptInv'
    BY <1>1, <2>1 DEF KeptInv
  <2> QED BY <1>1, <1>2, <1>5, <2>2, TypeStays DEF Fitted
<1> QED BY <1>3, <1>4, <1>5

LEMMA MinOfTwo ==
  ASSUME NEW a \in Nat, NEW b \in Nat
  PROVE  Min({a, b}) \in Nat
<1>1. \E x \in {a, b} : \A y \in {a, b} : x <= y
  OBVIOUS
<1>2. Min({a, b}) \in {a, b}
  BY <1>1 DEF Min
<1> QED BY <1>2

LEMMA TypeAgent == TypeInv /\ (Follow \/ Refused) => TypeInv'
<1> SUFFICES ASSUME TypeInv, Follow \/ Refused PROVE TypeInv'
  OBVIOUS
<1>1. /\ UNCHANGED <<transcript, warning>> /\ Idle
      /\ step \in {"answer", "refused"}
      /\ todo' \subseteq todo \/ (step = "answer"
           /\ todo' \subseteq todo \cup Continuations \cup Recipes)
      /\ budget' = budget \/ RaiseBudget
  BY DEF Follow, Refused
<1>2. EntriesInv /\ KeptInv /\ budget \in Nat /\ warning \in Nat
      /\ todo \in SUBSET Commands(DOMAIN transcript)
  BY <1>1 DEF TypeInv, Fitted
<1>3. todo' \in SUBSET Commands(DOMAIN transcript)
  <2>1. Continuations \subseteq Commands(DOMAIN transcript)
    BY <1>2, ContinuationsAreCommands
  <2>2. Recipes \subseteq Commands(DOMAIN transcript)
    BY <1>2, RecordsAreCommands
  <2> QED BY <1>1, <1>2, <2>1, <2>2
<1>4. budget' \in Nat
  <2>1. CASE budget' = budget
    BY <1>2, <2>1
  <2>2. CASE RaiseBudget
    <3>1. PICK a, b : a = budget + BudgetStep /\ b = MaxBudget
      OBVIOUS
    <3>2. a \in Nat /\ b \in Nat
      BY <1>2, <3>1, BudgetsAssumption
    <3>3. Min({a, b}) \in Nat
      BY <3>2, MinOfTwo
    <3> QED BY <2>2, <3>1, <3>3 DEF RaiseBudget
  <2> QED BY <1>1, <2>1, <2>2
<1>5. /\ step' = "idle" /\ entries' = <<>> /\ selected' = {} /\ truncated' = {}
      /\ kept' = <<>> /\ tail' = [left |-> {}, stopped |-> {}]
  BY <1>1 DEF Idle, NoTail
<1>6. EntriesInv'
  BY <1>1, <1>2, <1>5 DEF EntriesInv
<1>7. tail' \in Tails(entries')
  BY <1>5 DEF Tails
<1> QED BY <1>1, <1>2, <1>3, <1>4, <1>5, <1>6, <1>7 DEF TypeInv, Fitted

LEMMA TypeStep == TypeInv /\ [Next]_vars => TypeInv'
<1> SUFFICES ASSUME TypeInv, [Next]_vars PROVE TypeInv'
  OBVIOUS
<1>1. CASE UNCHANGED vars
  BY <1>1 DEF vars, TypeInv, EntriesInv, KeptInv
<1> QED BY <1>1, TypeBegin, TypeGrow, TypeKeepTail, TypeEndTail, TypeFit,
           TypeOmitNext, TypeAgent DEF Next, Stop

LEMMA TypeHolds == Spec => []TypeInv
  BY TypeInit, TypeStep, PTL DEF Spec

LEMMA TypeIsASequence == TypeInv => EntriesAreASequence
  BY DEF TypeInv, EntriesInv, EntriesAreASequence

-----------------------------------------------------------------------------
(* What an answer holds, and what it names.                                *)

(* An answer is what its command fitted to the budget.                     *)
WithinBudget == step = "answer" => ~IsOverBudget(selected, kept)

LEMMA WithinBudgetStep == WithinBudget /\ [Next]_vars => WithinBudget'
<1> SUFFICES ASSUME WithinBudget, [Next]_vars, step' = "answer"
             PROVE  ~IsOverBudget(selected, kept)'
  BY DEF WithinBudget
<1>1. CASE UNCHANGED vars
  BY <1>1 DEF vars, WithinBudget, IsOverBudget, OutputChars, budget_beside_warnings
<1>2. CASE Fit
  <2>1. /\ UNCHANGED <<entries, budget, warning, selected>>
        /\ ~IsOverBudget(selected, kept')
    BY <1>2 DEF Fit
  <2> QED BY <2>1 DEF IsOverBudget, OutputChars, budget_beside_warnings
<1>3. CASE OmitNext
  <2>1. /\ UNCHANGED <<entries, budget, warning, selected, kept>>
        /\ ~IsOverBudget(selected, kept)
    BY <1>3 DEF OmitNext
  <2> QED BY <2>1 DEF IsOverBudget, OutputChars, budget_beside_warnings
<1>4. CASE Begin \/ Grow \/ KeepTail \/ EndTail \/ Follow \/ Refused
  BY <1>4 DEF Begin, Grow, KeepTail, EndTail, Follow, Refused, Idle
<1>5. CASE Stop
  BY <1>1, <1>5 DEF Stop
<1> QED BY <1>1, <1>2, <1>3, <1>4, <1>5 DEF Next

LEMMA AnswersAreTyped ==
  ASSUME TypeInv, step = "answer"
  PROVE  EntriesInv /\ KeptInv /\ budget \in Nat /\ warning \in Nat
  BY DEF TypeInv, Fitted

LEMMA OutputIsCounted ==
  ASSUME EntriesInv, KeptInv
  PROVE  OutputChars(selected, kept) \in Nat /\ OutputChars(selected, kept) > 0
<1>1. PICK holds, requests, all, chosen, bodies :
        /\ holds = transcript /\ requests = read.requests /\ all = entries
        /\ chosen = selected /\ bodies = kept
  OBVIOUS
<1>2. /\ all \in Seq(EntriesIn(holds, requests)) /\ chosen \in SUBSET DOMAIN all
  BY <1>1 DEF EntriesInv
<1>3. bodies \in [chosen -> Nat \cup {Whole, Emptied}]
  <2>1. bodies \in [chosen -> Nat \cup {Whole}]
    BY <1>1 DEF KeptInv, Bodies
  <2> QED BY <2>1
<1>4. PICK is_cut : is_cut = (\E i \in chosen : bodies[i] # Whole)
  OBVIOUS
<1>5. rendered_chars(all, chosen, bodies, is_cut) \in Nat
  BY <1>2, <1>3, RenderedIs
<1>6. rendered_chars(all, chosen, bodies, is_cut) > 0
  BY <1>2, <1>3, RenderedIs
<1>7. OutputChars(selected, kept) = rendered_chars(all, chosen, bodies, is_cut)
  BY <1>1, <1>4 DEF OutputChars
<1> QED BY <1>5, <1>6, <1>7

LEMMA WithinBudgetKeeps == TypeInv /\ WithinBudget => KeepsToItsBudget
<1> SUFFICES ASSUME TypeInv, WithinBudget, step = "answer"
             PROVE  OutputChars(selected, kept) + warning <= budget
  BY DEF KeepsToItsBudget
<1>1. EntriesInv /\ KeptInv /\ budget \in Nat /\ warning \in Nat
  BY AnswersAreTyped
<1>2. PICK chars : chars = OutputChars(selected, kept)
  OBVIOUS
<1>3. chars \in Nat /\ chars > 0
  BY <1>1, <1>2, OutputIsCounted
<1>4. PICK limit : limit = Monus(budget, warning)
  OBVIOUS
<1>5. limit \in Nat /\ limit = IF budget >= warning THEN budget - warning ELSE 0
  <2>1. budget \in Int /\ warning \in Int
    BY <1>1
  <2>2. Monus(budget, warning) \in Nat
    BY <2>1, MonusIs
  <2>3. Monus(budget, warning) = IF budget >= warning THEN budget - warning ELSE 0
    BY <2>1, MonusIs
  <2> QED BY <1>4, <2>2, <2>3
<1>6. ~(chars > limit)
  BY <1>2, <1>4 DEF WithinBudget, IsOverBudget, budget_beside_warnings
<1>7. chars + warning <= budget
  BY <1>1, <1>3, <1>5, <1>6
<1> QED BY <1>2, <1>7

LEMMA LimitIs ==
  ASSUME budget \in Nat, warning \in Nat
  PROVE  budget_beside_warnings \in Nat
<1>1. budget \in Int /\ warning \in Int
  OBVIOUS
<1> QED BY <1>1, MonusIs DEF budget_beside_warnings

(* What is kept of the bodies is what fits, of the entries as they are.    *)
KeepsWhatFits ==
  step \in {"omit", "answer"} => kept = FittedBodies(selected, truncated)

LEMMA KeepsWhatFitsStep == KeepsWhatFits /\ [Next]_vars => KeepsWhatFits'
<1> SUFFICES ASSUME KeepsWhatFits, [Next]_vars, step' \in {"omit", "answer"}
             PROVE  (kept = FittedBodies(selected, truncated))'
  BY DEF KeepsWhatFits
<1>1. CASE UNCHANGED vars
  BY <1>1 DEF vars, KeepsWhatFits, FittedBodies, budget_beside_warnings
<1>2. CASE Fit
  <2>1. /\ UNCHANGED <<entries, budget, warning>>
        /\ kept' = FittedBodies(selected', truncated')
    BY <1>2 DEF Fit
  <2> QED BY <2>1 DEF FittedBodies, budget_beside_warnings
<1>3. CASE OmitNext
  <2>1. UNCHANGED <<entries, budget, warning>> /\ step = "omit"
    BY <1>3 DEF OmitNext
  <2>2. \/ UNCHANGED <<selected, truncated, kept>>
        \/ kept' = FittedBodies(selected', truncated')
    BY <1>3 DEF OmitNext
  <2> QED BY <2>1, <2>2 DEF KeepsWhatFits, FittedBodies, budget_beside_warnings
<1>4. CASE Begin \/ Grow \/ KeepTail \/ EndTail \/ Follow \/ Refused
  BY <1>4 DEF Begin, Grow, KeepTail, EndTail, Follow, Refused, Idle
<1>5. CASE Stop
  BY <1>1, <1>5 DEF Stop
<1> QED BY <1>1, <1>2, <1>3, <1>4, <1>5 DEF Next

LEMMA FittedSharesTheRoom == TypeInv /\ KeepsWhatFits => SharesTheRoom
<1> SUFFICES ASSUME TypeInv, KeepsWhatFits, step = "answer", FloorsFitNow,
                    NEW i \in selected, kept[i] # Whole
             PROVE  HasShare(entries[i], EvenShare, kept[i])
  BY DEF SharesTheRoom
<1>1. PICK holds, requests, all, chosen, shortened, bodies, limit :
        /\ holds = transcript /\ requests = read.requests /\ all = entries
        /\ chosen = selected /\ shortened = truncated /\ bodies = kept
        /\ limit = budget_beside_warnings
  OBVIOUS
<1>2. EntriesInv /\ budget \in Nat /\ warning \in Nat
  BY AnswersAreTyped
<1>3. /\ all \in Seq(EntriesIn(holds, requests)) /\ chosen \in SUBSET DOMAIN all
      /\ shortened \in SUBSET chosen /\ i \in chosen /\ bodies[i] # Whole
  BY <1>1, <1>2 DEF EntriesInv
<1>4. limit \in Nat
  BY <1>1, <1>2, LimitIs
<1>5. bodies = fit_bodies(all, chosen, shortened, limit)
  BY <1>1 DEF KeepsWhatFits, FittedBodies
<1>6. FloorsFit(all, chosen, shortened, limit)
  BY <1>1 DEF FloorsFitNow
<1>7. HasShare(all[i], ExtraRoom(all, chosen, shortened, limit)
                 \div Cardinality(Truncatable(all, chosen, shortened)), bodies[i])
  BY <1>3, <1>4, <1>5, <1>6, SharesAreEven
<1> QED BY <1>1, <1>7 DEF EvenShare

LEMMA FloorsLeaveRoom == TypeInv => FitsAtItsFloors
<1> SUFFICES ASSUME TypeInv, FloorsFitNow
             PROVE  ~IsOverBudget(selected, FittedBodies(selected, truncated))
  BY DEF FitsAtItsFloors
<1>1. PICK holds, requests, all, chosen, shortened, bodies, limit, is_body_cut :
        /\ holds = transcript /\ requests = read.requests /\ all = entries
        /\ chosen = selected /\ shortened = truncated
        /\ bodies = FittedBodies(selected, truncated)
        /\ limit = budget_beside_warnings
        /\ is_body_cut = (\E i \in chosen : bodies[i] # Whole)
  OBVIOUS
<1>2. EntriesInv /\ budget \in Nat /\ warning \in Nat
  BY DEF TypeInv
<1>3. /\ all \in Seq(EntriesIn(holds, requests)) /\ chosen \in SUBSET DOMAIN all
      /\ shortened \in SUBSET chosen
  BY <1>1, <1>2 DEF EntriesInv
<1>4. limit \in Nat
  BY <1>1, <1>2, LimitIs
<1>5. bodies = fit_bodies(all, chosen, shortened, limit)
  BY <1>1 DEF FittedBodies
<1>6. FloorsFit(all, chosen, shortened, limit)
  BY <1>1 DEF FloorsFitNow
<1>7. is_body_cut \in BOOLEAN /\ (is_body_cut => \E i \in chosen : bodies[i] # Whole)
  BY <1>1
<1>8. rendered_chars(all, chosen, bodies, is_body_cut) <= limit
  BY <1>3, <1>4, <1>5, <1>6, <1>7, FittedWithinLimit
<1>9. PICK chars : chars = rendered_chars(all, chosen, bodies, is_body_cut)
  OBVIOUS
<1>10. chars \in Nat
  <2>1. bodies \in Bodies(all, chosen, Truncatable(all, chosen, shortened))
    BY <1>3, <1>4, <1>5, FitBodiesIs
  <2>2. bodies \in [chosen -> Nat \cup {Whole, Emptied}]
    BY <2>1 DEF Bodies
  <2> QED BY <1>3, <1>9, <2>2, RenderedIs
<1>11. ~(chars > limit)
  BY <1>4, <1>8, <1>9, <1>10
<1>12. OutputChars(chosen, bodies) = chars
  BY <1>1, <1>9 DEF OutputChars
<1> QED BY <1>1, <1>11, <1>12 DEF IsOverBudget

(* The entries of a conversation left out are in the record that names it. *)
LEMMA OmittedIsNamed ==
  ASSUME EntriesInv, NEW i \in Omitted(entries, selected),
         NEW ordinal \in entries[i].first..entries[i].last
  PROVE  \E record \in continuation_records(entries, selected) :
           Names(record, entries[i].conversation, ordinal, entries[i].flags)
<1>1. PICK holds, requests, all, chosen :
        /\ holds = transcript /\ requests = read.requests /\ all = entries
        /\ chosen = selected
  OBVIOUS
<1>2. /\ all \in Seq(EntriesIn(holds, requests)) /\ chosen \in SUBSET DOMAIN all
      /\ i \in Omitted(all, chosen) /\ i \in DOMAIN all
  BY <1>1 DEF EntriesInv, Omitted
<1>3. PICK spans : spans = {k \in Omitted(all, chosen) :
                              all[k].conversation = all[i].conversation}
  OBVIOUS
<1>4. i \in spans /\ spans \in SUBSET DOMAIN all /\ spans # {}
  BY <1>2, <1>3 DEF Omitted
<1>5. spans \in OmittedSpans(all, chosen)
  BY <1>2, <1>3 DEF OmittedSpans
<1>6. PICK record : record = ReadRecord(all, spans)
  OBVIOUS
<1>7. record \in continuation_records(all, chosen)
  BY <1>5, <1>6 DEF continuation_records
<1>8. record.conversation = all[i].conversation
  <2>1. Min(spans) \in spans
    BY <1>2, <1>4, ReadRecordIs
  <2>2. record.conversation = all[Min(spans)].conversation
    BY <1>6 DEF ReadRecord
  <2> QED BY <1>3, <2>1, <2>2
<1>9. all[i].flags \subseteq record.flags
  BY <1>4, <1>6 DEF ReadRecord
<1>10. \E run \in ToSet(record.runs) : ordinal \in run[1]..run[2]
  <2>1. PICK n : n = Len(all)
    OBVIOUS
  <2>2. n \in Nat /\ DOMAIN all = 1..n /\ HaveSpans(all)
    BY <1>2, <2>1, EntriesAre
  <2>3. PICK runs : runs = MessageRuns(all, spans)
    OBVIOUS
  <2>4. \A j \in spans : \A number \in all[j].first..all[j].last :
              IsIn(number, MessageRuns(all, spans))
    BY <1>4, <2>2, MessageRunsAre
  <2>5. IsIn(ordinal, runs)
    BY <1>1, <1>4, <2>3, <2>4
  <2>6. record.runs = runs
    BY <1>6, <2>3 DEF ReadRecord
  <2>7. \A place \in DOMAIN runs : runs[place] \in ToSet(runs)
    BY DEF ToSet
  <2> QED BY <2>5, <2>6, <2>7 DEF IsIn
<1>11. Names(record, all[i].conversation, ordinal, all[i].flags)
  BY <1>8, <1>9, <1>10 DEF Names
<1> QED BY <1>1, <1>7, <1>11

(* A line of a shortened body is printed, or among those to read again.    *)
LEMMA LinesAreNamed ==
  ASSUME EntriesInv, KeptInv, NEW i \in selected, kept[i] # Whole
  PROVE  LET lines == reread_lines(entries[i], kept[i])
             all == requested_messages(LinesCommand(i).requests[1],
                      transcript[entries[i].conversation])
             whole == Content(Blocks(transcript[entries[i].conversation][Min(all)],
                        entries[i].flags, command_lines(LinesCommand(i).requests)))
         IN  ToSet(entries[i].content) \subseteq
               {line[3] : line \in ShownBy(i)}
                 \cup {whole[line] : line \in lines[1]..lines[2]}
<1>1. PICK entry, left, holds :
        entry = entries[i] /\ left = kept[i] /\ holds = transcript
  OBVIOUS
<1>2. /\ entry \in EntriesIn(holds, read.requests)
      /\ left \in Nat /\ left < TextChars(entry) /\ ~entry.is_hidden
  BY <1>1, ShortenedBodies
<1>3. PICK messages : messages = holds[entry.conversation]
  OBVIOUS
<1>4. PICK lines : lines = reread_lines(entry, left)
  OBVIOUS
<1>5. PICK shown : shown = LinesShown(entry, left)
  OBVIOUS
<1>6. shown \in Nat
  BY <1>2, <1>5, LinesShownIs
<1>7. /\ entry.first = entry.last
      /\ entry.last \in DOMAIN messages
      /\ NamesTheRest(holds, entry, left)
  <2>1. entry.first = entry.last /\ entry.last \in DOMAIN messages
    BY <1>2, <1>3 DEF EntriesIn, PrintsLines
  <2>2. holds \in Transcripts
    BY <1>1 DEF EntriesInv
  <2>3. NamesTheRest(holds, entry, left)
    BY <1>2, <2>2, RereadLinesAre
  <2> QED BY <2>1, <2>3
<1>8. entry.first \in Number /\ entry.content \in Seq(Nat \X Nat)
  BY <1>2, EntryFieldsAre
<1>9. PICK all : all = requested_messages(LinesCommand(i).requests[1], messages)
  OBVIOUS
<1>10. all = {entry.first}
  <2>1. PICK request : request = [conversation |-> entry.conversation,
                                  range |-> <<entry.first, entry.first>>,
                                  subagent |-> Session]
    OBVIOUS
  <2>2. LinesCommand(i).requests[1] = request
    BY <1>1, <2>1 DEF LinesCommand, Command
  <2>3. /\ request.subagent = Session /\ request.range # <<>>
        /\ request.range[1] = entry.first /\ request.range[2] = entry.first
    BY <2>1
  <2>4. all = {ordinal \in DOMAIN messages : ordinal \in entry.first..entry.first}
    BY <1>9, <2>2, <2>3 DEF requested_messages
  <2>5. entry.first..entry.first = {entry.first}
    BY <1>8 DEF Number
  <2> QED BY <1>7, <2>4, <2>5
<1>11. Min(all) = entry.first
  <2>1. entry.first \in Nat
    BY <1>8 DEF Number
  <2>2. \E x \in all : \A y \in all : x <= y
    BY <1>10, <2>1
  <2>3. Min(all) \in all
    BY <2>2 DEF Min
  <2> QED BY <1>10, <2>3
<1>12. PICK whole : whole = Content(Blocks(messages[Min(all)], entry.flags,
                                  command_lines(LinesCommand(i).requests)))
  OBVIOUS
<1>13. whole = ContentOf(holds, entry)
  <2>1. command_lines(LinesCommand(i).requests) = "All"
    <3>1. PICK request : request = [conversation |-> entry.conversation,
                                    range |-> <<entry.first, entry.first>>,
                                    subagent |-> Session]
      OBVIOUS
    <3>2. LinesCommand(i).requests = <<request>>
      BY <1>1, <3>1 DEF LinesCommand, Command
    <3>3. IsSingle(request)
      BY <3>1 DEF IsSingle
    <3>4. Len(<<request>>) = 1 /\ <<request>>[1] = request
      OBVIOUS
    <3>5. reads_one_message(<<request>>)
      BY <3>3, <3>4 DEF reads_one_message
    <3> QED BY <3>2, <3>5 DEF command_lines
  <2> QED BY <1>3, <1>11, <1>12, <2>1 DEF ContentOf, MessageOf
<1>14. ASSUME NEW line \in DOMAIN entry.content
       PROVE  \/ entry.content[line] \in {part[3] : part \in ShownBy(i)}
              \/ entry.content[line] \in {whole[number] : number \in lines[1]..lines[2]}
  <2>1. line \in 1..Len(entry.content) /\ line \in Nat
    BY <1>8
  <2>2. CASE line <= shown
    <3>1. line \in 1..shown
      BY <1>6, <2>1, <2>2
    <3>2. PICK part : part = <<entry.conversation, entry.first, entry.content[line]>>
      OBVIOUS
    <3>3. part \in Lines(entry, shown) /\ part[3] = entry.content[line]
      BY <3>1, <3>2 DEF Lines
    <3>4. ShownBy(i) = Lines(entry, shown)
      BY <1>1, <1>2, <1>5 DEF ShownBy
    <3> QED BY <3>3, <3>4
  <2>3. CASE ~(line <= shown)
    <3>1. line > shown
      BY <1>6, <2>1, <2>3
    <3>2. PICK number \in lines[1]..lines[2] :
            ContentOf(holds, entry)[number] = entry.content[line]
      BY <1>4, <1>5, <1>7, <2>1, <3>1 DEF NamesTheRest
    <3> QED BY <1>13, <3>2
  <2> QED BY <2>2, <2>3
<1>15. ToSet(entry.content) \subseteq {part[3] : part \in ShownBy(i)}
         \cup {whole[number] : number \in lines[1]..lines[2]}
  BY <1>14 DEF ToSet
<1> QED BY <1>1, <1>3, <1>4, <1>9, <1>12, <1>15

LEMMA TypeDropsNothing == TypeInv => NothingDropped
<1> SUFFICES ASSUME TypeInv, step = "answer" PROVE NothingDropped
  BY DEF NothingDropped
<1>1. EntriesInv /\ KeptInv
  BY AnswersAreTyped
<1> QED BY <1>1, OmittedIsNamed, LinesAreNamed, Zenon DEF NothingDropped

-----------------------------------------------------------------------------
(* The end of a read that its answers keep.                                *)

Selecting == {"grow", "tail", "fit", "omit", "answer"}

Focus == focused_indices(read, entries)

KeepsTails(some) ==
  \A i \in some, j \in DOMAIN entries :
    i < j /\ entries[i].request = entries[j].request => j \in some

KeepsStart(some) == \A i \in some : 1..i \subseteq some

EndKept(some) ==
  /\ read.tail > 0 => KeepsTails(some)
  /\ read.tail = 0 /\ Focus = {} => KeepsStart(some)
  /\ read.tail = 0 => Focus \subseteq some

(* What a tail read has considered and not kept is of a stopped request.   *)
TailInv ==
  /\ read.tail > 0
  /\ tail = [left |-> tail.left, stopped |-> tail.stopped]
  /\ tail.left \subseteq DOMAIN entries
  /\ \A i \in DOMAIN entries \ tail.left :
       i \in selected \/ entries[i].request \in tail.stopped

Inv ==
  /\ \A command \in todo : OneEnd(command)
  /\ OneEnd(read)
  /\ step = "grow" => read.tail = 0
  /\ step = "tail" => TailInv
  /\ step \in Selecting => selected \subseteq DOMAIN entries /\ EndKept(selected)

(* A sequence of entries numbers them from 1 to its length.                *)
LEMMA NumberedFromOne ==
  ASSUME NEW all, all \in Seq({all[i] : i \in DOMAIN all})
  PROVE  /\ Len(all) \in Nat /\ DOMAIN all = 1..Len(all)
         /\ DOMAIN all = {} => all = <<>>
  OBVIOUS

LEMMA SequenceDomain ==
  ASSUME EntriesAreASequence
  PROVE  Len(entries) \in Nat /\ DOMAIN entries = 1..Len(entries)
  BY NumberedFromOne DEF EntriesAreASequence

(* A set of entries has a last one.                                        *)
LEMMA LastOfSome ==
  ASSUME EntriesAreASequence, NEW some \in SUBSET DOMAIN entries, some # {}
  PROVE  Max(some) \in some /\ \A i \in some : i <= Max(some)
<1>1. PICK n : n = Len(entries)
  OBVIOUS
<1>2. n \in Nat /\ some \in SUBSET (1..n)
  BY <1>1, SequenceDomain
<1> QED BY <1>2, MaxOfPositions

(* Of two entries of a request, a tail read takes the later one first.     *)
LEMMA LaterIsKeptBefore ==
  ASSUME EntriesAreASequence, NEW i \in DOMAIN entries, NEW j \in DOMAIN entries,
         i < j, entries[i].request = entries[j].request
  PROVE  KeptBefore(entries, j, i) /\ ~KeptBefore(entries, i, j)
<1> DEFINE After(k) == {l \in DOMAIN entries :
                          l > k /\ entries[l].request = entries[k].request}
<1>1. IsFiniteSet(DOMAIN entries) /\ DOMAIN entries \subseteq Int
  BY SequenceDomain, FS_Interval
<1>2. IsFiniteSet(After(i)) /\ After(j) \in SUBSET After(i)
  BY <1>1, FS_Subset
<1>3. j \in After(i) /\ j \notin After(j)
  BY <1>1
<1> HIDE DEF After
<1>4. /\ Cardinality(After(i)) \in Nat /\ Cardinality(After(j)) \in Nat
      /\ Cardinality(After(j)) < Cardinality(After(i))
  <2>1. IsFiniteSet(After(j)) /\ Cardinality(After(j)) <= Cardinality(After(i))
        /\ Cardinality(After(j)) # Cardinality(After(i))
    BY <1>2, <1>3, FS_Subset
  <2> QED BY <2>1, <1>2, FS_CardinalityType
<1>5. Rank(entries, i)[1] = Cardinality(After(i))
      /\ Rank(entries, j)[1] = Cardinality(After(j))
  BY DEF Rank, After
<1> QED BY <1>4, <1>5 DEF KeptBefore

(* The commands of an answer's records are of no end.                      *)
LEMMA RecordsReadTheStart ==
  \A command \in Continuations \cup Recipes : OneEnd(command)
  BY DEF Continuations, Recipes, RangeCommand, LinesCommand, Command, OneEnd

(* Without a focus no entry is in focus.                                   *)
LEMMA NoFocus ==
  ASSUME OneEnd(read), read.tail > 0
  PROVE  Focus = {}
  BY DEF OneEnd, Focus, focused_indices

-----------------------------------------------------------------------------
(* The invariant holds at the start, and of every step.                    *)
LEMMA InvInit == Init => Inv
  BY ReadsAssumption
  DEF Init, Inv, OneEnd, NoRead, Command, Selecting

(* A command begins with all its entries, its first, or its focus.         *)
LEMMA BeginKeeps == Inv /\ Begin /\ EntriesAreASequence' => Inv'
<1> SUFFICES ASSUME Inv, Begin, EntriesAreASequence' PROVE Inv'
  OBVIOUS
<1>1. PICK command \in todo :
        /\ read' = command
        /\ \/ step' = "out_of_range"
           \/ LET all == EntriesOf(command)
                  focus == focused_indices(command, all)
                  first == IF focus = {} /\ all # <<>> THEN {1} ELSE focus
              IN  /\ entries' = all
                  /\ \/ selected' = DOMAIN all /\ step' = "fit"
                     \/ /\ command.tail > 0
                        /\ selected' = {} /\ step' = "tail"
                        /\ tail' = [left |-> DOMAIN all, stopped |-> {}]
                     \/ /\ command.tail = 0
                        /\ selected' = first /\ step' = "grow"
  BY DEF Begin
<1>2. todo' = todo
  BY DEF Begin
<1>3. (\A other \in todo : OneEnd(other))' /\ OneEnd(read)'
  BY <1>1, <1>2 DEF Inv, OneEnd
<1>4. Focus' = focused_indices(read', entries')
  BY DEF Focus
<1>5. Focus' \subseteq DOMAIN entries'
  BY <1>4 DEF focused_indices
<1>6. CASE step' = "out_of_range"
  BY <1>3, <1>6 DEF Inv, Selecting
<1>7. CASE selected' = DOMAIN entries' /\ step' = "fit"
  <2>1. EndKept(selected)'
    <3>1. KeepsTails(selected)'
      BY <1>7 DEF KeepsTails
    <3>2. KeepsStart(selected)'
      <4>1. /\ Len(entries)' \in Nat
            /\ (DOMAIN entries)' = 1..Len(entries)'
        BY NumberedFromOne DEF EntriesAreASequence
      <4> QED BY <4>1, <1>7 DEF KeepsStart
    <3> QED BY <3>1, <3>2, <1>5, <1>7 DEF EndKept
  <2> QED BY <2>1, <1>3, <1>7 DEF Inv
<1>8. CASE /\ read'.tail > 0 /\ selected' = {} /\ step' = "tail"
           /\ tail' = [left |-> DOMAIN entries', stopped |-> {}]
  <2>1. EndKept(selected)'
    <3>1. KeepsTails(selected)' /\ read'.tail # 0
      BY <1>8, <1>3 DEF KeepsTails, OneEnd
    <3> QED BY <3>1 DEF EndKept
  <2>2. TailInv'
    BY <1>8 DEF TailInv
  <2> QED BY <2>1, <2>2, <1>3, <1>8 DEF Inv
<1>9. CASE /\ read'.tail = 0 /\ step' = "grow"
           /\ selected' = IF Focus' = {} /\ entries' # <<>> THEN {1} ELSE Focus'
  <2>1. /\ Len(entries)' \in Nat
        /\ (DOMAIN entries)' = 1..Len(entries)'
        /\ (DOMAIN entries)' = {} => entries' = <<>>
    BY NumberedFromOne DEF EntriesAreASequence
  <2>2. selected' \subseteq DOMAIN entries'
    BY <2>1, <1>5, <1>9
  <2>3. Focus' \subseteq selected'
    BY <1>9
  <2>4. Focus' = {} => KeepsStart(selected)'
    BY <1>9 DEF KeepsStart
  <2>5. EndKept(selected)'
    BY <2>3, <2>4, <1>9 DEF EndKept
  <2> QED BY <2>2, <2>5, <1>3, <1>9 DEF Inv
<1> QED BY <1>1, <1>4, <1>6, <1>7, <1>8, <1>9

(* A neighbour joins the selection, or does not.                           *)
LEMMA TryAddGrows ==
  ASSUME NEW chosen, NEW shortened, NEW candidate
  PROVE  \E more, bodies :
           /\ try_add([selected |-> chosen, truncated |-> shortened], candidate)
                = [selected |-> more, truncated |-> bodies]
           /\ \/ more = chosen
              \/ candidate \in DOMAIN entries /\ more = chosen \cup {candidate}
<1> DEFINE before == [selected |-> chosen, truncated |-> shortened]
           whole == [selected |-> chosen \cup {candidate},
                     truncated |-> shortened]
           floor == [selected |-> chosen \cup {candidate},
                     truncated |-> shortened \cup {candidate}]
<1>1. [before EXCEPT !.selected = @ \cup {candidate}] = whole
  OBVIOUS
<1>2. [whole EXCEPT !.truncated = @ \cup {candidate}] = floor
  OBVIOUS
<1>3. \/ try_add(before, candidate) = before
      \/ candidate \in DOMAIN entries /\ try_add(before, candidate) = whole
      \/ candidate \in DOMAIN entries /\ try_add(before, candidate) = floor
  BY <1>1, <1>2 DEF try_add
<1> QED BY <1>3

(* The entry before a prefix is none: only the one after it can join.      *)
LEMMA GrowKeeps == Inv /\ Grow /\ EntriesAreASequence => Inv'
<1> SUFFICES ASSUME Inv, Grow, EntriesAreASequence PROVE Inv'
  OBVIOUS
<1> USE DEF Selecting
<1>1. /\ UNCHANGED <<todo, read, entries>> /\ step' \in {"grow", "fit"}
      /\ read.tail = 0 /\ selected \subseteq DOMAIN entries /\ EndKept(selected)
      /\ \A command \in todo : OneEnd(command)
      /\ OneEnd(read)
  BY DEF Grow, Inv
<1>2. selected' \subseteq DOMAIN entries /\ EndKept(selected')
  <2>1. CASE selected = {}
    <3>1. selected' = selected
      BY <2>1 DEF Grow
    <3> QED BY <3>1, <1>1
  <2>2. CASE selected # {}
    <3> DEFINE before == [selected |-> selected, truncated |-> truncated]
               head == try_add(before, Min(selected) - 1)
               grown == try_add(head, Max(head.selected) + 1)
    <3>1. selected' = grown.selected
      BY <2>2 DEF Grow
    <3>2. PICK some, bodies :
            /\ head = [selected |-> some, truncated |-> bodies]
            /\ \/ some = selected
               \/ /\ Min(selected) - 1 \in DOMAIN entries
                  /\ some = selected \cup {Min(selected) - 1}
      BY TryAddGrows
    <3>3. PICK more, floors :
            /\ try_add([selected |-> some, truncated |-> bodies],
                       Max(some) + 1)
                 = [selected |-> more, truncated |-> floors]
            /\ \/ more = some
               \/ /\ Max(some) + 1 \in DOMAIN entries
                  /\ more = some \cup {Max(some) + 1}
      BY TryAddGrows
    <3>4. selected' = more
      BY <3>1, <3>2, <3>3
    <3>5. selected \subseteq more /\ more \subseteq DOMAIN entries
      BY <3>2, <3>3, <1>1
    <3>6. Focus = {} => KeepsStart(more)
      <4> SUFFICES ASSUME Focus = {} PROVE KeepsStart(more)
        OBVIOUS
      <4>1. KeepsStart(selected)
        BY <1>1 DEF EndKept
      <4>2. Len(entries) \in Nat /\ DOMAIN entries = 1..Len(entries)
        BY SequenceDomain
      <4>3. Min(selected) = 1
        <5>1. 1 \in selected /\ \A i \in selected : 1 <= i
          BY <4>1, <4>2, <1>1, <2>2 DEF KeepsStart
        <5>2. Min(selected) \in selected /\ \A i \in selected : Min(selected) <= i
          BY <5>1 DEF Min
        <5>3. Min(selected) <= 1 /\ 1 <= Min(selected) /\ Min(selected) \in Int
          BY <5>1, <5>2, <4>2, <1>1
        <5> QED BY <5>3
      <4>4. some = selected
        BY <4>2, <4>3, <3>2
      <4>5. Max(selected) \in selected
        BY LastOfSome, <1>1, <2>2
      <4>6. 1..Max(selected) \subseteq selected /\ Max(selected) \in Nat
        BY <4>5, <4>1, <4>2, <1>1 DEF KeepsStart
      <4>7. more = selected \/ more = selected \cup {Max(selected) + 1}
        BY <4>4, <3>3
      <4>8. KeepsStart(selected \cup {Max(selected) + 1})
        BY <4>6, <4>1 DEF KeepsStart
      <4> QED BY <4>1, <4>7, <4>8
    <3> QED BY <3>4, <3>5, <3>6, <1>1 DEF EndKept
  <2> QED BY <2>1, <2>2
<1>3. (\A command \in todo : OneEnd(command))' /\ OneEnd(read)'
  BY <1>1 DEF OneEnd
<1>4. EndKept(selected)'
  BY <1>1, <1>2 DEF EndKept, KeepsTails, KeepsStart, Focus, focused_indices
<1> QED BY <1>1, <1>2, <1>3, <1>4 DEF Inv

(* The later entries of its request have been considered before an entry,  *)
(* and all were kept if the request goes on.                               *)
LEMMA KeepTailKeeps == Inv /\ KeepTail /\ EntriesAreASequence => Inv'
<1> SUFFICES ASSUME Inv, KeepTail, EntriesAreASequence PROVE Inv'
  OBVIOUS
<1> USE DEF Selecting
<1>1. /\ UNCHANGED <<todo, read, entries, step>> /\ step = "tail"
      /\ selected \subseteq DOMAIN entries /\ EndKept(selected) /\ TailInv
      /\ \A command \in todo : OneEnd(command)
      /\ OneEnd(read)
  BY DEF KeepTail, Inv
<1>2. PICK entry \in KeptFirst(entries, tail.left) :
        \/ /\ entries[entry].request \in tail.stopped
           /\ tail' = [tail EXCEPT !.left = @ \ {entry}]
           /\ selected' = selected
        \/ /\ entries[entry].request \notin tail.stopped
           /\ selected' = selected \cup {entry}
           /\ tail' = [tail EXCEPT !.left = @ \ {entry}]
        \/ /\ selected' = selected
           /\ tail' = [left |-> tail.left \ {entry},
                       stopped |-> tail.stopped \cup {entries[entry].request}]
  BY DEF KeepTail, IsStopped
<1>3. /\ entry \in tail.left /\ entry \in DOMAIN entries
      /\ \A j \in tail.left \ {entry} : KeptBefore(entries, entry, j)
  BY <1>1 DEF KeptFirst, TailInv
<1>4. selected' \subseteq DOMAIN entries /\ KeepsTails(selected')
  <2>1. KeepsTails(selected) /\ read.tail > 0
    BY <1>1 DEF EndKept, TailInv
  <2>2. CASE selected' = selected
    BY <2>1, <2>2, <1>1
  <2>3. CASE /\ entries[entry].request \notin tail.stopped
             /\ selected' = selected \cup {entry}
    <3> SUFFICES ASSUME NEW j \in DOMAIN entries, entry < j,
                        entries[entry].request = entries[j].request
                 PROVE  j \in selected'
      BY <2>1, <2>3, <1>1, <1>3 DEF KeepsTails
    <3>1. KeptBefore(entries, j, entry) /\ ~KeptBefore(entries, entry, j)
      BY LaterIsKeptBefore, <1>3
    <3>2. j \notin tail.left \/ j = entry
      BY <3>1, <1>3
    <3>3. j \notin tail.left \/ j \in selected'
      BY <3>2, <2>3
    <3> QED BY <3>3, <2>3, <1>1 DEF TailInv
  <2> QED BY <1>2, <2>2, <2>3
<1>5. tail' = [left |-> tail.left \ {entry}, stopped |-> tail'.stopped]
      /\ tail.stopped \subseteq tail'.stopped
      /\ (entry \in selected' \/ entries[entry].request \in tail'.stopped)
  <2>1. tail = [left |-> tail.left, stopped |-> tail.stopped]
    BY <1>1 DEF TailInv
  <2>2. [tail EXCEPT !.left = @ \ {entry}]
          = [left |-> tail.left \ {entry}, stopped |-> tail.stopped]
    BY <2>1
  <2> QED BY <2>2, <1>2
<1>6. selected \subseteq selected'
  BY <1>2
<1>7. TailInv'
  <2>1. tail'.left = tail.left \ {entry}
    BY <1>5
  <2>2. \A i \in DOMAIN entries \ tail'.left :
          i \in selected' \/ entries[i].request \in tail'.stopped
    BY <2>1, <1>1, <1>5, <1>6 DEF TailInv
  <2> QED BY <2>1, <2>2, <1>1, <1>5 DEF TailInv
<1>8. (\A command \in todo : OneEnd(command))' /\ OneEnd(read)'
  BY <1>1 DEF OneEnd
<1>9. EndKept(selected)'
  <2>1. read'.tail > 0 /\ read'.tail # 0
    BY <1>1, <1>8 DEF TailInv, OneEnd
  <2> QED BY <2>1, <1>4, <1>1 DEF EndKept, KeepsTails
<1> QED BY <1>1, <1>4, <1>7, <1>8, <1>9 DEF Inv

-----------------------------------------------------------------------------
(* What a selection keeps, it keeps while command and entries stay.        *)
LEMMA StillKept ==
  ASSUME UNCHANGED <<todo, read, entries>>, Inv,
         step' \notin {"grow", "tail"},
         selected' \subseteq DOMAIN entries, EndKept(selected')
  PROVE  Inv'
<1>1. (\A command \in todo : OneEnd(command))' /\ OneEnd(read)'
  BY DEF Inv, OneEnd
<1>2. EndKept(selected)'
  BY DEF EndKept, KeepsTails, KeepsStart, Focus, focused_indices
<1> QED BY <1>1, <1>2 DEF Inv

LEMMA EndTailKeeps == Inv /\ EndTail => Inv'
<1> SUFFICES ASSUME Inv, EndTail PROVE Inv'
  OBVIOUS
<1>1. /\ UNCHANGED <<todo, read, entries>> /\ step' \notin {"grow", "tail"}
      /\ selected' \subseteq DOMAIN entries /\ EndKept(selected')
  BY DEF EndTail, Inv, Selecting
<1> QED BY <1>1, StillKept

(* Fitting leaves the selection, or what of it is in focus.                *)
LEMMA FitKeeps == Inv /\ Fit => Inv'
<1> SUFFICES ASSUME Inv, Fit PROVE Inv'
  OBVIOUS
<1>1. /\ UNCHANGED <<todo, read, entries>> /\ step' \notin {"grow", "tail"}
      /\ selected \subseteq DOMAIN entries /\ EndKept(selected) /\ OneEnd(read)
  BY DEF Fit, Inv, Selecting
<1>2. \/ selected' = selected
      \/ Focus # {} /\ selected' = selected \cap Focus
  BY DEF Fit, Focus
<1>3. Focus # {} => read.tail = 0
  BY <1>1, NoFocus DEF OneEnd
<1>4. selected' \subseteq DOMAIN entries /\ EndKept(selected')
  <2>1. CASE selected' = selected
    BY <2>1, <1>1
  <2>2. CASE Focus # {} /\ selected' = selected \cap Focus
    BY <2>2, <1>1, <1>3 DEF EndKept
  <2> QED BY <1>2, <2>1, <2>2
<1> QED BY <1>1, <1>4, StillKept

(* What is omitted next is at the other end of what is kept.               *)
LEMMA OmitNextKeeps == Inv /\ OmitNext /\ EntriesAreASequence => Inv'
<1> SUFFICES ASSUME Inv, OmitNext, EntriesAreASequence PROVE Inv'
  OBVIOUS
<1>1. /\ UNCHANGED <<todo, read, entries>> /\ step' \notin {"grow", "tail"}
      /\ selected \subseteq DOMAIN entries /\ EndKept(selected) /\ OneEnd(read)
  BY DEF OmitNext, Inv, Selecting
<1>2. selected' = selected \/ selected' = selected \ next_to_omit
  BY DEF OmitNext
<1>3. EndKept(selected \ next_to_omit)
  <2> DEFINE left == selected \ next_to_omit
  <2>1. CASE read.tail > 0
    <3> SUFFICES ASSUME NEW i \in left, NEW j \in DOMAIN entries, i < j,
                        entries[i].request = entries[j].request
                 PROVE  j \in left
      BY <2>1, <1>1 DEF EndKept, KeepsTails, OneEnd
    <3>1. i \in DOMAIN entries /\ i \in selected /\ j \in selected
      BY <2>1, <1>1 DEF EndKept, KeepsTails
    <3>2. ~KeptBefore(entries, i, j)
      BY <3>1, LaterIsKeptBefore
    <3>3. i # j
      BY <3>1, SequenceDomain
    <3>4. j \notin KeptLast(entries, selected)
      BY <3>1, <3>2, <3>3 DEF KeptLast
    <3> QED BY <3>1, <3>4, <2>1 DEF next_to_omit
  <2>2. CASE read.tail = 0 /\ Focus = {}
    <3>1. next_to_omit = {i \in selected : \A j \in selected : j <= i}
      BY <2>2 DEF next_to_omit, Focus
    <3>2. KeepsStart(selected)
      BY <2>2, <1>1 DEF EndKept
    <3>3. selected \subseteq Int
      BY <1>1, SequenceDomain
    <3>4. KeepsStart(left)
      <4> SUFFICES ASSUME NEW i \in left, NEW k \in 1..i PROVE k \in left
        BY DEF KeepsStart
      <4>1. k \in selected /\ i \in Int /\ k <= i
        BY <3>2, <3>3 DEF KeepsStart
      <4>2. CASE k = i
        BY <4>2
      <4>3. CASE k # i
        BY <4>1, <4>3, <3>1
      <4> QED BY <4>2, <4>3
    <3> QED BY <2>2, <3>4 DEF EndKept
  <2>3. CASE read.tail = 0 /\ Focus # {}
    <3>1. next_to_omit \cap Focus = {}
      BY <2>3 DEF next_to_omit, Focus
    <3> QED BY <2>3, <3>1, <1>1 DEF EndKept
  <2> QED BY <2>1, <2>2, <2>3, <1>1 DEF OneEnd
<1> QED BY <1>1, <1>2, <1>3, StillKept

(* The records that an agent follows read from the start.                  *)
LEMMA AgentKeeps == Inv /\ (Follow \/ Refused) => Inv'
<1> SUFFICES ASSUME Inv, Follow \/ Refused PROVE Inv'
  OBVIOUS
<1>1. todo' \subseteq todo \cup Continuations \cup Recipes
  BY DEF Follow, Refused
<1>2. \A command \in todo' : OneEnd(command)
  BY <1>1, RecordsReadTheStart DEF Inv
<1>3. read' = NoRead /\ step' = "idle"
  BY DEF Follow, Refused, Idle
<1> QED BY <1>2, <1>3 DEF Inv, OneEnd, NoRead, Command, Selecting

LEMMA InvStep ==
  Inv /\ EntriesAreASequence /\ EntriesAreASequence' /\ [Next]_vars => Inv'
<1> SUFFICES ASSUME Inv, EntriesAreASequence, EntriesAreASequence', [Next]_vars
             PROVE  Inv'
  OBVIOUS
<1>1. CASE UNCHANGED vars
  BY <1>1 DEF vars, Inv, TailInv, EndKept, KeepsTails, KeepsStart, Focus,
              focused_indices, OneEnd
<1> QED BY <1>1, BeginKeeps, GrowKeeps, KeepTailKeeps, EndTailKeeps, FitKeeps,
           OmitNextKeeps, AgentKeeps DEF Next, Stop

LEMMA InvKeepsItsEnd == Inv => KeepsItsEnd
<1> SUFFICES ASSUME Inv, step = "answer" PROVE KeepsItsEnd
  BY DEF KeepsItsEnd
<1>1. EndKept(selected) /\ OneEnd(read)
  BY DEF Inv, Selecting
<1> QED BY <1>1 DEF KeepsItsEnd, EndKept, KeepsTails, KeepsStart, Focus, OneEnd

LEMMA InvHolds == Spec => []Inv
  BY TypeHolds, TypeIsASequence, InvInit, InvStep, PTL DEF Spec

LEMMA TypeInvIsTypeOK == TypeInv /\ Inv => TypeOK
<1> SUFFICES ASSUME TypeInv, Inv PROVE TypeOK
  OBVIOUS
<1>1. EntriesAreASequence
  BY TypeIsASequence
<1>2. entries \in Seq(EntriesIn(transcript, read.requests))
  BY DEF TypeInv, EntriesInv
<1>3. ASSUME NEW i \in DOMAIN entries
      PROVE  /\ entries[i].request \in DOMAIN read.requests
             /\ entries[i].first \in Nat /\ entries[i].last \in Nat
  <2>1. PICK entry : entry = entries[i]
    OBVIOUS
  <2>2. entry \in EntriesIn(transcript, read.requests)
    BY <1>2, <2>1
  <2>3. /\ entry.request \in DOMAIN read.requests
        /\ entry.first \in Number /\ entry.last \in Number
    BY <2>2, EntryFieldsAre
  <2> QED BY <2>1, <2>3 DEF Number
<1>4. kept = <<>> \/ kept \in [selected -> Nat \cup {Whole}]
  BY DEF TypeInv, KeptInv, Bodies
<1>5. selected \subseteq DOMAIN entries /\ truncated \subseteq selected
  BY DEF TypeInv, EntriesInv
<1>6. /\ tail.left \subseteq DOMAIN entries
      /\ tail.stopped \subseteq {entries[i].request : i \in DOMAIN entries}
  BY DEF TypeInv, Tails
<1>7. OneEnd(read) /\ warning \in Nat /\ budget \in Nat
  BY DEF Inv, TypeInv
<1>8. /\ step \in {"idle", "grow", "tail", "fit", "omit", "answer", "refused",
                  "out_of_range"}
      /\ step = "idle" \/ read \in todo
  BY DEF TypeInv
<1> QED BY <1>1, <1>3, <1>4, <1>5, <1>6, <1>7, <1>8 DEF TypeOK

-----------------------------------------------------------------------------
(* The theorems.                                                           *)

(* The values that the fields of a read and of the agent can have: what a  *)
(* command reads is a sequence of entries of its requests, the budget      *)
(* keeps some of them, and shortens some of those                          *)
(* (format_read_with_warnings).                                            *)
THEOREM TypesHold == Spec => []TypeOK
<1>1. Spec => []TypeInv
  BY TypeHolds
<1>2. Spec => []Inv
  BY InvHolds
<1>3. TypeInv /\ Inv => TypeOK
  BY TypeInvIsTypeOK
<1> QED BY <1>1, <1>2, <1>3, PTL

(* An answer and the warnings printed after it hold no more characters     *)
(* than --budget, whatever the estimate said of the entries selected       *)
(* (format_read_with_warnings, rendered_chars).                            *)
THEOREM BudgetIsAHardLimit == Spec => []KeepsToItsBudget
<1>1. Init => WithinBudget
  BY DEF Init, WithinBudget
<1>2. Spec => []WithinBudget
  BY <1>1, WithinBudgetStep, PTL DEF Spec
<1> QED BY <1>2, TypeHolds, WithinBudgetKeeps, PTL

(* An answer keeps to its budget and shares the room in it: where the      *)
(* floors of the bodies fit, no entry is omitted, and each body shortened  *)
(* keeps its floor and at least an even share of the room beyond, whatever *)
(* the sizes of the messages (fit_bodies, format_read_with_warnings).      *)
THEOREM BudgetIsUsed == Spec => []UsesItsBudget
<1>1. Init => KeepsWhatFits
  BY DEF Init, KeepsWhatFits
<1>2. Spec => []KeepsWhatFits
  BY <1>1, KeepsWhatFitsStep, PTL DEF Spec
<1>3. KeepsToItsBudget /\ FitsAtItsFloors /\ SharesTheRoom => UsesItsBudget
  BY DEF UsesItsBudget
<1> QED BY <1>2, <1>3, TypeHolds, FloorsLeaveRoom, FittedSharesTheRoom,
          BudgetIsAHardLimit, PTL

(* Each message of an entry that an answer leaves out is in a `continue    *)
(* read` record with the flags that show it, and each line of a body that  *)
(* it shortens is printed or in the record after the body, whose lines are *)
(* those of a read of the message alone, with its calls whole              *)
(* (continuation_records, reread_lines).                                   *)
THEOREM NothingIsDropped == Spec => []NothingDropped
  BY TypeHolds, TypeDropsNothing, PTL

(* An answer keeps the end it was asked for, in every session, under every *)
(* budget and whatever the sizes of its records: the start of a plain      *)
(* read, the last entries of each request of a tail read, all of a focus   *)
(* (format_read_with_warnings, truncate_read_selection).                   *)
THEOREM KeepsItsEndHolds == Spec => []KeepsItsEnd
  BY InvHolds, InvKeepsItsEnd, PTL
=============================================================================
