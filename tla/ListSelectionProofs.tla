------------------------ MODULE ListSelectionProofs ------------------------
(***************************************************************************)
(* Proofs about ListSelection, for any sessions: the selection stays on    *)
(* the session it was on, and the viewer shows the session asked for.      *)
(*                                                                         *)
(* KeepsSelection holds because the anchor, while an edit's selection is   *)
(* kept, is the session kept: every way of replacing the rows on screen    *)
(* then selects it.  ShownIsSelected and OpensWhatWasAsked hold because    *)
(* the list is covered exactly while a shown session is remembered, and    *)
(* nothing moves a row while one is on its way to the viewer (CoverInv).   *)
(***************************************************************************)
EXTENDS ListSelection, FiniteSetTheorems, WellFoundedInduction, TLAPS

(* The rows, and those on screen.                                          *)
Lists(r, f) ==
  /\ r \in Seq(Sessions) /\ IsInjective(r)
  /\ f \in Seq(DOMAIN r) /\ IsInjective(f)

SelectedIn(f, i) == IF f = <<>> THEN i = None ELSE i \in DOMAIN f

ListInv == Lists(rows, filtered) /\ SelectedIn(filtered, selected)

KeptInv == history.kept # None => anchor = history.kept

CoverInv ==
  /\ is_covered <=> history.shown # None
  /\ pending # None =>
       open = None /\ dialog = "none" /\ history.shown = rows[pending]

SelectionInv ==
  /\ TypeOK /\ ListInv /\ KeptInv /\ CoverInv
  /\ KeepsSelection /\ OpensWhatWasAsked /\ ShownIsSelected

-----------------------------------------------------------------------------
(* Sequences *)

(* A set of numbers that is not empty and has a bound has a greatest.      *)
LEMMA HasGreatest ==
  ASSUME NEW n \in Nat, NEW places \in SUBSET (1 .. n), places # {}
  PROVE  \E m \in places : \A j \in places : j <= m
<1> DEFINE bounds == {k \in Nat : \A j \in places : j <= k}
<1>1. bounds \in SUBSET Nat /\ bounds # {}
  <2>1. n \in bounds
    OBVIOUS
  <2> QED  BY <2>1
<1>2. PICK m \in bounds : \A k \in bounds : <<k, m>> \notin OpToRel(<, Nat)
  BY <1>1, NatLessThanWellFounded, WFMin, Zenon
<1>3. \A k \in bounds : ~(k < m)
  BY <1>1, <1>2, Zenon DEF OpToRel
<1>4. m \in places
  <2> SUFFICES ASSUME m \notin places PROVE FALSE
    OBVIOUS
  <2>1. \A j \in places : j <= m - 1
    OBVIOUS
  <2>2. m - 1 \in Nat
    <3>1. PICK j \in places : TRUE
      OBVIOUS
    <3>2. j >= 1 /\ j <= m - 1 /\ j \in Nat /\ m \in Nat
      BY <2>1
    <3> QED  BY <3>2
  <2>3. m - 1 \in bounds
    BY <2>1, <2>2
  <2> QED  BY <1>3, <2>3
<1> QED  BY <1>4

Ascends(f, k, places) ==
  f \in [1 .. k -> places] /\ \A i, j \in 1 .. k : i < j => f[i] < f[j]

(* The numbers of a bounded set can be told off in their order.            *)
LEMMA HasOrder ==
  ASSUME NEW n \in Nat, NEW places \in SUBSET (1 .. n)
  PROVE  \E f : Ascends(f, Cardinality(places), places)
<1> DEFINE Ordered(set) == \E f : Ascends(f, Cardinality(set), set)
           bad == {k \in Nat : \E set \in SUBSET (1 .. k) : ~Ordered(set)}
<1>1. ASSUME bad # {} PROVE FALSE
  <2>1. bad \in SUBSET Nat
    OBVIOUS
  <2>2. PICK k \in bad : \A l \in bad : <<l, k>> \notin OpToRel(<, Nat)
    BY <1>1, <2>1, NatLessThanWellFounded, WFMin, Zenon
  <2>3. \A l \in bad : ~(l < k)
    BY <2>1, <2>2, Zenon DEF OpToRel
  <2>4. PICK set \in SUBSET (1 .. k) : ~Ordered(set)
    OBVIOUS
  <2>5. set # {}
    <3> SUFFICES ASSUME set = {} PROVE Ordered(set)
      BY <2>4
    <3>1. Cardinality(set) = 0
      BY FS_EmptySet
    <3>2. Ascends(<<>>, 0, set)
      BY DEF Ascends
    <3> QED  BY <3>1, <3>2
  <2>6. PICK m \in set : \A j \in set : j <= m
    <3>1. k \in Nat
      OBVIOUS
    <3> QED  BY <2>5, <3>1, HasGreatest
  <2>7. m \in 1 .. k /\ k \in Nat
    OBVIOUS
  <2>8. PICK rest : rest = set \ {m}
    OBVIOUS
  <2>9. rest \in SUBSET (1 .. (m - 1)) /\ m - 1 \in Nat /\ m - 1 < k
    BY <2>6, <2>7, <2>8
  <2>10. Ordered(rest)
    BY <2>3, <2>9
  <2>11. PICK f : Ascends(f, Cardinality(rest), rest)
    BY <2>10
  <2>12. IsFiniteSet(set) /\ Cardinality(set) = Cardinality(rest) + 1
         /\ Cardinality(rest) \in Nat
    <3>1. IsFiniteSet(1 .. k)
      BY <2>7, FS_Interval
    <3>2. IsFiniteSet(set)
      BY <3>1, FS_Subset
    <3>3. IsFiniteSet(rest) /\ Cardinality(rest) = Cardinality(set) - 1
          /\ Cardinality(set) \in Nat /\ Cardinality(rest) \in Nat
      BY <2>8, <3>2, FS_RemoveElement, FS_CardinalityType
    <3> QED  BY <3>2, <3>3
  <2>13. PICK c \in Nat : c = Cardinality(rest)
    BY <2>12
  <2>14. PICK g : g = [i \in 1 .. (c + 1) |-> IF i = c + 1 THEN m ELSE f[i]]
    OBVIOUS
  <2>15. Ascends(g, c + 1, set)
    <3>1. f \in [1 .. c -> rest] /\ \A i, j \in 1 .. c : i < j => f[i] < f[j]
      BY <2>11, <2>13 DEF Ascends
    <3>2. ASSUME NEW i \in 1 .. c PROVE f[i] \in set /\ f[i] < m
      <4>1. f[i] \in rest
        BY <3>1
      <4>2. f[i] \in 1 .. (m - 1)
        BY <2>9, <4>1
      <4> QED  BY <2>7, <2>8, <4>1, <4>2
    <3>3. g \in [1 .. (c + 1) -> set]
      BY <2>14, <3>2
    <3>4. \A i, j \in 1 .. (c + 1) : i < j => g[i] < g[j]
      BY <2>14, <3>1, <3>2
    <3> QED  BY <3>3, <3>4 DEF Ascends
  <2> QED  BY <2>4, <2>12, <2>13, <2>15
<1> QED  BY <1>1

LEMMA InOrderAscends ==
  ASSUME NEW n \in Nat, NEW places \in SUBSET (1 .. n)
  PROVE  /\ Cardinality(places) \in Nat
         /\ InOrder(places) \in [1 .. Cardinality(places) -> places]
         /\ \A i, j \in 1 .. Cardinality(places) :
              i < j => InOrder(places)[i] < InOrder(places)[j]
<1>1. IsFiniteSet(places)
  <2>1. IsFiniteSet(1 .. n)
    BY FS_Interval
  <2> QED  BY <2>1, FS_Subset
<1>2. Cardinality(places) \in Nat
  BY <1>1, FS_CardinalityType
<1>3. \E f \in [1 .. Cardinality(places) -> places] :
        \A i, j \in 1 .. Cardinality(places) : i < j => f[i] < f[j]
  BY HasOrder DEF Ascends
<1> QED  BY <1>2, <1>3 DEF InOrder

(* What is kept of a sequence is a sequence, and repeats nothing that the  *)
(* sequence does not.                                                      *)
LEMMA KeepIs ==
  ASSUME NEW S, NEW n \in Nat, NEW places \in SUBSET (1 .. n), NEW s,
         \A i \in places : s[i] \in S,
         \A i, j \in places : s[i] = s[j] => i = j
  PROVE  Keep(s, places) \in Seq(S) /\ IsInjective(Keep(s, places))
<1>1. PICK c \in Nat : c = Cardinality(places)
  BY InOrderAscends
<1>2. PICK f : f = InOrder(places)
  OBVIOUS
<1>3. f \in [1 .. c -> places] /\ \A i, j \in 1 .. c : i < j => f[i] < f[j]
  BY <1>1, <1>2, InOrderAscends
<1>4. PICK kept : kept = [i \in 1 .. c |-> s[f[i]]]
  OBVIOUS
<1>5. Keep(s, places) = kept
  BY <1>1, <1>2, <1>4 DEF Keep
<1>6. kept \in [1 .. c -> S]
  BY <1>3, <1>4
<1>7. \A i, j \in 1 .. c : kept[i] = kept[j] => i = j
  <2> SUFFICES ASSUME NEW i \in 1 .. c, NEW j \in 1 .. c, kept[i] = kept[j]
               PROVE  i = j
    OBVIOUS
  <2>1. f[i] = f[j]
    BY <1>3, <1>4
  <2>2. f[i] \in 1 .. n /\ f[j] \in 1 .. n
    BY <1>3
  <2> QED  BY <1>3, <2>1, <2>2
<1> QED  BY <1>5, <1>6, <1>7 DEF IsInjective

(* The first place of a session in a sequence of sessions, or 0.           *)
LEMMA RowOfIs ==
  ASSUME NEW r \in Seq(Sessions), NEW s
  PROVE  /\ s \in Range(r) => RowOf(r, s) \in 1 .. Len(r) /\ r[RowOf(r, s)] = s
         /\ s \notin Range(r) => RowOf(r, s) = 0
<1>1. PICK at : at = {i \in 1 .. Len(r) : r[i] = s}
  OBVIOUS
<1>2. RowOf(r, s) = IF at # {} THEN Min(at) ELSE 0
  BY <1>1 DEF RowOf, SelectInSeq
<1>3. DOMAIN r = 1 .. Len(r)
  OBVIOUS
<1>4. s \in Range(r) <=> at # {}
  BY <1>1, <1>3 DEF Range
<1>5. ASSUME at # {} PROVE Min(at) \in at
  <2>1. at \in SUBSET Nat
    BY <1>1
  <2>2. PICK i \in at : \A j \in at : <<j, i>> \notin OpToRel(<, Nat)
    BY <1>5, <2>1, NatLessThanWellFounded, WFMin, Zenon
  <2>3. \A j \in at : ~(j < i)
    BY <2>1, <2>2, Zenon DEF OpToRel
  <2>4. \A j \in at : i <= j
    BY <2>1, <2>3
  <2> QED  BY <2>4 DEF Min
<1> QED  BY <1>1, <1>2, <1>4, <1>5

(* A sequence that tells a set off has each of its members once.           *)
LEMMA SeqOfSet ==
  ASSUME NEW set, IsFiniteSet(set), NEW s \in SetToSeqs(set)
  PROVE  s \in Seq(set) /\ IsInjective(s)
<1>1. Cardinality(set) \in Nat
  BY FS_CardinalityType
<1> QED  BY <1>1 DEF SetToSeqs, IsInjective

(* A sequence without its i-th element.                                    *)
LEMMA RemoveAtIs ==
  ASSUME NEW S, NEW s \in Seq(S), NEW i \in DOMAIN s
  PROVE  /\ RemoveAt(s, i) \in Seq(S) /\ Len(RemoveAt(s, i)) = Len(s) - 1
         /\ \A j \in 1 .. (Len(s) - 1) :
              RemoveAt(s, i)[j] = IF j < i THEN s[j] ELSE s[j + 1]
<1>1. /\ Len(s) \in Nat /\ i \in 1 .. Len(s)
  OBVIOUS
<1>2. PICK a : a = SubSeq(s, 1, i - 1)
  OBVIOUS
<1>3. PICK b : b = SubSeq(s, i + 1, Len(s))
  OBVIOUS
<1>4. /\ a \in Seq(S) /\ Len(a) = i - 1
      /\ \A j \in 1 .. (i - 1) : a[j] = s[j]
  BY <1>1, <1>2
<1>5. /\ b \in Seq(S) /\ Len(b) = Len(s) - i
      /\ \A j \in 1 .. (Len(s) - i) : b[j] = s[i + j]
  BY <1>1, <1>3
<1>6. RemoveAt(s, i) = a \o b
  BY <1>2, <1>3 DEF RemoveAt
<1>7. a \o b \in Seq(S) /\ Len(a \o b) = Len(s) - 1
  BY <1>1, <1>4, <1>5
<1>8. ASSUME NEW j \in 1 .. (Len(s) - 1)
      PROVE  (a \o b)[j] = IF j < i THEN s[j] ELSE s[j + 1]
  <2>1. CASE j < i
    BY <1>1, <1>4, <1>5, <2>1
  <2>2. CASE ~(j < i)
    <3>1. PICK k : k = j - (i - 1)
      OBVIOUS
    <3>2. k \in 1 .. (Len(s) - i) /\ i + k = j + 1
      BY <1>1, <2>2, <3>1
    <3>3. (a \o b)[j] = b[k]
      <4>1. a \in Seq(S) /\ b \in Seq(S) /\ Len(a) \in Nat /\ Len(b) \in Nat
        BY <1>4, <1>5
      <4>2. j \in 1 .. (Len(a) + Len(b)) /\ ~(j <= Len(a)) /\ k = j - Len(a)
        BY <1>1, <1>4, <1>5, <2>2, <3>1
      <4>3. (a \o b)[j] = b[j - Len(a)]
        BY <4>1, <4>2
      <4> QED  BY <4>2, <4>3
    <3> QED  BY <1>5, <2>2, <3>2, <3>3
  <2> QED  BY <2>1, <2>2
<1> QED  BY <1>6, <1>7, <1>8

LEMMA RemoveAtKeeps ==
  ASSUME NEW S, NEW s \in Seq(S), NEW i \in DOMAIN s, IsInjective(s)
  PROVE  /\ IsInjective(RemoveAt(s, i))
         /\ Range(RemoveAt(s, i)) = Range(s) \ {s[i]}
         /\ \A j \in DOMAIN s \ {i} :
              LET k == IF j > i THEN j - 1 ELSE j IN
              k \in DOMAIN RemoveAt(s, i) /\ RemoveAt(s, i)[k] = s[j]
<1>1. /\ Len(s) \in Nat /\ i \in 1 .. Len(s) /\ DOMAIN s = 1 .. Len(s)
  OBVIOUS
<1>2. PICK r : r = RemoveAt(s, i)
  OBVIOUS
<1>3. /\ r \in Seq(S) /\ DOMAIN r = 1 .. (Len(s) - 1)
      /\ \A j \in 1 .. (Len(s) - 1) : r[j] = IF j < i THEN s[j] ELSE s[j + 1]
  <2>1. /\ RemoveAt(s, i) \in Seq(S) /\ Len(RemoveAt(s, i)) = Len(s) - 1
        /\ \A j \in 1 .. (Len(s) - 1) :
             RemoveAt(s, i)[j] = IF j < i THEN s[j] ELSE s[j + 1]
    BY RemoveAtIs
  <2>2. DOMAIN r = 1 .. Len(r)
    BY <1>2, <2>1
  <2> QED  BY <1>2, <2>1, <2>2
<1>4. ASSUME NEW j \in DOMAIN s \ {i}
      PROVE  LET k == IF j > i THEN j - 1 ELSE j IN k \in DOMAIN r /\ r[k] = s[j]
  <2>1. CASE j > i
    <3>1. PICK k : k = j - 1
      OBVIOUS
    <3>2. k \in 1 .. (Len(s) - 1) /\ ~(k < i) /\ k + 1 = j
      BY <1>1, <2>1, <3>1
    <3>3. r[k] = s[j]
      BY <1>3, <3>2
    <3> QED  BY <1>3, <2>1, <3>1, <3>2, <3>3
  <2>2. CASE ~(j > i)
    BY <1>1, <1>3, <2>2
  <2> QED  BY <2>1, <2>2
<1>5. ASSUME NEW j \in DOMAIN r
      PROVE  \E k \in DOMAIN s \ {i} :
               r[j] = s[k] /\ k \in Nat /\ k = (IF j < i THEN j ELSE j + 1)
  <2>1. j \in 1 .. (Len(s) - 1)
    BY <1>3
  <2>2. PICK k : k = IF j < i THEN j ELSE j + 1
    OBVIOUS
  <2>3. k \in DOMAIN s \ {i}
    BY <1>1, <2>1, <2>2
  <2> QED  BY <1>3, <2>1, <2>2, <2>3
<1>6. IsInjective(r)
  <2> SUFFICES ASSUME NEW j \in DOMAIN r, NEW l \in DOMAIN r, r[j] = r[l]
               PROVE  j = l
    BY DEF IsInjective
  <2>1. PICK k \in DOMAIN s \ {i} : 
          r[j] = s[k] /\ k \in Nat /\ k = (IF j < i THEN j ELSE j + 1)
    BY <1>5
  <2>2. PICK m \in DOMAIN s \ {i} : 
          r[l] = s[m] /\ m \in Nat /\ m = (IF l < i THEN l ELSE l + 1)
    BY <1>5
  <2>3. k = m
    BY <2>1, <2>2 DEF IsInjective
  <2> QED  BY <1>1, <1>3, <2>1, <2>2, <2>3
<1>7. Range(r) = Range(s) \ {s[i]}
  <2>1. ASSUME NEW x \in Range(r) PROVE x \in Range(s) \ {s[i]}
    <3>1. PICK j \in DOMAIN r : x = r[j]
      BY DEF Range
    <3>2. PICK k \in DOMAIN s \ {i} : r[j] = s[k]
      BY <1>5
    <3>3. s[k] # s[i] /\ s[k] \in Range(s)
      BY <3>2 DEF Range, IsInjective
    <3> QED  BY <3>1, <3>2, <3>3
  <2>2. ASSUME NEW x \in Range(s) \ {s[i]} PROVE x \in Range(r)
    <3>1. PICK j \in DOMAIN s : x = s[j]
      BY DEF Range
    <3>2. j # i
      BY <3>1
    <3>3. PICK k \in DOMAIN r : r[k] = s[j]
      BY <1>4, <3>2
    <3> QED  BY <3>1, <3>3 DEF Range
  <2> QED  BY <2>1, <2>2
<1> QED  BY <1>2, <1>4, <1>6, <1>7

-----------------------------------------------------------------------------
(* The rows, and those on screen *)

LEMMA ListsMean ==
  ASSUME NEW r, NEW f, Lists(r, f)
  PROVE  /\ DOMAIN r = 1 .. Len(r) /\ Len(r) \in Nat /\ r \in [DOMAIN r -> Sessions]
         /\ DOMAIN f = 1 .. Len(f) /\ Len(f) \in Nat /\ f \in [DOMAIN f -> DOMAIN r]
         /\ Range(r) \subseteq Sessions /\ Range(f) \subseteq DOMAIN r
         /\ \A i, j \in DOMAIN f : r[f[i]] = r[f[j]] => i = j
         /\ f = <<>> <=> DOMAIN f = {}
<1>1. /\ DOMAIN r = 1 .. Len(r) /\ Len(r) \in Nat /\ r \in [DOMAIN r -> Sessions]
  BY DEF Lists
<1>2. /\ DOMAIN f = 1 .. Len(f) /\ Len(f) \in Nat /\ f \in [DOMAIN f -> DOMAIN r]
  BY DEF Lists
<1>3. Range(r) \subseteq Sessions /\ Range(f) \subseteq DOMAIN r
  BY <1>1, <1>2 DEF Range
<1>4. \A i, j \in DOMAIN f : r[f[i]] = r[f[j]] => i = j
  BY <1>2 DEF Lists, IsInjective
<1>5. f = <<>> <=> DOMAIN f = {}
  <2>1. DOMAIN f = {} => Len(f) = 0
    BY <1>2
  <2>2. f \in Seq(DOMAIN r)
    BY DEF Lists
  <2>3. Len(f) = 0 => f = <<>>
    BY <2>2
  <2> QED  BY <2>1, <2>3
<1> QED  BY <1>1, <1>2, <1>3, <1>4, <1>5

(* All the rows, in their order.                                           *)
LEMMA AllRows ==
  ASSUME NEW r \in Seq(Sessions), IsInjective(r)
  PROVE  Lists(r, [i \in DOMAIN r |-> i])
<1>1. DOMAIN r = 1 .. Len(r) /\ Len(r) \in Nat
  OBVIOUS
<1> QED  BY <1>1 DEF Lists, IsInjective

LEMMA MatchesAreLists ==
  ASSUME NEW r \in Seq(Sessions), IsInjective(r), NEW f \in Matches(r)
  PROVE  Lists(r, f)
<1>1. DOMAIN r = 1 .. Len(r) /\ Len(r) \in Nat
  OBVIOUS
<1>2. PICK set \in SUBSET DOMAIN r : f \in SetToSeqs(set)
  BY DEF Matches, SetToAllKPermutations
<1>3. IsFiniteSet(set)
  <2>1. IsFiniteSet(1 .. Len(r))
    BY <1>1, FS_Interval
  <2> QED  BY <1>1, <2>1, FS_Subset
<1>4. f \in Seq(set) /\ IsInjective(f)
  BY <1>2, <1>3, SeqOfSet
<1>5. f \in Seq(DOMAIN r)
  BY <1>4
<1> QED  BY <1>4, <1>5 DEF Lists

(* A session looked up is appended only when it has no row.                *)
LEMMA LookUpsAreLists ==
  ASSUME NEW r \in Seq(Sessions), IsInjective(r), NEW s \in Sessions,
         NEW found \in LookUps(r, s)
  PROVE  Lists(found[1], found[2])
<1>1. DOMAIN r = 1 .. Len(r) /\ Len(r) \in Nat
  OBVIOUS
<1>2. CASE Contains(r, s)
  <2>1. found = <<r, <<RowOf(r, s)>>>>
    BY <1>2 DEF LookUps
  <2>2. s \in Range(r)
    BY <1>1, <1>2 DEF Contains, Range
  <2>3. RowOf(r, s) \in DOMAIN r
    BY <1>1, <2>2, RowOfIs
  <2>4. <<RowOf(r, s)>> \in Seq(DOMAIN r) /\ IsInjective(<<RowOf(r, s)>>)
    BY <2>3 DEF IsInjective
  <2> QED  BY <2>1, <2>4 DEF Lists
<1>3. CASE ~Contains(r, s)
  <2>1. found = <<r, <<>>>> \/ found = <<Append(r, s), <<Len(r) + 1>>>>
    BY <1>3 DEF LookUps
  <2>2. Lists(r, <<>>)
    BY DEF Lists, IsInjective
  <2>3. \A i \in DOMAIN r : r[i] # s
    BY <1>1, <1>3 DEF Contains
  <2>4. PICK a : a = Append(r, s)
    OBVIOUS
  <2>5. /\ a \in Seq(Sessions) /\ DOMAIN a = 1 .. (Len(r) + 1)
        /\ \A i \in 1 .. Len(r) : a[i] = r[i]
        /\ a[Len(r) + 1] = s
    BY <2>4
  <2>6. IsInjective(a)
    BY <1>1, <2>3, <2>5 DEF IsInjective
  <2>7. <<Len(r) + 1>> \in Seq(DOMAIN a) /\ IsInjective(<<Len(r) + 1>>)
    BY <1>1, <2>5 DEF IsInjective
  <2>8. Lists(a, <<Len(r) + 1>>)
    BY <2>5, <2>6, <2>7 DEF Lists
  <2>9. CASE found = <<r, <<>>>>
    <3>1. found[1] = r /\ found[2] = <<>>
      BY <2>9
    <3> QED  BY <2>2, <3>1
  <2>10. CASE found = <<a, <<Len(r) + 1>>>>
    <3>1. found[1] = a /\ found[2] = <<Len(r) + 1>>
      BY <2>10
    <3> QED  BY <2>8, <3>1
  <2> QED  BY <2>1, <2>4, <2>9, <2>10
<1> QED  BY <1>2, <1>3

LEMMA FiltersAreLists ==
  ASSUME NEW r \in Seq(Sessions), IsInjective(r), NEW sought,
         NEW found \in Filters(r, sought)
  PROVE  Lists(found[1], found[2])
<1>1. CASE sought = None
  BY <1>1, AllRows, SessionAssumption DEF Filters
<1>2. CASE sought # None /\ sought \in Sessions
  BY <1>2, LookUpsAreLists DEF Filters
<1>3. CASE sought # None /\ sought \notin Sessions
  <2>1. found \in {r} \X Matches(r)
    BY <1>3 DEF Filters
  <2> QED  BY <2>1, MatchesAreLists
<1> QED  BY <1>1, <1>2, <1>3

(* The rows on screen, each a session.                                     *)
LEMMA OnScreenIs ==
  ASSUME Lists(rows, filtered)
  PROVE  /\ DOMAIN OnScreen = DOMAIN filtered
         /\ OnScreen \in [DOMAIN filtered -> Sessions]
         /\ IsInjective(OnScreen)
         /\ \A i \in DOMAIN filtered : OnScreen[i] = rows[filtered[i]]
BY ListsMean DEF OnScreen, IsInjective

LEMMA SelectedPathIs ==
  ASSUME ListInv
  PROVE  /\ SelectedPath \in Sessions \cup {None}
         /\ selected # None =>
              /\ selected \in DOMAIN filtered /\ SelectedPath = OnScreen[selected]
              /\ SelectedPath # None /\ SelectedPath \in Range(OnScreen)
         /\ selected = None => SelectedPath = None
<1>1. CASE selected = None
  BY <1>1 DEF SelectedPath
<1>2. CASE selected # None
  <2>1. selected \in DOMAIN filtered
    BY <1>2 DEF ListInv, SelectedIn
  <2> QED  BY <1>2, <2>1, OnScreenIs, SessionAssumption
           DEF ListInv, SelectedPath, Range
<1> QED  BY <1>1, <1>2

(* A selection of the anchor, where there is one on screen.                *)
LEMMA SelectsTheAnchor ==
  ASSUME Lists(rows', filtered'), SelectAnchorOrFirst
  PROVE  /\ ListInv'
         /\ anchor' \in Range(OnScreen') => SelectedPath' = anchor'
<1>1. PICK at : at = {i \in DOMAIN filtered' : OnScreen'[i] = anchor'}
  OBVIOUS
<1>2. selected' = CASE filtered' = <<>> -> None
                    [] at # {} -> CHOOSE i \in at : TRUE
                    [] OTHER -> 1
  BY <1>1 DEF SelectAnchorOrFirst
<1>3. PICK n \in Nat : DOMAIN filtered' = 1 .. n
  BY ListsMean
<1>4. DOMAIN OnScreen' = DOMAIN filtered'
  BY DEF OnScreen
<1>5. anchor' \in Range(OnScreen') => at # {}
  BY <1>1, <1>4 DEF Range
<1>6. filtered' = <<>> <=> n = 0
  BY <1>3, ListsMean
<1>7. CASE filtered' = <<>>
  <2>1. selected' = None /\ at = {}
    BY <1>1, <1>2, <1>3, <1>6, <1>7
  <2> QED  BY <1>5, <1>7, <2>1 DEF ListInv, SelectedIn
<1>8. CASE filtered' # <<>> /\ at # {}
  <2>1. selected' \in at
    BY <1>2, <1>8
  <2>2. selected' \in DOMAIN filtered' /\ OnScreen'[selected'] = anchor'
    BY <1>1, <2>1
  <2>3. selected' # None
    BY <1>3, <2>2, SessionAssumption
  <2> QED  BY <1>8, <2>2, <2>3 DEF ListInv, SelectedIn, SelectedPath
<1>9. CASE filtered' # <<>> /\ at = {}
  <2>1. selected' = 1
    BY <1>2, <1>9
  <2>2. 1 \in DOMAIN filtered'
    BY <1>3, <1>6, <1>9
  <2> QED  BY <1>5, <1>9, <2>1, <2>2 DEF ListInv, SelectedIn
<1> QED  BY <1>7, <1>8, <1>9

LEMMA FilterSelects ==
  ASSUME NEW r \in Seq(Sessions), IsInjective(r), NEW sought,
         update_filter(r, sought)
  PROVE  /\ ListInv'
         /\ anchor' \in Range(OnScreen') => SelectedPath' = anchor'
<1>1. PICK found \in Filters(r, sought) : rows' = found[1] /\ apply_filtered(found[2])
  BY DEF update_filter
<1>2. Lists(rows', filtered')
  BY <1>1, FiltersAreLists DEF apply_filtered
<1>3. SelectAnchorOrFirst
  BY <1>1 DEF apply_filtered
<1> QED  BY <1>2, <1>3, SelectsTheAnchor

-----------------------------------------------------------------------------
(* Edits *)

(* Where edit_list finds the rows on screen, and those it keeps there.     *)
Moved(order) == [i \in DOMAIN filtered |-> RowOf(order, OnScreen[i])]
Staying(order) == {i \in DOMAIN filtered : Moved(order)[i] # 0}

Shows(r, f) == [i \in DOMAIN f |-> r[f[i]]]
StillListed(order) == {i \in DOMAIN filtered : OnScreen[i] \in Range(order)}

(* The rows on screen keep their sessions when the rows under them move.   *)
LEMMA MovedRows ==
  ASSUME Lists(rows, filtered), NEW order \in Seq(Sessions), IsInjective(order)
  PROVE  /\ Staying(order) = StillListed(order)
         /\ Lists(order, Keep(Moved(order), Staying(order)))
         /\ Shows(order, Keep(Moved(order), Staying(order)))
              = Keep(OnScreen, Staying(order))
<1> DEFINE moved == Moved(order)
           stay == Staying(order)
<1>1. PICK n \in Nat : DOMAIN filtered = 1 .. n
  BY ListsMean
<1>2. DOMAIN order = 1 .. Len(order) /\ Len(order) \in Nat
  OBVIOUS
<1>3. ASSUME NEW i \in DOMAIN filtered
      PROVE  /\ OnScreen[i] \in Range(order) =>
                  moved[i] \in DOMAIN order /\ order[moved[i]] = OnScreen[i]
             /\ OnScreen[i] \notin Range(order) => moved[i] = 0
  <2>1. moved[i] = RowOf(order, OnScreen[i])
    BY DEF Moved
  <2> QED  BY <1>2, <2>1, RowOfIs
<1>4. stay = {i \in DOMAIN filtered : OnScreen[i] \in Range(order)}
  BY <1>2, <1>3 DEF Staying
<1>5. \A i \in stay : moved[i] \in DOMAIN order /\ order[moved[i]] = OnScreen[i]
  BY <1>3, <1>4
<1>6. \A i, j \in stay : moved[i] = moved[j] => i = j
  <2>1. \A i, j \in DOMAIN filtered : OnScreen[i] = OnScreen[j] => i = j
    BY OnScreenIs DEF IsInjective
  <2> QED  BY <1>4, <1>5, <2>1
<1>7. stay \in SUBSET (1 .. n)
  BY <1>1, <1>4
<1> HIDE DEF moved, stay
<1>8. Keep(moved, stay) \in Seq(DOMAIN order) /\ IsInjective(Keep(moved, stay))
  BY <1>5, <1>6, <1>7, KeepIs
<1>9. PICK f : f = InOrder(stay)
  OBVIOUS
<1>10. PICK c : c = Cardinality(stay)
  OBVIOUS
<1>11. f \in [1 .. c -> stay]
  BY <1>7, <1>9, <1>10, InOrderAscends
<1>12. /\ Keep(moved, stay) = [i \in 1 .. c |-> moved[f[i]]]
       /\ Keep(OnScreen, stay) = [i \in 1 .. c |-> OnScreen[f[i]]]
  BY <1>9, <1>10 DEF Keep
<1>13. \A i \in 1 .. c : order[moved[f[i]]] = OnScreen[f[i]]
  BY <1>5, <1>11
<1>14. [i \in DOMAIN Keep(moved, stay) |-> order[Keep(moved, stay)[i]]]
         = Keep(OnScreen, stay)
  <2>1. PICK k : k = Keep(moved, stay)
    OBVIOUS
  <2>2. DOMAIN k = 1 .. c /\ \A i \in 1 .. c : k[i] = moved[f[i]]
    BY <1>12, <2>1
  <2>3. [i \in DOMAIN k |-> order[k[i]]] = [i \in 1 .. c |-> OnScreen[f[i]]]
    BY <1>13, <2>2
  <2> QED  BY <1>12, <2>1, <2>3, Zenon
<1>15. /\ stay = StillListed(order) /\ Lists(order, Keep(moved, stay))
       /\ Shows(order, Keep(moved, stay)) = Keep(OnScreen, stay)
  BY <1>4, <1>8, <1>14, Zenon DEF Lists, StillListed, Shows
<1> QED  BY <1>15 DEF moved, stay

LEMMA EditKeepsTheSelection ==
  ASSUME ListInv, NEW order \in Seq(Sessions), IsInjective(order),
         edit_list(order)
  PROVE  /\ ListInv' /\ anchor' = SelectedPath
         /\ anchor' \in Range(OnScreen') => SelectedPath' = anchor'
         /\ waits => rows' = order /\
              OnScreen' = Keep(OnScreen,
                            {i \in DOMAIN OnScreen : OnScreen[i] \in Range(rows')})
<1>1. anchor' = SelectedPath
  BY DEF edit_list
<1>2. CASE waits
  <2>1. /\ rows' = order /\ filtered' = Keep(Moved(order), Staying(order))
        /\ SelectAnchorOrFirst
    BY <1>2 DEF edit_list, apply_filtered, Moved, Staying
  <2>2. Lists(rows, filtered)
    BY DEF ListInv
  <2>3. /\ Staying(order) = StillListed(order)
        /\ Lists(order, Keep(Moved(order), Staying(order)))
        /\ Shows(order, Keep(Moved(order), Staying(order)))
             = Keep(OnScreen, Staying(order))
    BY <2>2, MovedRows
  <2>4. Lists(rows', filtered')
    BY <2>1, <2>3
  <2>7. OnScreen' = Keep(OnScreen, Staying(order))
    BY <2>1, <2>3 DEF OnScreen, Shows
  <2>8. Staying(order) = {i \in DOMAIN OnScreen : OnScreen[i] \in Range(rows')}
    BY <2>1, <2>2, <2>3, OnScreenIs DEF StillListed
  <2>9. ListInv' /\ (anchor' \in Range(OnScreen') => SelectedPath' = anchor')
    BY <2>1, <2>4, SelectsTheAnchor
  <2> QED  BY <1>1, <2>1, <2>7, <2>8, <2>9
<1>3. CASE ~waits
  <2>1. update_filter(order, query)
    BY <1>3 DEF edit_list
  <2> QED  BY <1>1, <1>3, <2>1, FilterSelects
<1> QED  BY <1>2, <1>3

(* A delete leaves the other rows on screen, each on its session.          *)
LEMMA RemoveKeepsTheOthers ==
  ASSUME ListInv, selected # None, remove_selected_from_list
  PROVE  /\ ListInv'
         /\ OnScreen' = Keep(OnScreen,
                          {i \in DOMAIN OnScreen : OnScreen[i] \in Range(rows')})
<1>1. PICK gone : gone = filtered[selected]
  OBVIOUS
<1>2. PICK places : places = {i \in DOMAIN filtered : filtered[i] # gone}
  OBVIOUS
<1>3. PICK others : others = Keep(filtered, places)
  OBVIOUS
<1>4. /\ rows' = RemoveAt(rows, gone)
      /\ filtered' = [i \in DOMAIN others |->
                        IF others[i] > gone THEN others[i] - 1 ELSE others[i]]
      /\ selected' = CASE others = <<>> -> None
                       [] selected \in DOMAIN others -> selected
                       [] OTHER -> Len(others)
  BY <1>1, <1>2, <1>3 DEF remove_selected_from_list
<1>5. Lists(rows, filtered) /\ selected \in DOMAIN filtered
  BY DEF ListInv, SelectedIn
<1>6. /\ DOMAIN rows = 1 .. Len(rows) /\ Len(rows) \in Nat
      /\ rows \in Seq(Sessions) /\ IsInjective(rows) /\ IsInjective(filtered)
      /\ filtered \in [DOMAIN filtered -> DOMAIN rows]
  BY <1>5, ListsMean DEF Lists
<1>7. PICK n \in Nat : DOMAIN filtered = 1 .. n
  BY <1>5, ListsMean
<1>8. gone \in DOMAIN rows
  BY <1>1, <1>5, <1>6
<1>9. others \in Seq(DOMAIN rows \ {gone}) /\ IsInjective(others)
  <2>1. places \in SUBSET (1 .. n)
    BY <1>2, <1>7
  <2>2. \A i \in places : filtered[i] \in DOMAIN rows \ {gone}
    BY <1>2, <1>6
  <2>3. \A i, j \in places : filtered[i] = filtered[j] => i = j
    BY <1>2, <1>6 DEF IsInjective
  <2> QED  BY <1>3, <2>1, <2>2, <2>3, KeepIs
<1>10. /\ rows' \in Seq(Sessions) /\ IsInjective(rows')
       /\ Range(rows') = Range(rows) \ {rows[gone]}
  BY <1>4, <1>6, <1>8, RemoveAtIs, RemoveAtKeeps
<1>11. ASSUME NEW j \in DOMAIN rows \ {gone}
       PROVE  \E k \in DOMAIN rows' :
                k = (IF j > gone THEN j - 1 ELSE j) /\ rows'[k] = rows[j]
  <2>1. PICK k : k = IF j > gone THEN j - 1 ELSE j
    OBVIOUS
  <2>2. k \in DOMAIN RemoveAt(rows, gone) /\ RemoveAt(rows, gone)[k] = rows[j]
    BY <1>6, <1>8, <2>1, RemoveAtKeeps
  <2> QED  BY <1>4, <2>1, <2>2
<1>12. DOMAIN others = 1 .. Len(others) /\ Len(others) \in Nat
       /\ \A i \in DOMAIN others : others[i] \in DOMAIN rows \ {gone}
  BY <1>9
<1>13. ASSUME NEW i \in DOMAIN others
       PROVE  /\ filtered'[i] \in DOMAIN rows'
              /\ rows'[filtered'[i]] = rows[others[i]]
  <2>1. PICK k \in DOMAIN rows' :
          /\ k = (IF others[i] > gone THEN others[i] - 1 ELSE others[i])
          /\ rows'[k] = rows[others[i]]
    BY <1>11, <1>12
  <2>2. filtered'[i] = k
    BY <1>4, <2>1
  <2> QED  BY <2>1, <2>2
<1>14. DOMAIN filtered' = DOMAIN others
  BY <1>4
<1>15. filtered' \in Seq(DOMAIN rows')
  <2>1. filtered' = [i \in 1 .. Len(others) |-> filtered'[i]]
    BY <1>4, <1>12
  <2>2. \A i \in 1 .. Len(others) : filtered'[i] \in DOMAIN rows'
    BY <1>12, <1>13
  <2>3. filtered' \in [1 .. Len(others) -> DOMAIN rows']
    BY <2>1, <2>2
  <2> QED  BY <1>12, <2>3
<1>16. IsInjective(filtered')
  <2> SUFFICES ASSUME NEW i \in DOMAIN others, NEW j \in DOMAIN others,
                      filtered'[i] = filtered'[j]
               PROVE  i = j
    BY <1>14 DEF IsInjective
  <2>1. rows[others[i]] = rows[others[j]]
    BY <1>13
  <2>2. others[i] = others[j]
    BY <1>6, <1>12, <2>1 DEF IsInjective
  <2> QED  BY <1>9, <2>2 DEF IsInjective
<1>17. Lists(rows', filtered')
  BY <1>10, <1>15, <1>16 DEF Lists
<1>18. SelectedIn(filtered', selected')
  <2>1. filtered' = <<>> <=> DOMAIN others = {}
    BY <1>14, <1>17, ListsMean
  <2>2. others = <<>> <=> DOMAIN others = {}
    <3>1. DOMAIN others = {} => Len(others) = 0
      BY <1>12
    <3>2. Len(others) = 0 => others = <<>>
      BY <1>9
    <3> QED  BY <3>1, <3>2
  <2>3. CASE others = <<>>
    BY <1>4, <2>1, <2>2, <2>3 DEF SelectedIn
  <2>4. CASE others # <<>>
    <3>1. Len(others) \in DOMAIN others
      BY <1>12, <2>2, <2>4
    <3>2. selected' \in DOMAIN others
      BY <1>4, <2>4, <3>1
    <3> QED  BY <1>14, <2>1, <2>2, <2>4, <3>2 DEF SelectedIn
  <2> QED  BY <2>3, <2>4
<1>19. places = {i \in DOMAIN OnScreen : OnScreen[i] \in Range(rows')}
  <2>1. ASSUME NEW i \in DOMAIN filtered
        PROVE  filtered[i] # gone <=> OnScreen[i] \in Range(rows')
    <3>1. OnScreen[i] = rows[filtered[i]] /\ filtered[i] \in DOMAIN rows
      BY <1>5, <1>6, OnScreenIs
    <3>2. rows[filtered[i]] \in Range(rows)
      BY <3>1 DEF Range
    <3>3. rows[filtered[i]] = rows[gone] <=> filtered[i] = gone
      BY <1>6, <1>8, <3>1 DEF IsInjective
    <3> QED  BY <1>10, <3>1, <3>2, <3>3
  <2>2. DOMAIN OnScreen = DOMAIN filtered
    BY <1>5, OnScreenIs
  <2> QED  BY <1>2, <2>1, <2>2
<1>20. OnScreen' = Keep(OnScreen, places)
  <2>1. PICK f : f = InOrder(places)
    OBVIOUS
  <2>2. PICK c : c = Cardinality(places)
    OBVIOUS
  <2>3. places \in SUBSET (1 .. n)
    BY <1>2, <1>7
  <2>4. f \in [1 .. c -> places]
    BY <2>1, <2>2, <2>3, InOrderAscends
  <2>5. /\ others = [i \in 1 .. c |-> filtered[f[i]]]
        /\ Keep(OnScreen, places) = [i \in 1 .. c |-> OnScreen[f[i]]]
    BY <1>3, <2>1, <2>2 DEF Keep
  <2>6. ASSUME NEW i \in 1 .. c
        PROVE  rows'[filtered'[i]] = OnScreen[f[i]]
    <3>1. others[i] = filtered[f[i]] /\ i \in DOMAIN others
      BY <2>5
    <3>2. f[i] \in DOMAIN filtered
      BY <1>2, <2>4
    <3>3. OnScreen[f[i]] = rows[filtered[f[i]]]
      BY <1>5, <3>2, OnScreenIs
    <3> QED  BY <1>13, <3>1, <3>3
  <2>7. OnScreen' = [i \in 1 .. c |-> rows'[filtered'[i]]]
    <3>1. DOMAIN filtered' = 1 .. c
      BY <1>14, <2>5
    <3> QED  BY <3>1 DEF OnScreen
  <2> QED  BY <2>5, <2>6, <2>7
<1> QED  BY <1>17, <1>18, <1>19, <1>20 DEF ListInv

-----------------------------------------------------------------------------
(* What a step records *)

OtherTypes ==
  /\ anchor \in Sessions \cup {None} /\ mode \in {"lexical", "semantic"}
  /\ query \in Sessions \cup {None, "text"} /\ searching \in BOOLEAN
  /\ open \in Sessions \cup {None}
  /\ dialog \in {"none", "menu", "confirm", "rename"}
  /\ refresh \in {"idle", "running", "finished"}

(* What the list may do while it is covered, and what may cover it.        *)
StaysShown(lost) ==
  is_covered' /\ history.shown # None =>
    /\ pending' # None => rows'[pending'] = history.shown
    /\ open' # None => open' = history.shown
    /\ ~history.lost /\ ~lost /\ history.shown \in Range(OnScreen')
         => SelectedPath' = history.shown

BecomesShown ==
  is_covered' /\ history.shown = None =>
    /\ selected' # None /\ open' = None
    /\ pending' # None => rows'[pending'] = SelectedPath'

IsKept(kept) ==
  kept # None => /\ anchor' = kept
                 /\ kept \in Range(OnScreen') => SelectedPath' = kept

LEMMA RecordsKeep ==
  ASSUME SelectionInv, NEW kept \in Sessions \cup {None}, NEW lost \in BOOLEAN,
         Records(kept, lost), ListInv', OtherTypes',
         pending' \in DOMAIN rows' \cup {None},
         pending' # None => open' = None /\ dialog' = "none",
         IsKept(kept), StaysShown(lost), BecomesShown
  PROVE  SelectionInv'
<1>1. PICK shown : shown = CASE ~is_covered' -> None
                             [] is_covered' /\ history.shown # None -> history.shown
                             [] OTHER -> SelectedPath'
  OBVIOUS
<1>2. PICK gone : gone = (is_covered' /\ \/ history.lost \/ lost
                                         \/ shown \notin Range(OnScreen'))
  OBVIOUS
<1>3. history' = [kept |-> kept, shown |-> shown, lost |-> gone]
  BY <1>1, <1>2 DEF Records
<1>4. history'.kept = kept /\ history'.shown = shown /\ history'.lost = gone
  BY <1>3
<1>5. /\ SelectedPath' \in Sessions \cup {None}
      /\ selected' # None => SelectedPath' # None /\ SelectedPath' \in Range(OnScreen')
  <2>1. Lists(rows', filtered') /\ SelectedIn(filtered', selected')
    BY DEF ListInv
  <2>2. /\ DOMAIN OnScreen' = DOMAIN filtered'
        /\ \A i \in DOMAIN filtered' : OnScreen'[i] \in Sessions
    BY <2>1, ListsMean DEF OnScreen
  <2>3. SelectedPath' = IF selected' = None THEN None ELSE OnScreen'[selected']
    BY DEF SelectedPath
  <2>4. selected' # None => selected' \in DOMAIN filtered'
    BY <2>1 DEF SelectedIn
  <2> QED  BY <2>2, <2>3, <2>4, SessionAssumption DEF Range
<1>6. history.shown \in Sessions \cup {None} /\ history.lost \in BOOLEAN
  BY DEF SelectionInv, TypeOK, History
<1>7. shown \in Sessions \cup {None} /\ (is_covered' <=> shown # None)
  BY <1>1, <1>5, <1>6 DEF BecomesShown
<1>8. gone \in BOOLEAN
  BY <1>2
<1>9. history' \in History
  BY <1>3, <1>7, <1>8 DEF History
<1>10. TypeOK'
  <2>1. Lists(rows', filtered') /\ SelectedIn(filtered', selected')
    BY DEF ListInv
  <2>2. Range(rows') \subseteq Sessions /\ Range(filtered') \subseteq DOMAIN rows'
    BY <2>1, ListsMean
  <2>3. IF filtered' = <<>> THEN selected' = None ELSE selected' \in DOMAIN filtered'
    BY <2>1 DEF SelectedIn
  <2>4. IsInjective(rows') /\ IsInjective(filtered')
    BY <2>1 DEF Lists
  <2> QED  BY <1>9, <2>2, <2>3, <2>4 DEF TypeOK, OtherTypes
<1>11. KeptInv' /\ KeepsSelection'
  BY <1>4 DEF KeptInv, KeepsSelection, IsKept
<1>12. CASE is_covered' /\ history.shown # None
  <2>1. shown = history.shown
    BY <1>1, <1>12
  <2>2. /\ pending' # None => rows'[pending'] = shown
        /\ open' # None => open' = shown
        /\ ~gone => SelectedPath' = shown
    BY <1>2, <1>12, <2>1 DEF StaysShown
  <2>3. CoverInv' /\ OpensWhatWasAsked' /\ ShownIsSelected'
    BY <1>4, <1>7, <2>2 DEF CoverInv, OpensWhatWasAsked, ShownIsSelected
  <2> QED  BY <1>10, <1>11, <2>3 DEF SelectionInv
<1>13. CASE is_covered' /\ history.shown = None
  <2>1. shown = SelectedPath'
    BY <1>1, <1>13
  <2>2. open' = None /\ (pending' # None => rows'[pending'] = shown)
    BY <1>13, <2>1 DEF BecomesShown
  <2>3. CoverInv' /\ OpensWhatWasAsked' /\ ShownIsSelected'
    BY <1>4, <1>7, <2>1, <2>2 DEF CoverInv, OpensWhatWasAsked, ShownIsSelected
  <2> QED  BY <1>10, <1>11, <2>3 DEF SelectionInv
<1>14. CASE ~is_covered'
  <2>1. shown = None /\ pending' = None /\ open' = None
    BY <1>1, <1>14 DEF is_covered
  <2>2. CoverInv' /\ OpensWhatWasAsked' /\ ShownIsSelected'
    BY <1>4, <1>14, <2>1 DEF CoverInv, OpensWhatWasAsked, ShownIsSelected
  <2> QED  BY <1>10, <1>11, <2>2 DEF SelectionInv
<1> QED  BY <1>12, <1>13, <1>14

(* A key of the uncovered list.                                            *)
LEMMA UncoveredKeeps ==
  ASSUME SelectionInv, NEW kept \in Sessions \cup {None},
         Records(kept, FALSE), ListInv', OtherTypes', IsKept(kept),
         is_on_list, UNCHANGED cover
  PROVE  SelectionInv'
<1>1. /\ ~is_covered' /\ pending' = None
  BY DEF is_on_list, is_covered, cover
<1>2. StaysShown(FALSE) /\ BecomesShown
  BY <1>1 DEF StaysShown, BecomesShown
<1> QED  BY <1>1, <1>2, RecordsKeep

(* A step that leaves the rows on screen, and which is selected, as they   *)
(* are.                                                                    *)
LEMMA SameList ==
  ASSUME ListInv, UNCHANGED <<rows, filtered, selected>>
  PROVE  /\ ListInv' /\ OnScreen' = OnScreen /\ SelectedPath' = SelectedPath
BY DEF ListInv, OnScreen, SelectedPath

LEMMA SelectionMeans ==
  ASSUME SelectionInv
  PROVE  /\ ListInv /\ OtherTypes /\ pending \in DOMAIN rows \cup {None}
         /\ history.shown \in Sessions \cup {None} /\ history.lost \in BOOLEAN
         /\ history.kept \in Sessions \cup {None}
         /\ is_covered <=> history.shown # None
         /\ pending # None =>
              open = None /\ dialog = "none" /\ history.shown = rows[pending]
         /\ history.kept # None => anchor = history.kept
         /\ open # None => history.shown = open
         /\ history.shown # None /\ ~history.lost => SelectedPath = history.shown
BY DEF SelectionInv, TypeOK, OtherTypes, History, CoverInv, KeptInv,
       OpensWhatWasAsked, ShownIsSelected

LEMMA DispatchLists ==
  ASSUME ListInv, NEW settled \in BOOLEAN, dispatch_search(settled)
  PROVE  ListInv' /\ searching' \in BOOLEAN
<1>1. CASE query' = "text"
  BY <1>1, SameList DEF dispatch_search
<1>2. CASE query' # "text"
  <2>1. searching' = FALSE /\ update_filter(rows, query')
    BY <1>2 DEF dispatch_search
  <2>2. rows \in Seq(Sessions) /\ IsInjective(rows)
    BY DEF ListInv, Lists
  <2> QED  BY <2>1, <2>2, FilterSelects
<1> QED  BY <1>1, <1>2

(* A step that touches neither the list nor what covers it.                *)
LEMMA StillSelected ==
  ASSUME SelectionInv, refresh' \in {"idle", "running", "finished"},
         UNCHANGED <<list, search, cover, history>>
  PROVE  SelectionInv'
<1>1. /\ UNCHANGED <<rows, filtered, selected, anchor>>
      /\ UNCHANGED <<mode, query, searching>>
      /\ UNCHANGED <<pending, open, dialog, history>>
  BY DEF list, search, cover
<1>2. OnScreen' = OnScreen /\ SelectedPath' = SelectedPath
  BY <1>1 DEF OnScreen, SelectedPath
<1>3. TypeOK'
  BY <1>1 DEF SelectionInv, TypeOK
<1>4. ListInv' /\ KeptInv' /\ CoverInv'
  BY <1>1 DEF SelectionInv, ListInv, KeptInv, CoverInv, is_covered
<1>5. KeepsSelection' /\ OpensWhatWasAsked' /\ ShownIsSelected'
  BY <1>1, <1>2 DEF SelectionInv, KeepsSelection, OpensWhatWasAsked, ShownIsSelected
<1> QED  BY <1>3, <1>4, <1>5 DEF SelectionInv

LEMMA NothingKept == None \in Sessions \cup {None} /\ IsKept(None)
BY DEF IsKept

-----------------------------------------------------------------------------
(* Each step *)

LEMMA SelectKeeps ==
  ASSUME SelectionInv, Select PROVE SelectionInv'
<1>1. ListInv /\ OtherTypes
  BY SelectionMeans
<1>2. ListInv'
  <2>1. PICK i \in DOMAIN filtered : selected' = i
    BY DEF Select
  <2>2. rows' = rows /\ filtered' = filtered
    BY DEF Select
  <2>3. filtered # <<>>
    BY <1>1, <2>1, ListsMean DEF ListInv
  <2> QED  BY <1>1, <2>1, <2>2, <2>3 DEF ListInv, SelectedIn
<1>3. OtherTypes'
  BY <1>1 DEF Select, drop_anchor, OtherTypes, search, cover
<1>4. Records(None, FALSE) /\ is_on_list /\ UNCHANGED cover
  BY DEF Select, Pressed
<1> QED  BY <1>2, <1>3, <1>4, NothingKept, UncoveredKeeps

LEMMA TypeKeeps ==
  ASSUME SelectionInv, Type PROVE SelectionInv'
<1>1. ListInv /\ OtherTypes
  BY SelectionMeans
<1>2. ListInv' /\ searching' \in BOOLEAN
  BY <1>1, DispatchLists DEF Type
<1>3. OtherTypes'
  BY <1>1, <1>2 DEF Type, drop_anchor, OtherTypes, cover
<1>4. Records(None, FALSE) /\ is_on_list /\ UNCHANGED cover
  BY DEF Type, Pressed
<1> QED  BY <1>2, <1>3, <1>4, NothingKept, UncoveredKeeps

LEMMA ToggleKeeps ==
  ASSUME SelectionInv, Toggle PROVE SelectionInv'
<1>1. ListInv /\ OtherTypes
  BY SelectionMeans
<1>2. ListInv' /\ searching' \in BOOLEAN
  <2>1. CASE query = None /\ mode' = "semantic"
    BY <1>1, <2>1, SameList DEF Toggle
  <2>2. CASE ~(query = None /\ mode' = "semantic")
    BY <1>1, <2>2, DispatchLists DEF Toggle
  <2> QED  BY <2>1, <2>2
<1>3. OtherTypes'
  BY <1>1, <1>2 DEF Toggle, drop_anchor, OtherTypes, cover
<1>4. Records(None, FALSE) /\ is_on_list /\ UNCHANGED cover
  BY DEF Toggle, Pressed
<1> QED  BY <1>2, <1>3, <1>4, NothingKept, UncoveredKeeps

(* An answer that comes while the list is covered makes the selection lost *)
(* to what covers it, so it need not keep it.                              *)
LEMMA AnswerKeeps ==
  ASSUME SelectionInv, Answer PROVE SelectionInv'
<1>1. ListInv /\ OtherTypes /\ pending \in DOMAIN rows \cup {None}
  BY SelectionMeans
<1>2. PICK found \in Matches(rows) :
        /\ apply_filtered(found)
        /\ searching' \in (IF mode = "semantic" /\ found # <<>>
                           THEN BOOLEAN ELSE {FALSE})
  BY DEF Answer
<1>3. /\ UNCHANGED <<rows, anchor>> /\ UNCHANGED <<mode, query, refresh>>
      /\ UNCHANGED <<pending, open, dialog>>
  BY DEF Answer, cover
<1>4. ListInv' /\ (anchor' \in Range(OnScreen') => SelectedPath' = anchor')
  <2>1. rows \in Seq(Sessions) /\ IsInjective(rows)
    BY <1>1 DEF ListInv, Lists
  <2>2. Lists(rows, found)
    BY <2>1, MatchesAreLists
  <2>3. Lists(rows', filtered') /\ SelectAnchorOrFirst
    BY <1>2, <1>3, <2>2 DEF apply_filtered
  <2> QED  BY <2>3, SelectsTheAnchor
<1>5. OtherTypes'
  BY <1>1, <1>2, <1>3 DEF OtherTypes
<1>6. pending' \in DOMAIN rows' \cup {None}
      /\ (pending' # None => open' = None /\ dialog' = "none")
  BY <1>1, <1>3, SelectionMeans
<1>7. Records(history.kept, is_covered)
  BY DEF Answer
<1>8. history.kept \in Sessions \cup {None} /\ is_covered \in BOOLEAN
  BY SelectionMeans DEF is_covered
<1>9. IsKept(history.kept)
  BY <1>3, <1>4, SelectionMeans DEF IsKept
<1>10. is_covered' <=> is_covered
  BY <1>3 DEF is_covered
<1>11. StaysShown(is_covered) /\ BecomesShown
  BY <1>3, <1>10, SelectionMeans DEF StaysShown, BecomesShown
<1> QED  BY <1>4, <1>5, <1>6, <1>7, <1>8, <1>9, <1>11, RecordsKeep

LEMMA OpenKeeps ==
  ASSUME SelectionInv, request_open PROVE SelectionInv'
<1>1. ListInv /\ OtherTypes /\ is_on_list /\ selected # None
  BY SelectionMeans DEF request_open
<1>2. /\ pending' = filtered[selected] /\ UNCHANGED <<rows, filtered, selected>>
      /\ UNCHANGED <<open, dialog>>
  BY DEF request_open
<1>3. /\ ListInv' /\ OnScreen' = OnScreen /\ SelectedPath' = SelectedPath
  BY <1>1, <1>2, SameList
<1>4. OtherTypes'
  BY <1>1 DEF request_open, drop_anchor, OtherTypes, search
<1>5. open' = None /\ dialog' = "none" /\ history.shown = None
  BY <1>1, <1>2, SelectionMeans DEF is_on_list, is_covered
<1>6. pending' \in DOMAIN rows' /\ rows'[pending'] = SelectedPath'
  <2>1. selected \in DOMAIN filtered /\ SelectedPath = OnScreen[selected]
    BY <1>1, SelectedPathIs
  <2>2. filtered[selected] \in DOMAIN rows
        /\ OnScreen[selected] = rows[filtered[selected]]
    BY <1>1, <2>1, ListsMean, OnScreenIs DEF ListInv
  <2> QED  BY <1>2, <1>3, <2>1, <2>2
<1>7. StaysShown(FALSE) /\ BecomesShown
  BY <1>1, <1>2, <1>5, <1>6 DEF StaysShown, BecomesShown
<1>8. Records(None, FALSE)
  BY DEF request_open, Pressed
<1> QED  BY <1>3, <1>4, <1>5, <1>6, <1>7, <1>8, NothingKept, RecordsKeep

LEMMA OpenedKeeps ==
  ASSUME SelectionInv, complete_pending_open PROVE SelectionInv'
<1>1. ListInv /\ OtherTypes /\ history.shown # None /\ history.shown = rows[pending]
  BY SelectionMeans, SessionAssumption DEF complete_pending_open, is_covered
<1>2. /\ pending' = None /\ open' \in {None, rows[pending]}
      /\ UNCHANGED <<rows, filtered, selected>>
      /\ UNCHANGED <<anchor, mode, query, searching>>
      /\ UNCHANGED <<dialog, refresh>>
  BY DEF complete_pending_open, list, search
<1>3. /\ ListInv' /\ OnScreen' = OnScreen /\ SelectedPath' = SelectedPath
  BY <1>1, <1>2, SameList
<1>4. OtherTypes'
  BY <1>1, <1>2, SelectionMeans DEF OtherTypes
<1>5. history.kept \in Sessions \cup {None} /\ IsKept(history.kept)
  BY <1>2, <1>3, SelectionMeans DEF IsKept, SelectionInv, KeepsSelection
<1>6. StaysShown(FALSE) /\ BecomesShown
  BY <1>1, <1>2, <1>3, SelectionMeans DEF StaysShown, BecomesShown
<1>7. Records(history.kept, FALSE)
  BY DEF complete_pending_open
<1> QED  BY <1>2, <1>3, <1>4, <1>5, <1>6, <1>7, RecordsKeep

LEMMA ExitKeeps ==
  ASSUME SelectionInv, exit_view_mode PROVE SelectionInv'
<1>1. ListInv /\ OtherTypes /\ pending = None
  BY SelectionMeans DEF exit_view_mode
<1>2. /\ pending' = None /\ open' = None /\ dialog' = "none"
      /\ UNCHANGED <<rows, filtered, selected>>
  BY <1>1 DEF exit_view_mode
<1>3. ListInv'
  BY <1>1, <1>2, SameList
<1>4. OtherTypes'
  BY <1>1, <1>2 DEF exit_view_mode, drop_anchor, OtherTypes, search
<1>5. ~is_covered'
  BY <1>2 DEF is_covered
<1>6. StaysShown(FALSE) /\ BecomesShown
  BY <1>5 DEF StaysShown, BecomesShown
<1>7. Records(None, FALSE)
  BY DEF exit_view_mode, Pressed
<1> QED  BY <1>2, <1>3, <1>4, <1>6, <1>7, NothingKept, RecordsKeep

LEMMA DialogKeeps ==
  ASSUME SelectionInv, Dialog PROVE SelectionInv'
<1>1. ListInv /\ OtherTypes /\ pending = None
  BY SelectionMeans DEF Dialog
<1>2. /\ pending' = None /\ open' = open
      /\ UNCHANGED <<rows, filtered, selected>>
  BY <1>1 DEF Dialog
<1>3. /\ ListInv' /\ OnScreen' = OnScreen /\ SelectedPath' = SelectedPath
  BY <1>1, <1>2, SameList
<1>4. dialog = "none" => selected # None
  BY DEF Dialog
<1>5. dialog' \in {"none", "menu", "confirm", "rename"}
  BY <1>1 DEF Dialog, OtherTypes
<1>6. OtherTypes'
  BY <1>1, <1>2, <1>5 DEF Dialog, drop_anchor, OtherTypes, search
<1>7. StaysShown(FALSE)
  BY <1>1, <1>2, <1>3, SelectionMeans DEF StaysShown
<1>8. BecomesShown
  <2>1. history.shown = None => dialog = "none" /\ open = None
    BY SelectionMeans DEF is_covered
  <2> QED  BY <1>2, <1>4, <2>1 DEF BecomesShown
<1>9. Records(None, FALSE)
  BY DEF Dialog, Pressed
<1> QED  BY <1>2, <1>3, <1>6, <1>7, <1>8, <1>9, NothingKept, RecordsKeep

LEMMA ConfirmKeeps ==
  ASSUME SelectionInv, Confirm PROVE SelectionInv'
<1>1. ListInv /\ OtherTypes /\ dialog = "confirm" /\ pending = None
  BY SelectionMeans DEF Confirm
<1>2. /\ dialog' = "none" /\ pending' = None /\ anchor' = None
      /\ UNCHANGED <<mode, query, refresh>> /\ Records(None, FALSE)
  BY <1>1 DEF Confirm, drop_anchor, Pressed
<1>3. CASE /\ selected # None /\ remove_selected_from_list
           /\ open' = None /\ searching' = FALSE
  <2>1. ListInv'
    BY <1>1, <1>3, RemoveKeepsTheOthers
  <2>2. OtherTypes'
    BY <1>1, <1>2, <1>3 DEF OtherTypes
  <2>3. ~is_covered'
    BY <1>2, <1>3 DEF is_covered
  <2>4. StaysShown(FALSE) /\ BecomesShown
    BY <2>3 DEF StaysShown, BecomesShown
  <2> QED  BY <1>2, <2>1, <2>2, <2>4, NothingKept, RecordsKeep
<1>4. CASE UNCHANGED <<rows, filtered, selected, open, searching>>
  <2>1. /\ ListInv' /\ OnScreen' = OnScreen /\ SelectedPath' = SelectedPath
    BY <1>1, <1>4, SameList
  <2>2. OtherTypes'
    BY <1>1, <1>2, <1>4 DEF OtherTypes
  <2>3. history.shown # None
    BY <1>1, SelectionMeans DEF is_covered
  <2>4. StaysShown(FALSE) /\ BecomesShown
    BY <1>2, <1>4, <2>1, <2>3, SelectionMeans DEF StaysShown, BecomesShown
  <2> QED  BY <1>2, <2>1, <2>2, <2>4, NothingKept, RecordsKeep
<1> QED  BY <1>3, <1>4 DEF Confirm

(* A rename runs the query again and finds the session selected again, if  *)
(* the query still shows it.                                               *)
LEMMA RenamedSelects ==
  ASSUME ListInv, Renamed
  PROVE  /\ ListInv' /\ dialog' = "none" /\ searching' = FALSE
         /\ SelectedPath \in Range(OnScreen') => SelectedPath' = SelectedPath
         /\ waits => rows' = rows
<1>1. PICK path : path = SelectedPath
  OBVIOUS
<1>2. PICK found \in (IF waits THEN {<<rows, filtered>>} ELSE Filters(rows, query)) :
        rows' = found[1] /\ filtered' = found[2]
  BY DEF Renamed
<1>3. PICK at : at = {i \in DOMAIN filtered' : OnScreen'[i] = path}
  OBVIOUS
<1>4. /\ IF at # {} THEN selected' = CHOOSE i \in at : TRUE ELSE SelectAnchorOrFirst
      /\ dialog' = "none" /\ searching' = FALSE
  BY <1>1, <1>3 DEF Renamed
<1>5. Lists(rows', filtered')
  <2>1. CASE waits
    <3>1. found = <<rows, filtered>>
      BY <1>2, <2>1
    <3> QED  BY <1>2, <3>1 DEF ListInv
  <2>2. CASE ~waits
    <3>1. found \in Filters(rows, query)
      BY <1>2, <2>2
    <3>2. rows \in Seq(Sessions) /\ IsInjective(rows)
      BY DEF ListInv, Lists
    <3>3. Lists(found[1], found[2])
      BY <3>1, <3>2, FiltersAreLists
    <3> QED  BY <1>2, <3>3
  <2> QED  BY <2>1, <2>2
<1>6. waits => rows' = rows
  <2> SUFFICES ASSUME waits PROVE rows' = rows
    OBVIOUS
  <2>1. found = <<rows, filtered>>
    BY <1>2
  <2> QED  BY <1>2, <2>1
<1>7. DOMAIN OnScreen' = DOMAIN filtered'
  BY DEF OnScreen
<1>8. path \in Range(OnScreen') => at # {}
  BY <1>3, <1>7 DEF Range
<1>9. CASE at = {}
  <2>1. ListInv'
    BY <1>4, <1>5, <1>9, SelectsTheAnchor
  <2> QED  BY <1>1, <1>4, <1>6, <1>8, <1>9, <2>1
<1>10. CASE at # {}
  <2>1. selected' \in at
    BY <1>4, <1>10
  <2>2. selected' \in DOMAIN filtered' /\ OnScreen'[selected'] = path
    BY <1>3, <2>1
  <2>3. selected' # None /\ filtered' # <<>>
    BY <1>5, <2>2, ListsMean, SessionAssumption
  <2>4. SelectedPath' = path
    BY <2>2, <2>3 DEF SelectedPath
  <2>5. ListInv'
    BY <1>5, <2>2, <2>3 DEF ListInv, SelectedIn
  <2> QED  BY <1>1, <1>4, <1>6, <2>4, <2>5
<1> QED  BY <1>9, <1>10

LEMMA RenameKeeps ==
  ASSUME SelectionInv, submit_rename PROVE SelectionInv'
<1>1. ListInv /\ OtherTypes /\ dialog = "rename" /\ pending = None
      /\ history.shown # None
  BY SelectionMeans DEF submit_rename, is_covered
<1>2. /\ anchor' = None /\ pending' = None /\ open' = open
      /\ UNCHANGED <<mode, query, refresh>> /\ Records(None, FALSE)
  BY <1>1 DEF submit_rename, drop_anchor, Pressed
<1>3. CASE selected # None /\ Renamed
  <2>1. /\ ListInv' /\ dialog' = "none" /\ searching' = FALSE
        /\ SelectedPath \in Range(OnScreen') => SelectedPath' = SelectedPath
    BY <1>1, <1>3, RenamedSelects
  <2>2. OtherTypes'
    BY <1>1, <1>2, <2>1 DEF OtherTypes
  <2>3. StaysShown(FALSE) /\ BecomesShown
    BY <1>1, <1>2, <2>1, SelectionMeans DEF StaysShown, BecomesShown
  <2> QED  BY <1>2, <2>1, <2>2, <2>3, NothingKept, RecordsKeep
<1>4. CASE /\ dialog' = IF selected = None THEN "none" ELSE dialog
           /\ UNCHANGED <<rows, filtered, selected, searching>>
  <2>1. /\ ListInv' /\ OnScreen' = OnScreen /\ SelectedPath' = SelectedPath
    BY <1>1, <1>4, SameList
  <2>2. OtherTypes'
    BY <1>1, <1>2, <1>4 DEF OtherTypes
  <2>3. StaysShown(FALSE) /\ BecomesShown
    BY <1>1, <1>2, <1>4, <2>1, SelectionMeans DEF StaysShown, BecomesShown
  <2> QED  BY <1>2, <2>1, <2>2, <2>3, NothingKept, RecordsKeep
<1> QED  BY <1>3, <1>4 DEF submit_rename

LEMMA BeginKeeps ==
  ASSUME SelectionInv, begin_refresh PROVE SelectionInv'
<1>1. ListInv /\ OtherTypes
  BY SelectionMeans
<1>2. ListInv'
  BY <1>1, SameList DEF begin_refresh
<1>3. OtherTypes'
  BY <1>1 DEF begin_refresh, drop_anchor, OtherTypes, search, cover
<1>4. Records(None, FALSE) /\ is_on_list /\ UNCHANGED cover
  BY DEF begin_refresh, Pressed
<1> QED  BY <1>2, <1>3, <1>4, NothingKept, UncoveredKeeps

(* An edit's new rows, whatever their order.                               *)
LEMMA OrdersAreRows ==
  ASSUME NEW shown \in SUBSET Sessions, NEW order \in SetToSeqs(shown)
  PROVE  order \in Seq(Sessions) /\ IsInjective(order)
<1>1. IsFiniteSet(shown)
  BY SessionAssumption, FS_Subset
<1>2. order \in Seq(shown) /\ IsInjective(order)
  BY <1>1, SeqOfSet
<1> QED  BY <1>2

LEMMA ApplyKeeps ==
  ASSUME SelectionInv, apply_finished_refresh PROVE SelectionInv'
<1>1. ListInv /\ OtherTypes
  BY SelectionMeans
<1>2. is_on_list /\ refresh' = "idle" /\ UNCHANGED <<mode, query, cover>>
  BY DEF apply_finished_refresh
<1>3. ASSUME NEW shown \in SUBSET Sessions, NEW order \in SetToSeqs(shown),
             edit_list(order), Records(SelectedPath, FALSE)
      PROVE  SelectionInv'
  <2>1. order \in Seq(Sessions) /\ IsInjective(order)
    BY OrdersAreRows
  <2>2. /\ ListInv' /\ anchor' = SelectedPath
        /\ anchor' \in Range(OnScreen') => SelectedPath' = anchor'
    BY <1>1, <1>3, <2>1, EditKeepsTheSelection
  <2>3. SelectedPath \in Sessions \cup {None}
    BY <1>1, SelectedPathIs
  <2>4. searching' \in BOOLEAN
    BY <1>3 DEF edit_list, waits
  <2>5. OtherTypes'
    BY <1>1, <1>2, <2>2, <2>3, <2>4 DEF OtherTypes, cover
  <2>6. IsKept(SelectedPath)
    BY <2>2 DEF IsKept
  <2> QED  BY <1>2, <1>3, <2>2, <2>3, <2>5, <2>6, UncoveredKeeps
<1>4. CASE UNCHANGED <<list, searching, history>>
  <2>1. UNCHANGED <<list, search, cover, history>>
    BY <1>2, <1>4 DEF search
  <2> QED  BY <1>2, <2>1, StillSelected
<1> QED  BY <1>3, <1>4 DEF apply_finished_refresh

LEMMA ReadAgainKeeps ==
  ASSUME SelectionInv, refresh_open_session PROVE SelectionInv'
<1>1. ListInv /\ OtherTypes /\ pending = None /\ open # None
      /\ history.shown = open
  BY SelectionMeans DEF refresh_open_session
<1>2. /\ open' \in {open, None} /\ pending' = None
      /\ UNCHANGED <<mode, query, dialog, refresh>>
  BY <1>1 DEF refresh_open_session
<1>3. BecomesShown
  BY <1>1 DEF BecomesShown
<1>4. CASE open \in Range(rows)
  <2>1. PICK order \in SetToSeqs(Range(rows) \ ({open} \ {open'})) :
          edit_list(order) /\ Records(SelectedPath, FALSE)
    BY <1>4 DEF refresh_open_session
  <2>2. Range(rows) \ ({open} \ {open'}) \in SUBSET Sessions
    BY <1>1, ListsMean DEF ListInv
  <2>3. order \in Seq(Sessions) /\ IsInjective(order)
    BY <2>1, <2>2, OrdersAreRows
  <2>4. /\ ListInv' /\ anchor' = SelectedPath
        /\ anchor' \in Range(OnScreen') => SelectedPath' = anchor'
    BY <1>1, <2>1, <2>3, EditKeepsTheSelection
  <2>5. SelectedPath \in Sessions \cup {None}
    BY <1>1, SelectedPathIs
  <2>6. searching' \in BOOLEAN
    BY <2>1 DEF edit_list, waits
  <2>7. OtherTypes'
    BY <1>1, <1>2, <2>4, <2>5, <2>6 DEF OtherTypes
  <2>8. IsKept(SelectedPath)
    BY <2>4 DEF IsKept
  <2>9. StaysShown(FALSE)
    BY <1>1, <1>2, <2>4, SelectionMeans DEF StaysShown
  <2> QED  BY <1>2, <1>3, <2>1, <2>4, <2>5, <2>7, <2>8, <2>9, RecordsKeep
<1>5. CASE open \notin Range(rows)
  <2>1. open' = None /\ UNCHANGED <<list, searching>> /\ Records(None, FALSE)
    BY <1>5 DEF refresh_open_session
  <2>2. UNCHANGED <<rows, filtered, selected>> /\ anchor' = anchor
    BY <2>1 DEF list
  <2>3. /\ ListInv' /\ OnScreen' = OnScreen /\ SelectedPath' = SelectedPath
    BY <1>1, <2>2, SameList
  <2>4. OtherTypes'
    BY <1>1, <1>2, <2>1, <2>2 DEF OtherTypes
  <2>5. StaysShown(FALSE)
    BY <1>1, <1>2, <2>1, <2>3, SelectionMeans DEF StaysShown
  <2> QED  BY <1>2, <1>3, <2>1, <2>3, <2>4, <2>5, NothingKept, RecordsKeep
<1> QED  BY <1>4, <1>5

LEMMA SelectionInit == Init => SelectionInv
<1> SUFFICES ASSUME Init PROVE SelectionInv
  OBVIOUS
<1>1. rows \in Seq(Sessions) /\ IsInjective(rows)
  BY OrdersAreRows DEF Init
<1>2. filtered = [i \in DOMAIN rows |-> i]
  BY DEF Init
<1>3. Lists(rows, filtered)
  BY <1>1, <1>2, AllRows
<1>4. selected = (IF rows = <<>> THEN None ELSE 1)
  BY DEF Init
<1>5. SelectedIn(filtered, selected)
  <2>1. rows = <<>> <=> DOMAIN rows = {}
    <3>1. DOMAIN rows = 1 .. Len(rows) /\ Len(rows) \in Nat
      BY <1>1
    <3>2. Len(rows) = 0 => rows = <<>>
      BY <1>1
    <3>3. DOMAIN rows = {} => Len(rows) = 0
      BY <3>1
    <3> QED  BY <3>1, <3>2, <3>3
  <2>2. DOMAIN filtered = DOMAIN rows
    BY <1>2
  <2>3. filtered = <<>> <=> DOMAIN filtered = {}
    BY <1>3, ListsMean
  <2>4. rows # <<>> => 1 \in DOMAIN rows
    <3>1. DOMAIN rows = 1 .. Len(rows) /\ Len(rows) \in Nat
      BY <1>1
    <3> QED  BY <2>1, <3>1
  <2> QED  BY <1>4, <2>1, <2>2, <2>3, <2>4 DEF SelectedIn
<1>6. ListInv
  BY <1>3, <1>5 DEF ListInv
<1>7. history = [kept |-> None, shown |-> None, lost |-> FALSE]
      /\ pending = None /\ open = None /\ dialog = "none"
  BY DEF Init
<1>8. history \in History /\ history.kept = None /\ history.shown = None
  BY <1>7 DEF History
<1>9. TypeOK
  <2>1. Range(rows) \subseteq Sessions /\ Range(filtered) \subseteq DOMAIN rows
    BY <1>3, ListsMean
  <2>2. IF filtered = <<>> THEN selected = None ELSE selected \in DOMAIN filtered
    BY <1>5 DEF SelectedIn
  <2>3. IsInjective(rows) /\ IsInjective(filtered)
    BY <1>3 DEF Lists
  <2> QED  BY <1>8, <2>1, <2>2, <2>3 DEF TypeOK, Init
<1>10. KeptInv /\ CoverInv
  BY <1>7, <1>8 DEF KeptInv, CoverInv, is_covered
<1>11. KeepsSelection /\ OpensWhatWasAsked /\ ShownIsSelected
  BY <1>7, <1>8 DEF KeepsSelection, OpensWhatWasAsked, ShownIsSelected
<1> QED  BY <1>6, <1>9, <1>10, <1>11 DEF SelectionInv

LEMMA SelectionNext == SelectionInv /\ [Next]_vars => SelectionInv'
<1> SUFFICES ASSUME SelectionInv, [Next]_vars PROVE SelectionInv'
  OBVIOUS
<1>1. CASE Select  BY <1>1, SelectKeeps
<1>2. CASE Type  BY <1>2, TypeKeeps
<1>3. CASE Toggle  BY <1>3, ToggleKeeps
<1>4. CASE Answer  BY <1>4, AnswerKeeps
<1>5. CASE request_open  BY <1>5, OpenKeeps
<1>6. CASE complete_pending_open  BY <1>6, OpenedKeeps
<1>7. CASE exit_view_mode  BY <1>7, ExitKeeps
<1>8. CASE Dialog  BY <1>8, DialogKeeps
<1>9. CASE Confirm  BY <1>9, ConfirmKeeps
<1>10. CASE submit_rename  BY <1>10, RenameKeeps
<1>11. CASE begin_refresh  BY <1>11, BeginKeeps
<1>12. CASE receive_refresh
  BY <1>12, StillSelected DEF receive_refresh
<1>13. CASE apply_finished_refresh  BY <1>13, ApplyKeeps
<1>14. CASE refresh_open_session  BY <1>14, ReadAgainKeeps
<1>15. CASE UNCHANGED vars
  <2>1. UNCHANGED <<list, search, cover, history>> /\ refresh' = refresh
    BY <1>15 DEF vars
  <2>2. refresh' \in {"idle", "running", "finished"}
    BY <2>1, SelectionMeans DEF OtherTypes
  <2> QED  BY <2>1, <2>2, StillSelected
<1> QED  BY <1>1, <1>2, <1>3, <1>4, <1>5, <1>6, <1>7, <1>8, <1>9, <1>10, <1>11,
            <1>12, <1>13, <1>14, <1>15 DEF Next

(* Every reachable state of the list has the invariant from which the      *)
(* properties below follow.                                                *)
THEOREM ListKeepsItsSelection == Spec => []SelectionInv
BY SelectionInit, SelectionNext, PTL DEF Spec

(* The list is well formed in every reachable state: after refreshes,      *)
(* deletes, renames and answers in any order, every index on screen is of  *)
(* a row and none is there twice (src/src/tui/app.rs, filtered).           *)
THEOREM ListIsTyped == Spec => []TypeOK
<1>1. SelectionInv => TypeOK
  BY DEF SelectionInv
<1> QED  BY <1>1, ListKeepsItsSelection, PTL

(* An edit of the list keeps the selection on its session until the next   *)
(* key (edit_list, select_anchor_or_first).                                *)
THEOREM EditsKeepTheSelection == Spec => []KeepsSelection
<1>1. SelectionInv => KeepsSelection
  BY DEF SelectionInv
<1> QED  BY <1>1, ListKeepsItsSelection, PTL

(* The viewer shows the session that was selected when it was asked for    *)
(* (request_open, complete_pending_open).                                  *)
THEOREM OpensTheSessionAsked == Spec => []OpensWhatWasAsked
<1>1. SelectionInv => OpensWhatWasAsked
  BY DEF SelectionInv
<1> QED  BY <1>1, ListKeepsItsSelection, PTL

(* What is done to the session in the viewer, or under a dialog, is done   *)
(* to the selected one (get_selected_path's callers).                      *)
THEOREM ShownSessionIsSelected == Spec => []ShownIsSelected
<1>1. SelectionInv => ShownIsSelected
  BY DEF SelectionInv
<1> QED  BY <1>1, ListKeepsItsSelection, PTL

-----------------------------------------------------------------------------
(* What an edit leaves on screen *)

RowsStay ==
  (/\ rows' # rows /\ query' = query
   /\ waits \/ (dialog = "confirm" /\ dialog' = "none"))
    => OnScreen' = Keep(OnScreen,
                        {i \in DOMAIN OnScreen : OnScreen[i] \in Range(rows')})

LEMMA ApplyLeavesRows ==
  ASSUME SelectionInv, apply_finished_refresh PROVE RowsStay
<1>1. ListInv
  BY SelectionMeans
<1>2. dialog = "none"
  BY DEF apply_finished_refresh, is_on_list, is_covered
<1>3. ASSUME NEW shown \in SUBSET Sessions, NEW order \in SetToSeqs(shown),
             edit_list(order)
      PROVE  RowsStay
  <2>1. order \in Seq(Sessions) /\ IsInjective(order)
    BY OrdersAreRows
  <2> QED  BY <1>1, <1>2, <1>3, <2>1, EditKeepsTheSelection DEF RowsStay
<1>4. CASE UNCHANGED <<list, searching, history>>
  BY <1>4 DEF RowsStay, list
<1> QED  BY <1>3, <1>4 DEF apply_finished_refresh

LEMMA ReadAgainLeavesRows ==
  ASSUME SelectionInv, refresh_open_session PROVE RowsStay
<1>1. ListInv
  BY SelectionMeans
<1>2. dialog' = dialog
  BY DEF refresh_open_session
<1>3. CASE open \in Range(rows)
  <2>1. PICK order \in SetToSeqs(Range(rows) \ ({open} \ {open'})) :
          edit_list(order)
    BY <1>3 DEF refresh_open_session
  <2>2. Range(rows) \ ({open} \ {open'}) \in SUBSET Sessions
    BY <1>1, ListsMean DEF ListInv
  <2>3. order \in Seq(Sessions) /\ IsInjective(order)
    BY <2>1, <2>2, OrdersAreRows
  <2> QED  BY <1>1, <1>2, <2>1, <2>3, EditKeepsTheSelection DEF RowsStay
<1>4. CASE open \notin Range(rows)
  BY <1>4 DEF refresh_open_session, RowsStay, list
<1> QED  BY <1>3, <1>4

(* The keys that run a query send it to a worker when its answer is to     *)
(* wait, and leave the rows.                                               *)
LEMMA KeysLeaveRows ==
  ASSUME SelectionInv, Type \/ Toggle PROVE RowsStay
<1>1. dialog = "none"
  BY DEF Type, Toggle, is_on_list, is_covered
<1>2. CASE query' = query /\ waits
  <2>1. query' = "text" /\ query # None
    BY <1>2, SessionAssumption DEF waits
  <2>2. rows' = rows
    BY <2>1 DEF Type, Toggle, dispatch_search
  <2> QED  BY <2>2 DEF RowsStay
<1>3. CASE ~(query' = query /\ waits)
  BY <1>1, <1>3 DEF RowsStay
<1> QED  BY <1>2, <1>3

LEMMA DeletesLeaveRows ==
  ASSUME SelectionInv, Confirm PROVE RowsStay
<1>1. ListInv
  BY SelectionMeans
<1>2. CASE selected # None /\ remove_selected_from_list
  BY <1>1, <1>2, RemoveKeepsTheOthers DEF RowsStay
<1>3. CASE rows' = rows
  BY <1>3 DEF RowsStay
<1> QED  BY <1>2, <1>3 DEF Confirm

LEMMA RenamesLeaveRows ==
  ASSUME SelectionInv, submit_rename PROVE RowsStay
<1>1. ListInv /\ dialog = "rename"
  BY SelectionMeans DEF submit_rename
<1>2. CASE Renamed
  BY <1>1, <1>2, RenamedSelects DEF RowsStay
<1>3. CASE rows' = rows
  BY <1>3 DEF RowsStay
<1> QED  BY <1>2, <1>3 DEF submit_rename

(* A delete, and an edit under a query whose answer is awaited, leave on   *)
(* screen the sessions that were there, in their order                     *)
(* (remove_selected_from_list, edit_list).                                 *)
THEOREM EditsLeaveTheRowsOnScreen == Spec => RowsOnScreenStay
<1>1. SelectionInv /\ [Next]_vars => [RowsStay]_vars
  <2> SUFFICES ASSUME SelectionInv, Next PROVE RowsStay
    OBVIOUS
  <2>1. CASE rows' = rows
    BY <2>1 DEF RowsStay
  <2>2. CASE rows' # rows
    <3>1. \/ Type \/ Toggle \/ Confirm \/ submit_rename
          \/ apply_finished_refresh \/ refresh_open_session
      BY <2>2 DEF Next, Select, Answer, request_open, complete_pending_open,
                  exit_view_mode, Dialog, begin_refresh, receive_refresh, list
    <3> QED  BY <3>1, ApplyLeavesRows, ReadAgainLeavesRows, KeysLeaveRows,
                DeletesLeaveRows, RenamesLeaveRows
  <2> QED  BY <2>1, <2>2
<1>2. Spec => [][RowsStay]_vars
  BY <1>1, ListKeepsItsSelection, PTL DEF Spec
<1> QED  BY <1>2, PTL DEF RowsOnScreenStay, RowsStay
=============================================================================
