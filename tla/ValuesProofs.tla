---------------------------- MODULE ValuesProofs ----------------------------
(***************************************************************************)
(* That values behave as values although they share nodes, for any         *)
(* variables, addresses, contents and widths of groups (ValuesAreValues).  *)
(*                                                                         *)
(* The invariant is that memory is in order: no member and no variable     *)
(* refers to a node that is gone, and each node has at least as many       *)
(* owners as there are references to it.  The operations pass through      *)
(* states in which values are temporaries, or wait to be destroyed, so the *)
(* order of a memory (Good) is stated with such values and counts their    *)
(* references too.  What a variable stands for stays because nodes do not  *)
(* change: every memory here is a part of the one before or after it, but  *)
(* for the owners (Part).                                                  *)
(***************************************************************************)
EXTENDS Values, SequenceTheorems, FiniteSetTheorems, WellFoundedInduction, TLAPS

(* Values, and nodes.                                                      *)
Proper == {v \in ValueType : v.at # 0 => v.index \in Counted}

NodeType == [owners : Nat \ {0}, content : Contents \cup {"none"}, of : Seq(Proper)]

IsHeap(ns) ==
    /\ ns = [n \in DOMAIN ns |-> ns[n]]
    /\ DOMAIN ns \subseteq Addresses
    /\ \A n \in DOMAIN ns : ns[n] \in NodeType

(* No member refers to a node that is gone.                                *)
Closed(ns) ==
    \A n \in DOMAIN ns : \A i \in DOMAIN ns[n].of : ns[n].of[i].at \in DOMAIN ns \cup {0}

(* The references to a node: from variables, from members, and from values *)
(* that are temporaries, or about to be destroyed.                         *)
SlotsOf(vs, n) == {s \in Slots : vs[s].at = n}
PlacesOf(ns, n) == {p \in MemberPlaces(ns) : ns[p[1]].of[p[2]].at = n}
ThoseOf(ts, n) == {i \in DOMAIN ts : ts[i].at = n}

AllReferences(vs, ns, ts, n) ==
    Cardinality(SlotsOf(vs, n)) + Cardinality(PlacesOf(ns, n)) + Cardinality(ThoseOf(ts, n))

(* The memory ns, with the variables vs and the temporaries ts.            *)
Good(vs, ns, ts) ==
    /\ vs \in [Slots -> Proper]
    /\ IsHeap(ns)
    /\ Closed(ns)
    /\ ts \in Seq(Proper)
    /\ \A s \in Slots : vs[s].at \in DOMAIN ns \cup {0}
    /\ \A i \in DOMAIN ts : ts[i].at \in DOMAIN ns \cup {0}
    /\ \A n \in DOMAIN ns : AllReferences(vs, ns, ts, n) <= ns[n].owners

-----------------------------------------------------------------------------
(* Induction over the natural numbers, for sets.                           *)
LEMMA SetInduction ==
    ASSUME NEW S, 0 \in S, \A n \in Nat : n \in S => n + 1 \in S
    PROVE  Nat \subseteq S
<1> DEFINE T == Nat \ S
<1>1. SUFFICES ASSUME T # {} PROVE FALSE
  OBVIOUS
<1>2. PICK x \in T : \A y \in T : ~(<<y, x>> \in OpToRel(<, Nat))
  <2>1. T \subseteq Nat
    OBVIOUS
  <2> HIDE DEF T
  <2> QED
    BY <1>1, <2>1, NatLessThanWellFounded, WFMin
<1>3. x # 0 /\ x - 1 \in Nat /\ x - 1 \notin T
  <2>1. x # 0 /\ x - 1 \in Nat
    OBVIOUS
  <2>2. <<x - 1, x>> \in OpToRel(<, Nat)
    BY <2>1 DEF OpToRel
  <2> QED
    BY <1>2, <2>1, <2>2
<1> QED
  BY <1>3

(* A set as large as another.                                              *)
LEMMA SameSize ==
    ASSUME NEW S, NEW T, IsFiniteSet(S), NEW f \in [S -> T],
           \A x, y \in S : f[x] = f[y] => x = y,
           \A y \in T : \E x \in S : f[x] = y
    PROVE  IsFiniteSet(T) /\ Cardinality(T) = Cardinality(S)
<1>1. f \in Bijection(S, T)
  BY DEF Bijection, Injection, Surjection, IsInjective
<1>2. ExistsBijection(S, T)
  BY <1>1 DEF ExistsBijection
<1> QED
  BY <1>2, FS_Bijection

(* Two sets that have nothing in common.                                   *)
LEMMA DisjointSize ==
    ASSUME NEW S, NEW T, IsFiniteSet(S), IsFiniteSet(T), S \cap T = {}
    PROVE  /\ IsFiniteSet(S \cup T)
           /\ Cardinality(S \cup T) = Cardinality(S) + Cardinality(T)
           /\ Cardinality(S) \in Nat /\ Cardinality(T) \in Nat
<1>1. Cardinality(S) \in Nat /\ Cardinality(T) \in Nat
  BY FS_CardinalityType
<1>2. Cardinality(S \cap T) = 0
  BY FS_EmptySet
<1>3. IsFiniteSet(S \cup T)
      /\ Cardinality(S \cup T) = Cardinality(S) + Cardinality(T) - Cardinality(S \cap T)
  BY FS_Union
<1> QED
  BY <1>1, <1>2, <1>3

-----------------------------------------------------------------------------
(* Counting references.                                                    *)

LEMMA ThoseFinite ==
    ASSUME NEW ts \in Seq(Proper), NEW n
    PROVE  IsFiniteSet(ThoseOf(ts, n)) /\ Cardinality(ThoseOf(ts, n)) \in Nat
<1>1. DOMAIN ts = 1 .. Len(ts) /\ Len(ts) \in Nat
  BY LenProperties
<1>2. IsFiniteSet(1 .. Len(ts))
  BY <1>1, FS_Interval
<1>3. ThoseOf(ts, n) \in SUBSET (1 .. Len(ts))
  BY <1>1 DEF ThoseOf
<1>4. IsFiniteSet(ThoseOf(ts, n))
  BY <1>2, <1>3, FS_Subset
<1> QED
  BY <1>4, FS_CardinalityType

(* Temporaries are counted one by one.                                     *)
LEMMA ThoseOfBoth ==
    ASSUME NEW a \in Seq(Proper), NEW b \in Seq(Proper), NEW n
    PROVE  /\ a \o b \in Seq(Proper)
           /\ Cardinality(ThoseOf(a \o b, n)) =
                  Cardinality(ThoseOf(a, n)) + Cardinality(ThoseOf(b, n))
<1> DEFINE l == Len(a)
           moved == {i + l : i \in ThoseOf(b, n)}
           f == [i \in ThoseOf(b, n) |-> i + l]
<1>1. l \in Nat /\ Len(b) \in Nat /\ DOMAIN a = 1 .. l /\ DOMAIN b = 1 .. Len(b)
  BY LenProperties
<1>2. /\ a \o b \in Seq(Proper)
      /\ Len(a \o b) = l + Len(b)
      /\ \A i \in 1 .. l + Len(b) : (a \o b)[i] = IF i <= l THEN a[i] ELSE b[i - l]
  BY ConcatProperties
<1>3. DOMAIN (a \o b) = 1 .. l + Len(b)
  BY <1>2, LenProperties
<1> HIDE DEF l
<1>4. IsFiniteSet(moved) /\ Cardinality(moved) = Cardinality(ThoseOf(b, n))
  <2>1. ThoseOf(b, n) \subseteq Int
    BY <1>1 DEF ThoseOf
  <2>2. f \in [ThoseOf(b, n) -> moved]
    OBVIOUS
  <2>3. \A x, y \in ThoseOf(b, n) : f[x] = f[y] => x = y
    BY <1>1, <2>1
  <2>4. \A y \in moved : \E x \in ThoseOf(b, n) : f[x] = y
    OBVIOUS
  <2>5. IsFiniteSet(ThoseOf(b, n))
    BY ThoseFinite
  <2> HIDE DEF moved, f
  <2> QED
    BY <2>2, <2>3, <2>4, <2>5, SameSize
<1>5. ThoseOf(a \o b, n) = ThoseOf(a, n) \cup moved
  <2>1. ASSUME NEW i \in ThoseOf(a \o b, n) PROVE i \in ThoseOf(a, n) \cup moved
    <3>1. i \in 1 .. l + Len(b) /\ (a \o b)[i].at = n
      BY <1>3 DEF ThoseOf
    <3>2. CASE i <= l
      BY <1>1, <1>2, <3>1, <3>2 DEF ThoseOf
    <3>3. CASE ~(i <= l)
      <4>1. i - l \in 1 .. Len(b) /\ b[i - l].at = n
        BY <1>1, <1>2, <3>1, <3>3
      <4>2. i - l \in ThoseOf(b, n)
        BY <1>1, <4>1 DEF ThoseOf
      <4>3. i = (i - l) + l
        BY <1>1, <3>1
      <4> QED
        BY <4>2, <4>3
    <3> QED
      BY <3>2, <3>3
  <2>2. ASSUME NEW i \in ThoseOf(a, n) PROVE i \in ThoseOf(a \o b, n)
    <3>1. i \in 1 .. l /\ a[i].at = n
      BY <1>1 DEF ThoseOf
    <3>2. i \in 1 .. l + Len(b) /\ i <= l
      BY <1>1, <3>1
    <3> QED
      BY <1>2, <1>3, <3>1, <3>2 DEF ThoseOf
  <2>3. ASSUME NEW j \in ThoseOf(b, n) PROVE j + l \in ThoseOf(a \o b, n)
    <3>1. j \in 1 .. Len(b) /\ b[j].at = n
      BY <1>1 DEF ThoseOf
    <3>2. j + l \in 1 .. l + Len(b) /\ ~(j + l <= l) /\ (j + l) - l = j
      BY <1>1, <3>1
    <3>3. (a \o b)[j + l] = b[j]
      BY <1>2, <3>2
    <3> QED
      BY <1>3, <3>1, <3>2, <3>3 DEF ThoseOf
  <2> QED
    BY <2>1, <2>2, <2>3
<1>6. ThoseOf(a, n) \cap moved = {}
  BY <1>1 DEF ThoseOf
<1>7. IsFiniteSet(ThoseOf(a, n))
  BY ThoseFinite
<1> HIDE DEF moved
<1>8. Cardinality(ThoseOf(a, n) \cup moved) = Cardinality(ThoseOf(a, n)) + Cardinality(moved)
  BY <1>4, <1>6, <1>7, DisjointSize
<1> QED
  BY <1>2, <1>4, <1>5, <1>8

LEMMA ThoseOfOne ==
    ASSUME NEW v \in Proper, NEW n
    PROVE  /\ <<v>> \in Seq(Proper)
           /\ Cardinality(ThoseOf(<<v>>, n)) = IF v.at = n THEN 1 ELSE 0
<1>1. <<v>> \in Seq(Proper) /\ DOMAIN <<v>> = {1} /\ <<v>>[1] = v
  OBVIOUS
<1>2. v.at = n => ThoseOf(<<v>>, n) = {1}
  BY <1>1 DEF ThoseOf
<1>3. v.at # n => ThoseOf(<<v>>, n) = {}
  BY <1>1 DEF ThoseOf
<1>4. Cardinality({1}) = 1
  BY FS_Singleton, Zenon
<1>5. Cardinality({}) = 0
  BY FS_EmptySet, Zenon
<1> QED
  BY <1>1, <1>2, <1>3, <1>4, <1>5

LEMMA ThoseOfNone ==
    ASSUME NEW n
    PROVE  <<>> \in Seq(Proper) /\ Cardinality(ThoseOf(<<>>, n)) = 0
<1>1. <<>> \in Seq(Proper) /\ DOMAIN <<>> = {}
  OBVIOUS
<1>2. ThoseOf(<<>>, n) = {}
  BY <1>1 DEF ThoseOf
<1> QED
  BY <1>1, <1>2, FS_EmptySet, Zenon

LEMMA ThoseOfTail ==
    ASSUME NEW ts \in Seq(Proper), ts # <<>>, NEW n
    PROVE  /\ Head(ts) \in Proper /\ Tail(ts) \in Seq(Proper)
           /\ Cardinality(ThoseOf(ts, n)) =
                  (IF Head(ts).at = n THEN 1 ELSE 0) + Cardinality(ThoseOf(Tail(ts), n))
<1>1. Head(ts) \in Proper /\ Tail(ts) \in Seq(Proper)
  BY HeadTailProperties
<1>2. ts = <<Head(ts)>> \o Tail(ts)
  <2>1. /\ Len(ts) \in Nat /\ Len(ts) >= 1 /\ Len(Tail(ts)) = Len(ts) - 1
        /\ \A i \in 1 .. Len(Tail(ts)) : Tail(ts)[i] = ts[i + 1]
        /\ Head(ts) = ts[1]
    BY HeadTailProperties, LenProperties, EmptySeq
  <2>2. <<Head(ts)>> \in Seq(Proper) /\ Len(<<Head(ts)>>) = 1 /\ <<Head(ts)>>[1] = ts[1]
    BY <1>1, <2>1
  <2>3. /\ <<Head(ts)>> \o Tail(ts) \in Seq(Proper)
        /\ Len(<<Head(ts)>> \o Tail(ts)) = Len(ts)
        /\ \A i \in 1 .. Len(ts) : (<<Head(ts)>> \o Tail(ts))[i] =
                                       IF i <= 1 THEN <<Head(ts)>>[i] ELSE Tail(ts)[i - 1]
    <3>1. 1 + Len(Tail(ts)) = Len(ts)
      BY <2>1
    <3> QED
      BY <1>1, <2>2, <3>1, ConcatProperties
  <2>4. ASSUME NEW i \in 1 .. Len(ts) PROVE (<<Head(ts)>> \o Tail(ts))[i] = ts[i]
    <3>1. CASE i = 1
      BY <2>2, <2>3, <3>1
    <3>2. CASE i # 1
      <4>1. i - 1 \in 1 .. Len(Tail(ts)) /\ (i - 1) + 1 = i /\ ~(i <= 1)
        BY <2>1, <3>2
      <4> QED
        BY <2>1, <2>3, <4>1
    <3> QED
      BY <3>1, <3>2
  <2> QED
    BY <2>3, <2>4, SeqEqual
<1>3. Cardinality(ThoseOf(<<Head(ts)>> \o Tail(ts), n)) =
          Cardinality(ThoseOf(<<Head(ts)>>, n)) + Cardinality(ThoseOf(Tail(ts), n))
  <2>1. <<Head(ts)>> \in Seq(Proper)
    BY <1>1, ThoseOfOne
  <2> QED
    BY <1>1, <2>1, ThoseOfBoth
<1>4. Cardinality(ThoseOf(<<Head(ts)>>, n)) = IF Head(ts).at = n THEN 1 ELSE 0
  BY <1>1, ThoseOfOne
<1> QED
  BY <1>1, <1>2, <1>3, <1>4

LEMMA SlotsFinite ==
    ASSUME NEW vs, NEW n
    PROVE  IsFiniteSet(SlotsOf(vs, n)) /\ Cardinality(SlotsOf(vs, n)) \in Nat
<1>1. SlotsOf(vs, n) \in SUBSET Slots
  BY DEF SlotsOf
<1>2. IsFiniteSet(SlotsOf(vs, n))
  BY <1>1, StorageAssumption, FS_Subset
<1> QED
  BY <1>2, FS_CardinalityType

LEMMA PlacesFinite ==
    ASSUME NEW ns, IsHeap(ns)
    PROVE  /\ IsFiniteSet(MemberPlaces(ns)) /\ Cardinality(MemberPlaces(ns)) \in Nat
           /\ \A n : IsFiniteSet(PlacesOf(ns, n)) /\ Cardinality(PlacesOf(ns, n)) \in Nat
<1> DEFINE Of(n) == {<<n, i>> : i \in DOMAIN ns[n].of}
           R == {Of(n) : n \in DOMAIN ns}
           f == [n \in DOMAIN ns |-> Of(n)]
<1>1. IsFiniteSet(DOMAIN ns)
  BY StorageAssumption, FS_Subset DEF IsHeap
<1>2. IsFiniteSet(R)
  <2>1. f \in Surjection(DOMAIN ns, R)
    BY DEF Surjection
  <2> HIDE DEF R, f
  <2> QED
    BY <1>1, <2>1, FS_Surjection
<1>3. ASSUME NEW n \in DOMAIN ns PROVE IsFiniteSet(Of(n))
  <2> DEFINE D == DOMAIN ns[n].of
             g == [i \in D |-> <<n, i>>]
  <2>1. IsFiniteSet(D)
    <3>1. ns[n].of \in Seq(Proper)
      BY DEF IsHeap, NodeType
    <3>2. D = 1 .. Len(ns[n].of) /\ Len(ns[n].of) \in Nat
      BY <3>1, LenProperties
    <3> QED
      BY <3>2, FS_Interval
  <2>2. g \in Surjection(D, Of(n))
    BY DEF Surjection
  <2> HIDE DEF g, Of, D
  <2> QED
    BY <2>1, <2>2, FS_Surjection
<1>4. MemberPlaces(ns) = UNION R
  BY DEF MemberPlaces
<1>5. \A T \in R : IsFiniteSet(T)
  BY <1>3
<1> HIDE DEF R
<1>6. IsFiniteSet(MemberPlaces(ns))
  BY <1>2, <1>4, <1>5, FS_UNION
<1>7. ASSUME NEW n PROVE IsFiniteSet(PlacesOf(ns, n))
  <2>1. PlacesOf(ns, n) \in SUBSET MemberPlaces(ns)
    BY DEF PlacesOf
  <2> QED
    BY <1>6, <2>1, FS_Subset
<1> QED
  BY <1>6, <1>7, FS_CardinalityType

-----------------------------------------------------------------------------
(* What memories share.                                                    *)

LEMMA PlaceIs ==
    ASSUME NEW ns, NEW n
    PROVE  /\ \A p \in PlacesOf(ns, n) :
                  \E k \in DOMAIN ns : \E i \in DOMAIN ns[k].of :
                      p = <<k, i>> /\ ns[k].of[i].at = n
           /\ \A k \in DOMAIN ns : \A i \in DOMAIN ns[k].of :
                  <<k, i>> \in PlacesOf(ns, n) <=> ns[k].of[i].at = n
<1>1. ASSUME NEW p \in PlacesOf(ns, n)
      PROVE  \E k \in DOMAIN ns : \E i \in DOMAIN ns[k].of :
                 p = <<k, i>> /\ ns[k].of[i].at = n
  <2>1. p \in MemberPlaces(ns) /\ ns[p[1]].of[p[2]].at = n
    BY <1>1 DEF PlacesOf
  <2>2. PICK k \in DOMAIN ns : p \in {<<k, i>> : i \in DOMAIN ns[k].of}
    BY <2>1 DEF MemberPlaces
  <2>3. PICK i \in DOMAIN ns[k].of : p = <<k, i>>
    BY <2>2
  <2>4. p[1] = k /\ p[2] = i
    BY <2>3
  <2> QED
    BY <2>1, <2>3, <2>4
<1>2. ASSUME NEW k \in DOMAIN ns, NEW i \in DOMAIN ns[k].of
      PROVE  <<k, i>> \in PlacesOf(ns, n) <=> ns[k].of[i].at = n
  <2>1. <<k, i>> \in MemberPlaces(ns)
    BY DEF MemberPlaces
  <2>2. <<k, i>>[1] = k /\ <<k, i>>[2] = i
    OBVIOUS
  <2> QED
    BY <2>1, <2>2 DEF PlacesOf
<1> QED
  BY <1>1, <1>2

(* A memory that is part of another, but for the numbers of owners.        *)
Part(a, b) ==
    /\ DOMAIN a \subseteq DOMAIN b
    /\ \A n \in DOMAIN a : a[n].of = b[n].of /\ a[n].content = b[n].content

LEMMA PartOfPart ==
    ASSUME NEW a, NEW b, NEW c, Part(a, b), Part(b, c)
    PROVE  Part(a, c)
  BY DEF Part

(* Where no node goes, members refer to what they referred to.             *)
LEMMA SamePlaces ==
    ASSUME NEW a, NEW b, Part(a, b), DOMAIN a = DOMAIN b, NEW n
    PROVE  PlacesOf(a, n) = PlacesOf(b, n)
<1>1. \A p \in PlacesOf(a, n) : p \in PlacesOf(b, n)
  BY PlaceIs DEF Part
<1>2. \A p \in PlacesOf(b, n) : p \in PlacesOf(a, n)
  BY PlaceIs DEF Part
<1> QED
  BY <1>1, <1>2

(* A node takes the references of its members with it.                     *)
LEMMA PlacesWithout ==
    ASSUME NEW a, NEW b, IsHeap(a), NEW n \in DOMAIN a, DOMAIN b = DOMAIN a \ {n},
           \A k \in DOMAIN b : b[k].of = a[k].of, IsHeap(b), NEW m
    PROVE  Cardinality(PlacesOf(a, m)) = Cardinality(PlacesOf(b, m))
                                             + Cardinality(ThoseOf(a[n].of, m))
<1> DEFINE of == a[n].of
           its == {<<n, i>> : i \in ThoseOf(of, m)}
           f == [i \in ThoseOf(of, m) |-> <<n, i>>]
<1>1. of \in Seq(Proper)
  BY DEF IsHeap, NodeType
<1> HIDE DEF of
<1>2. IsFiniteSet(its) /\ Cardinality(its) = Cardinality(ThoseOf(of, m))
  <2>1. IsFiniteSet(ThoseOf(of, m))
    BY <1>1, ThoseFinite
  <2>2. f \in [ThoseOf(of, m) -> its]
    OBVIOUS
  <2>3. \A x, y \in ThoseOf(of, m) : f[x] = f[y] => x = y
    OBVIOUS
  <2>4. \A y \in its : \E x \in ThoseOf(of, m) : f[x] = y
    OBVIOUS
  <2> HIDE DEF its, f
  <2> QED
    BY <2>1, <2>2, <2>3, <2>4, SameSize
<1>3. PlacesOf(a, m) = PlacesOf(b, m) \cup its
  <2>1. ASSUME NEW p \in PlacesOf(a, m) PROVE p \in PlacesOf(b, m) \cup its
    <3>1. PICK k \in DOMAIN a : \E i \in DOMAIN a[k].of : p = <<k, i>> /\ a[k].of[i].at = m
      BY <2>1, PlaceIs
    <3>2. PICK i \in DOMAIN a[k].of : p = <<k, i>> /\ a[k].of[i].at = m
      BY <3>1
    <3>3. CASE k = n
      BY <3>2, <3>3 DEF ThoseOf, of
    <3>4. CASE k # n
      <4>1. k \in DOMAIN b /\ b[k].of = a[k].of
        BY <3>4
      <4> QED
        BY <3>2, <4>1, PlaceIs
    <3> QED
      BY <3>3, <3>4
  <2>2. ASSUME NEW p \in PlacesOf(b, m) PROVE p \in PlacesOf(a, m)
    <3>1. PICK k \in DOMAIN b : \E i \in DOMAIN b[k].of : p = <<k, i>> /\ b[k].of[i].at = m
      BY <2>2, PlaceIs
    <3>2. PICK i \in DOMAIN b[k].of : p = <<k, i>> /\ b[k].of[i].at = m
      BY <3>1
    <3>3. k \in DOMAIN a /\ b[k].of = a[k].of
      OBVIOUS
    <3> QED
      BY <3>2, <3>3, PlaceIs
  <2>3. ASSUME NEW i \in ThoseOf(of, m) PROVE <<n, i>> \in PlacesOf(a, m)
    <3>1. i \in DOMAIN a[n].of /\ a[n].of[i].at = m
      BY <2>3 DEF ThoseOf, of
    <3> QED
      BY <3>1, PlaceIs
  <2> QED
    BY <2>1, <2>2, <2>3
<1>4. PlacesOf(b, m) \cap its = {}
  <2>1. ASSUME NEW i \in ThoseOf(of, m), <<n, i>> \in PlacesOf(b, m) PROVE FALSE
    <3>1. PICK k \in DOMAIN b : \E j \in DOMAIN b[k].of : <<n, i>> = <<k, j>> /\ b[k].of[j].at = m
      BY <2>1, PlaceIs
    <3>2. n = k
      BY <3>1
    <3> QED
      BY <3>2
  <2> QED
    BY <2>1
<1>5. IsFiniteSet(PlacesOf(b, m))
  BY PlacesFinite
<1> HIDE DEF its
<1>6. Cardinality(PlacesOf(b, m) \cup its) = Cardinality(PlacesOf(b, m)) + Cardinality(its)
  BY <1>2, <1>4, <1>5, DisjointSize
<1> QED
  BY <1>2, <1>3, <1>6 DEF of

(* All counts are numbers.                                                 *)
LEMMA AllCounted ==
    ASSUME NEW vs, NEW ns, IsHeap(ns), NEW ts \in Seq(Proper), NEW n
    PROVE  /\ Cardinality(SlotsOf(vs, n)) \in Nat /\ Cardinality(PlacesOf(ns, n)) \in Nat
           /\ Cardinality(ThoseOf(ts, n)) \in Nat /\ AllReferences(vs, ns, ts, n) \in Nat
<1>1. /\ Cardinality(SlotsOf(vs, n)) \in Nat /\ Cardinality(PlacesOf(ns, n)) \in Nat
      /\ Cardinality(ThoseOf(ts, n)) \in Nat
  BY SlotsFinite, PlacesFinite, ThoseFinite
<1> QED
  BY <1>1 DEF AllReferences

(* Temporaries may be forgotten; then nodes have more owners than          *)
(* references.                                                             *)
LEMMA Forget ==
    ASSUME NEW vs, NEW ns, NEW ts, Good(vs, ns, ts)
    PROVE  Good(vs, ns, <<>>)
<1>1. <<>> \in Seq(Proper) /\ DOMAIN <<>> = {}
  OBVIOUS
<1>2. ASSUME NEW n \in DOMAIN ns PROVE AllReferences(vs, ns, <<>>, n) <= ns[n].owners
  <2>1. AllReferences(vs, ns, ts, n) <= ns[n].owners /\ IsHeap(ns) /\ ts \in Seq(Proper)
    BY DEF Good
  <2>2. ns[n].owners \in Nat
    BY <2>1 DEF IsHeap, NodeType
  <2>3. Cardinality(ThoseOf(<<>>, n)) = 0
    BY ThoseOfNone
  <2>4. /\ Cardinality(SlotsOf(vs, n)) \in Nat /\ Cardinality(PlacesOf(ns, n)) \in Nat
        /\ Cardinality(ThoseOf(ts, n)) \in Nat
    BY <2>1, AllCounted
  <2> QED
    BY <2>1, <2>2, <2>3, <2>4 DEF AllReferences
<1> QED
  BY <1>1, <1>2 DEF Good

(* A temporary that refers to nothing.                                     *)
LEMMA Fresh ==
    ASSUME NEW vs, NEW ns, Good(vs, ns, <<>>), NEW v \in Proper, v.at = 0
    PROVE  Good(vs, ns, <<v>>)
<1>1. <<v>> \in Seq(Proper) /\ \A i \in DOMAIN <<v>> : <<v>>[i] = v
  OBVIOUS
<1>2. ASSUME NEW n \in DOMAIN ns PROVE AllReferences(vs, ns, <<v>>, n) <= ns[n].owners
  <2>1. n # 0
    BY StorageAssumption DEF Good, IsHeap
  <2>2. Cardinality(ThoseOf(<<v>>, n)) = 0 /\ Cardinality(ThoseOf(<<>>, n)) = 0
    BY <2>1, ThoseOfOne, ThoseOfNone
  <2>3. AllReferences(vs, ns, <<>>, n) <= ns[n].owners
    BY DEF Good
  <2> QED
    BY <2>2, <2>3 DEF AllReferences
<1> QED
  BY <1>1, <1>2 DEF Good

(* A variable and a temporary change places.                               *)
LEMMA Swap ==
    ASSUME NEW vs, NEW ns, NEW v, Good(vs, ns, <<v>>), NEW s \in Slots
    PROVE  Good([vs EXCEPT ![s] = v], ns, <<vs[s]>>) /\ vs[s] \in Proper /\ v \in Proper
<1> DEFINE ws == [vs EXCEPT ![s] = v]
           u == vs[s]
<1>1. v \in Proper /\ v.at \in DOMAIN ns \cup {0}
  <2>1. <<v>> \in Seq(Proper) /\ 1 \in DOMAIN <<v>> /\ <<v>>[1] = v
    BY DEF Good
  <2>2. v \in Proper
    BY <2>1, ElementOfSeq, LenProperties
  <2> QED
    BY <2>1, <2>2 DEF Good
<1>2. u \in Proper /\ u.at \in DOMAIN ns \cup {0} /\ vs \in [Slots -> Proper]
  BY DEF Good
<1>3. ws \in [Slots -> Proper] /\ \A t \in Slots : ws[t] = IF t = s THEN v ELSE vs[t]
  BY <1>1, <1>2
<1>4. <<u>> \in Seq(Proper) /\ \A i \in DOMAIN <<u>> : <<u>>[i] = u
  BY <1>2
<1> HIDE DEF ws, u
<1>5. ASSUME NEW n \in DOMAIN ns PROVE AllReferences(ws, ns, <<u>>, n) <= ns[n].owners
  <2> DEFINE A == SlotsOf(vs, n)
             B == SlotsOf(ws, n)
             U == IF u.at = n THEN 1 ELSE 0
             V == IF v.at = n THEN 1 ELSE 0
  <2>1. IsFiniteSet(A) /\ Cardinality(A) \in Nat
    BY SlotsFinite
  <2>2. s \in A <=> u.at = n
    BY DEF SlotsOf, u
  <2>3. v.at = n => B = A \cup {s}
    BY <1>3 DEF SlotsOf
  <2>4. v.at # n => B = A \ {s}
    BY <1>3 DEF SlotsOf
  <2>5. Cardinality(A \cup {s}) = IF s \in A THEN Cardinality(A) ELSE Cardinality(A) + 1
    BY <2>1, FS_AddElement
  <2>6. Cardinality(A \ {s}) = IF s \in A THEN Cardinality(A) - 1 ELSE Cardinality(A)
    BY <2>1, FS_RemoveElement
  <2> HIDE DEF A, B
  <2>7. Cardinality(B) + U = Cardinality(A) + V
    <3>1. CASE u.at = n /\ v.at = n
      BY <2>1, <2>2, <2>3, <2>5, <3>1
    <3>2. CASE u.at = n /\ v.at # n
      <4>1. U = 1 /\ V = 0 /\ Cardinality(B) = Cardinality(A) - 1
        BY <2>1, <2>2, <2>4, <2>6, <3>2
      <4> QED
        BY <2>1, <4>1
    <3>3. CASE u.at # n /\ v.at = n
      <4>1. U = 0 /\ V = 1 /\ Cardinality(B) = Cardinality(A) + 1
        BY <2>1, <2>2, <2>3, <2>5, <3>3
      <4> QED
        BY <2>1, <4>1
    <3>4. CASE u.at # n /\ v.at # n
      BY <2>1, <2>2, <2>4, <2>6, <3>4
    <3> QED
      BY <3>1, <3>2, <3>3, <3>4
  <2>8. Cardinality(ThoseOf(<<u>>, n)) = U /\ Cardinality(ThoseOf(<<v>>, n)) = V
    BY <1>1, <1>2, ThoseOfOne
  <2>9. AllReferences(vs, ns, <<v>>, n) <= ns[n].owners /\ IsHeap(ns)
    BY DEF Good
  <2>10. Cardinality(PlacesOf(ns, n)) \in Nat /\ Cardinality(B) \in Nat
    BY <2>9, PlacesFinite, SlotsFinite DEF B
  <2> HIDE DEF U, V
  <2>11. AllReferences(ws, ns, <<u>>, n) = Cardinality(B) + Cardinality(PlacesOf(ns, n)) + U
    BY <2>8 DEF AllReferences, B
  <2>12. AllReferences(vs, ns, <<v>>, n) = Cardinality(A) + Cardinality(PlacesOf(ns, n)) + V
    BY <2>8 DEF AllReferences, A
  <2>13. U \in Nat /\ V \in Nat
    BY DEF U, V
  <2>14. AllReferences(ws, ns, <<u>>, n) = AllReferences(vs, ns, <<v>>, n)
    BY <2>1, <2>7, <2>10, <2>11, <2>12, <2>13
  <2> QED
    BY <2>9, <2>14
<1>6. Good(ws, ns, <<u>>)
  BY <1>1, <1>2, <1>3, <1>4, <1>5 DEF Good
<1> QED
  BY <1>1, <1>2, <1>6 DEF ws, u

-----------------------------------------------------------------------------
(* Nodes are dropped, referred to, and made.                               *)

LEMMA ConcatElements ==
    ASSUME NEW a \in Seq(Proper), NEW b \in Seq(Proper), NEW S,
           \A i \in DOMAIN a : a[i].at \in S, \A i \in DOMAIN b : b[i].at \in S
    PROVE  \A i \in DOMAIN (a \o b) : (a \o b)[i].at \in S
<1>1. /\ a \o b \in Seq(Proper)
      /\ Len(a \o b) = Len(a) + Len(b)
      /\ \A i \in 1 .. Len(a) + Len(b) :
             (a \o b)[i] = IF i <= Len(a) THEN a[i] ELSE b[i - Len(a)]
  BY ConcatProperties
<1>2. /\ Len(a) \in Nat /\ DOMAIN a = 1 .. Len(a)
      /\ Len(b) \in Nat /\ DOMAIN b = 1 .. Len(b)
      /\ DOMAIN (a \o b) = 1 .. Len(a) + Len(b)
  BY <1>1, LenProperties
<1>3. ASSUME NEW i \in 1 .. Len(a) + Len(b) PROVE (a \o b)[i].at \in S
  <2>1. CASE i <= Len(a)
    BY <1>1, <1>2, <2>1
  <2>2. CASE ~(i <= Len(a))
    <3>1. i - Len(a) \in 1 .. Len(b)
      BY <1>2, <2>2
    <3> QED
      BY <1>1, <1>2, <2>2, <3>1
  <2> QED
    BY <2>1, <2>2
<1> QED
  BY <1>2, <1>3

(* What a node is made of.                                                 *)
LEMMA NodeIs ==
    ASSUME NEW ns, IsHeap(ns), NEW n \in DOMAIN ns
    PROVE  /\ ns[n].owners \in Nat \ {0} /\ ns[n].content \in Contents \cup {"none"}
           /\ ns[n].of \in Seq(Proper)
           /\ n \in Addresses /\ n \in Nat /\ n # 0
           /\ ns[n] = [owners |-> ns[n].owners, content |-> ns[n].content, of |-> ns[n].of]
<1>1. ns[n] \in NodeType /\ n \in Addresses
  BY DEF IsHeap
<1> QED
  BY <1>1, StorageAssumption DEF NodeType

(* An owner of a node that has others goes.                                *)
LEMMA LessOwners ==
    ASSUME NEW ns, IsHeap(ns), Closed(ns), NEW n \in DOMAIN ns, ns[n].owners > 1
    PROVE  LET ms == [ns EXCEPT ![n].owners = @ - 1]
           IN  /\ IsHeap(ms) /\ Closed(ms) /\ Part(ms, ns) /\ DOMAIN ms = DOMAIN ns
               /\ \A k \in DOMAIN ns : ms[k].owners =
                      IF k = n THEN ns[k].owners - 1 ELSE ns[k].owners
<1> DEFINE ms == [ns EXCEPT ![n].owners = @ - 1]
<1>1. DOMAIN ms = DOMAIN ns /\ ms = [k \in DOMAIN ms |-> ms[k]]
  BY DEF IsHeap
<1>2. ASSUME NEW k \in DOMAIN ns, k # n PROVE ms[k] = ns[k]
  BY <1>2
<1>3. ms[n] = [ns[n] EXCEPT !.owners = @ - 1]
  OBVIOUS
<1> HIDE DEF ms
<1>4. /\ ms[n].owners = ns[n].owners - 1 /\ ms[n].content = ns[n].content /\ ms[n].of = ns[n].of
      /\ ms[n] \in NodeType
  <2>1. ns[n] \in NodeType
    BY DEF IsHeap
  <2> QED
    BY <1>3, <2>1 DEF NodeType
<1>5. IsHeap(ms)
  BY <1>1, <1>2, <1>4 DEF IsHeap
<1>6. Part(ms, ns)
  BY <1>1, <1>2, <1>4 DEF Part
<1>7. Closed(ms)
  BY <1>1, <1>6 DEF Closed, Part
<1>8. ASSUME NEW k \in DOMAIN ns
      PROVE  ms[k].owners = IF k = n THEN ns[k].owners - 1 ELSE ns[k].owners
  BY <1>2, <1>4
<1> QED
  BY <1>1, <1>5, <1>6, <1>7, <1>8 DEF ms

(* A node nobody refers to goes.                                           *)
LEMMA WithoutNode ==
    ASSUME NEW ns, IsHeap(ns), NEW n \in DOMAIN ns
    PROVE  LET ms == [k \in DOMAIN ns \ {n} |-> ns[k]]
           IN  /\ IsHeap(ms) /\ Part(ms, ns) /\ DOMAIN ms = DOMAIN ns \ {n}
               /\ \A k \in DOMAIN ms : ms[k] = ns[k]
<1> DEFINE ms == [k \in DOMAIN ns \ {n} |-> ns[k]]
<1>1. DOMAIN ms = DOMAIN ns \ {n} /\ ms = [k \in DOMAIN ms |-> ms[k]]
  OBVIOUS
<1>2. \A k \in DOMAIN ms : ms[k] = ns[k]
  OBVIOUS
<1> HIDE DEF ms
<1>3. IsHeap(ms) /\ Part(ms, ns)
  BY <1>1, <1>2 DEF IsHeap, Part
<1> QED
  BY <1>1, <1>2, <1>3 DEF ms

(* drop_reference.                                                         *)
LEMMA Drop ==
    ASSUME NEW vs, NEW ns, NEW ts, Good(vs, ns, ts), ts # <<>>
    PROVE  LET r == DropNext(ns, ts)
           IN  Good(vs, r.nodes, r.doomed) /\ Part(r.nodes, ns)
<1> DEFINE n == Head(ts).at
           rest == Tail(ts)
           r == DropNext(ns, ts)
<1>1. /\ IsHeap(ns) /\ Closed(ns) /\ ts \in Seq(Proper) /\ vs \in [Slots -> Proper]
      /\ \A s \in Slots : vs[s].at \in DOMAIN ns \cup {0}
      /\ \A i \in DOMAIN ts : ts[i].at \in DOMAIN ns \cup {0}
      /\ \A m \in DOMAIN ns : AllReferences(vs, ns, ts, m) <= ns[m].owners
  BY DEF Good
<1>2. /\ Head(ts) \in Proper /\ rest \in Seq(Proper)
      /\ \A m : Cardinality(ThoseOf(ts, m)) =
             (IF n = m THEN 1 ELSE 0) + Cardinality(ThoseOf(rest, m))
  BY <1>1, ThoseOfTail
<1>3. /\ n \in DOMAIN ns \cup {0}
      /\ \A i \in DOMAIN rest : rest[i].at \in DOMAIN ns \cup {0}
  <2>1. /\ Len(ts) \in Nat /\ Len(ts) >= 1 /\ Len(rest) = Len(ts) - 1
        /\ \A i \in 1 .. Len(rest) : rest[i] = ts[i + 1]
        /\ Head(ts) = ts[1] /\ DOMAIN ts = 1 .. Len(ts) /\ DOMAIN rest = 1 .. Len(rest)
    BY <1>1, <1>2, HeadTailProperties, LenProperties, EmptySeq
  <2>2. 1 \in DOMAIN ts /\ \A i \in 1 .. Len(rest) : i + 1 \in DOMAIN ts
    BY <2>1
  <2> HIDE DEF rest
  <2> QED
    BY <1>1, <2>1, <2>2
<1>4. \A m : /\ Cardinality(SlotsOf(vs, m)) \in Nat /\ Cardinality(PlacesOf(ns, m)) \in Nat
             /\ Cardinality(ThoseOf(ts, m)) \in Nat /\ Cardinality(ThoseOf(rest, m)) \in Nat
  BY <1>1, <1>2, AllCounted
<1> HIDE DEF rest
<1>5. CASE n = 0
  <2>1. r.nodes = ns /\ r.doomed = rest
    BY <1>5 DEF DropNext, rest
  <2>2. ASSUME NEW m \in DOMAIN ns PROVE AllReferences(vs, ns, rest, m) <= ns[m].owners
    <3>1. m # n
      BY <1>1, <1>5, NodeIs
    <3>2. Cardinality(ThoseOf(ts, m)) = Cardinality(ThoseOf(rest, m))
      BY <1>2, <1>4, <3>1
    <3> QED
      BY <1>1, <3>2 DEF AllReferences
  <2>3. Good(vs, ns, rest)
    BY <1>1, <1>2, <1>3, <2>2 DEF Good
  <2>4. Part(ns, ns)
    BY DEF Part
  <2> QED
    BY <2>1, <2>3, <2>4
<1>6. CASE n # 0 /\ ns[n].owners > 1
  <2> DEFINE ms == [ns EXCEPT ![n].owners = @ - 1]
  <2>1. r.nodes = ms /\ r.doomed = rest
    BY <1>6 DEF DropNext, rest
  <2>2. n \in DOMAIN ns
    BY <1>3, <1>6
  <2>3. /\ IsHeap(ms) /\ Closed(ms) /\ Part(ms, ns) /\ DOMAIN ms = DOMAIN ns
        /\ \A k \in DOMAIN ns : ms[k].owners =
               IF k = n THEN ns[k].owners - 1 ELSE ns[k].owners
    BY <1>1, <1>6, <2>2, LessOwners
  <2> HIDE DEF ms
  <2>4. ASSUME NEW m \in DOMAIN ms PROVE AllReferences(vs, ms, rest, m) <= ms[m].owners
    <3>1. PlacesOf(ms, m) = PlacesOf(ns, m)
      BY <2>3, SamePlaces
    <3>2. AllReferences(vs, ns, ts, m) <= ns[m].owners /\ ns[m].owners \in Nat
      BY <1>1, <2>3, <2>4, NodeIs
    <3>3. CASE m = n
      <4>1. Cardinality(ThoseOf(ts, m)) = 1 + Cardinality(ThoseOf(rest, m))
        BY <1>2, <3>3
      <4>2. ms[m].owners = ns[m].owners - 1
        BY <2>2, <2>3, <3>3
      <4> QED
        BY <1>4, <3>1, <3>2, <4>1, <4>2 DEF AllReferences
    <3>4. CASE m # n
      <4>1. Cardinality(ThoseOf(ts, m)) = Cardinality(ThoseOf(rest, m))
        BY <1>2, <1>4, <3>4
      <4>2. ms[m].owners = ns[m].owners
        BY <2>3, <2>4, <3>4
      <4> QED
        BY <3>1, <3>2, <4>1, <4>2 DEF AllReferences
    <3> QED
      BY <3>3, <3>4
  <2>5. Good(vs, ms, rest)
    BY <1>1, <1>2, <1>3, <2>3, <2>4 DEF Good
  <2> QED
    BY <2>1, <2>3, <2>5
<1>7. CASE n # 0 /\ ~(ns[n].owners > 1)
  <2> DEFINE ms == [k \in DOMAIN ns \ {n} |-> ns[k]]
             of == ns[n].of
  <2>1. r.nodes = ms /\ r.doomed = of \o rest
    BY <1>7 DEF DropNext, rest
  <2>2. n \in DOMAIN ns
    BY <1>3, <1>7
  <2>3. /\ IsHeap(ms) /\ Part(ms, ns) /\ DOMAIN ms = DOMAIN ns \ {n}
        /\ \A k \in DOMAIN ms : ms[k] = ns[k]
    BY <1>1, <2>2, WithoutNode
  <2>4. of \in Seq(Proper) /\ ns[n].owners \in Nat
    BY <1>1, <2>2, NodeIs
  <2> HIDE DEF ms
  <2>5. SlotsOf(vs, n) = {} /\ PlacesOf(ns, n) = {} /\ ThoseOf(rest, n) = {}
    <3>1. AllReferences(vs, ns, ts, n) <= 1
      BY <1>1, <1>7, <2>2, <2>4, <1>4 DEF AllReferences
    <3>2. Cardinality(ThoseOf(ts, n)) = 1 + Cardinality(ThoseOf(rest, n))
      BY <1>2
    <3>3. /\ Cardinality(SlotsOf(vs, n)) = 0 /\ Cardinality(PlacesOf(ns, n)) = 0
          /\ Cardinality(ThoseOf(rest, n)) = 0
      BY <1>4, <3>1, <3>2 DEF AllReferences
    <3>4. /\ IsFiniteSet(SlotsOf(vs, n)) /\ IsFiniteSet(PlacesOf(ns, n))
          /\ IsFiniteSet(ThoseOf(rest, n))
      BY <1>1, <1>2, SlotsFinite, PlacesFinite, ThoseFinite
    <3> QED
      BY <3>3, <3>4, FS_EmptySet
  <2>6. \A s \in Slots : vs[s].at \in DOMAIN ms \cup {0}
    <3>1. ASSUME NEW s \in Slots PROVE vs[s].at # n
      BY <2>5 DEF SlotsOf
    <3> QED
      BY <1>1, <2>3, <3>1
  <2>7. \A k \in DOMAIN ns : \A i \in DOMAIN ns[k].of : ns[k].of[i].at \in DOMAIN ms \cup {0}
    <3>1. ASSUME NEW k \in DOMAIN ns, NEW i \in DOMAIN ns[k].of PROVE ns[k].of[i].at # n
      BY <2>5, PlaceIs
    <3>2. \A k \in DOMAIN ns : \A i \in DOMAIN ns[k].of : ns[k].of[i].at \in DOMAIN ns \cup {0}
      BY <1>1 DEF Closed
    <3> QED
      BY <2>3, <3>1, <3>2
  <2>8. Closed(ms)
    BY <2>3, <2>7 DEF Closed
  <2>9. of \o rest \in Seq(Proper)
    BY <1>2, <2>4, ConcatProperties
  <2>10. \A i \in DOMAIN (of \o rest) : (of \o rest)[i].at \in DOMAIN ms \cup {0}
    <3>1. \A i \in DOMAIN of : of[i].at \in DOMAIN ms \cup {0}
      BY <2>2, <2>7
    <3>2. \A i \in DOMAIN rest : rest[i].at \in DOMAIN ms \cup {0}
      <4>1. ASSUME NEW i \in DOMAIN rest PROVE rest[i].at # n
        BY <2>5 DEF ThoseOf
      <4> QED
        BY <1>3, <2>3, <4>1
    <3> HIDE DEF of
    <3> QED
      BY <1>2, <2>4, <3>1, <3>2, ConcatElements
  <2>11. ASSUME NEW m \in DOMAIN ms PROVE AllReferences(vs, ms, of \o rest, m) <= ms[m].owners
    <3>1. AllReferences(vs, ns, ts, m) <= ns[m].owners /\ ms[m] = ns[m] /\ m # n
      BY <1>1, <2>3, <2>11
    <3>2. Cardinality(ThoseOf(ts, m)) = Cardinality(ThoseOf(rest, m))
      BY <1>2, <1>4, <3>1
    <3>3. Cardinality(ThoseOf(of \o rest, m)) =
              Cardinality(ThoseOf(of, m)) + Cardinality(ThoseOf(rest, m))
      BY <1>2, <2>4, ThoseOfBoth
    <3>4. Cardinality(PlacesOf(ns, m)) = Cardinality(PlacesOf(ms, m))
                                             + Cardinality(ThoseOf(of, m))
      BY <1>1, <2>2, <2>3, PlacesWithout
    <3>5. Cardinality(PlacesOf(ms, m)) \in Nat /\ Cardinality(ThoseOf(of, m)) \in Nat
      BY <2>3, <2>4, PlacesFinite, ThoseFinite
    <3>6. AllReferences(vs, ms, of \o rest, m) = AllReferences(vs, ns, ts, m)
      BY <1>4, <3>2, <3>3, <3>4, <3>5 DEF AllReferences
    <3> QED
      BY <3>1, <3>6
  <2>12. Good(vs, ms, of \o rest)
    BY <1>1, <2>3, <2>6, <2>8, <2>9, <2>10, <2>11 DEF Good
  <2> QED
    BY <2>1, <2>3, <2>12
<1> QED
  BY <1>5, <1>6, <1>7

(* A copy of each of some values.                                          *)
LEMMA Refer ==
    ASSUME NEW vs, NEW ns, Good(vs, ns, <<>>), NEW ts \in Seq(Proper),
           \A i \in DOMAIN ts : ts[i].at \in DOMAIN ns \cup {0}
    PROVE  LET ms == AddReferences(ns, ts)
           IN  Good(vs, ms, ts) /\ Part(ns, ms) /\ DOMAIN ms = DOMAIN ns
<1> DEFINE ms == AddReferences(ns, ts)
<1>1. /\ IsHeap(ns) /\ Closed(ns) /\ vs \in [Slots -> Proper]
      /\ \A s \in Slots : vs[s].at \in DOMAIN ns \cup {0}
      /\ \A n \in DOMAIN ns : AllReferences(vs, ns, <<>>, n) <= ns[n].owners
  BY DEF Good
<1>2. DOMAIN ms = DOMAIN ns /\ ms = [n \in DOMAIN ms |-> ms[n]]
  BY DEF AddReferences
<1>3. ASSUME NEW n \in DOMAIN ns
      PROVE  /\ ms[n] \in NodeType /\ ms[n].of = ns[n].of /\ ms[n].content = ns[n].content
             /\ ms[n].owners = ns[n].owners + Cardinality(ThoseOf(ts, n))
  <2>1. ms[n] = [ns[n] EXCEPT !.owners = @ + Cardinality(ThoseOf(ts, n))]
    BY DEF AddReferences, ThoseOf
  <2>2. Cardinality(ThoseOf(ts, n)) \in Nat
    BY ThoseFinite
  <2>3. ns[n] \in NodeType
    BY <1>1 DEF IsHeap
  <2>4. ns[n].owners + Cardinality(ThoseOf(ts, n)) \in Nat \ {0}
    BY <2>2, <2>3 DEF NodeType
  <2> HIDE DEF ms
  <2> QED
    BY <2>1, <2>3, <2>4 DEF NodeType
<1> HIDE DEF ms
<1>4. IsHeap(ms)
  BY <1>1, <1>2, <1>3 DEF IsHeap
<1>5. Part(ns, ms)
  BY <1>2, <1>3 DEF Part
<1>6. Closed(ms)
  BY <1>1, <1>2, <1>3 DEF Closed
<1>7. ASSUME NEW n \in DOMAIN ms PROVE AllReferences(vs, ms, ts, n) <= ms[n].owners
  <2>1. PlacesOf(ns, n) = PlacesOf(ms, n)
    BY <1>2, <1>5, SamePlaces
  <2>2. /\ Cardinality(SlotsOf(vs, n)) \in Nat /\ Cardinality(PlacesOf(ns, n)) \in Nat
        /\ Cardinality(ThoseOf(ts, n)) \in Nat
    BY <1>1, AllCounted
  <2>3. AllReferences(vs, ns, <<>>, n) <= ns[n].owners /\ ns[n].owners \in Nat
    BY <1>1, <1>2, <1>7, NodeIs
  <2>4. Cardinality(ThoseOf(<<>>, n)) = 0
    BY ThoseOfNone
  <2>5. ms[n].owners = ns[n].owners + Cardinality(ThoseOf(ts, n))
    BY <1>2, <1>3, <1>7
  <2> QED
    BY <2>1, <2>2, <2>3, <2>4, <2>5 DEF AllReferences
<1>8. Good(vs, ms, ts)
  BY <1>1, <1>2, <1>4, <1>6, <1>7 DEF Good
<1> QED
  BY <1>2, <1>5, <1>8 DEF ms

(* Temporaries become the members of a new node, to which a temporary      *)
(* refers.                                                                 *)
LEMMA Allocate ==
    ASSUME NEW vs, NEW ns, NEW ts, Good(vs, ns, ts), HasRoom(ns),
           NEW c \in Contents \cup {"none"}, NEW index \in Counted
    PROVE  LET ms == Allocated(ns, c, ts)
               v == Held(index, FreshNode(ns), "none")
           IN  Good(vs, ms, <<v>>) /\ Part(ns, ms) /\ v \in Proper /\ v.index = index
<1> DEFINE n == FreshNode(ns)
           ms == Allocated(ns, c, ts)
           v == Held(index, n, "none")
<1>1. /\ IsHeap(ns) /\ Closed(ns) /\ ts \in Seq(Proper) /\ vs \in [Slots -> Proper]
      /\ \A s \in Slots : vs[s].at \in DOMAIN ns \cup {0}
      /\ \A i \in DOMAIN ts : ts[i].at \in DOMAIN ns \cup {0}
      /\ \A m \in DOMAIN ns : AllReferences(vs, ns, ts, m) <= ns[m].owners
  BY DEF Good
<1>2. n \in Addresses /\ n \notin DOMAIN ns
  <2>1. \E m \in Addresses : m \notin DOMAIN ns
    BY <1>1 DEF HasRoom, IsHeap
  <2> QED
    BY <2>1 DEF FreshNode
<1>3. n \in Nat /\ n # 0
  BY <1>2, StorageAssumption
<1> HIDE DEF n
<1>4. v \in Proper /\ v.at = n /\ v.index = index
  BY <1>2 DEF Held, Proper, ValueType
<1>5. /\ DOMAIN ms = DOMAIN ns \cup {n} /\ ms = [k \in DOMAIN ms |-> ms[k]]
      /\ ms[n] = [owners |-> 1, content |-> c, of |-> ts]
      /\ \A k \in DOMAIN ns : ms[k] = ns[k]
  BY <1>2 DEF Allocated, n
<1> HIDE DEF ms, v
<1>6. ms[n] \in NodeType /\ ms[n].of = ts /\ ms[n].owners = 1
  BY <1>1, <1>5 DEF NodeType
<1>7. IsHeap(ms)
  BY <1>1, <1>2, <1>5, <1>6 DEF IsHeap
<1>8. Part(ns, ms)
  BY <1>5 DEF Part
<1>9. Closed(ms)
  <2>1. ASSUME NEW k \in DOMAIN ms, NEW i \in DOMAIN ms[k].of
        PROVE  ms[k].of[i].at \in DOMAIN ms \cup {0}
    <3>1. CASE k = n
      BY <1>1, <1>5, <1>6, <2>1, <3>1
    <3>2. CASE k # n
      <4>1. k \in DOMAIN ns /\ ms[k] = ns[k]
        BY <1>5, <2>1, <3>2
      <4>2. ns[k].of[i].at \in DOMAIN ns \cup {0}
        BY <1>1, <2>1, <4>1 DEF Closed
      <4> QED
        BY <1>5, <4>1, <4>2
    <3> QED
      BY <3>1, <3>2
  <2> QED
    BY <2>1 DEF Closed
<1>10. \A m : Cardinality(PlacesOf(ms, m)) = Cardinality(PlacesOf(ns, m))
                                                 + Cardinality(ThoseOf(ts, m))
  <2>1. DOMAIN ns = DOMAIN ms \ {n} /\ n \in DOMAIN ms
    BY <1>2, <1>5
  <2>2. \A k \in DOMAIN ns : ns[k].of = ms[k].of
    BY <1>5
  <2>3. ASSUME NEW m
        PROVE  Cardinality(PlacesOf(ms, m)) = Cardinality(PlacesOf(ns, m))
                                                  + Cardinality(ThoseOf(ms[n].of, m))
    BY <1>1, <1>7, <2>1, <2>2, PlacesWithout
  <2> QED
    BY <1>6, <2>3
<1>11. \A m : /\ Cardinality(SlotsOf(vs, m)) \in Nat /\ Cardinality(PlacesOf(ns, m)) \in Nat
              /\ Cardinality(ThoseOf(ts, m)) \in Nat
  BY <1>1, AllCounted
<1>12. ASSUME NEW m \in DOMAIN ms PROVE AllReferences(vs, ms, <<v>>, m) <= ms[m].owners
  <2>1. Cardinality(ThoseOf(<<v>>, m)) = IF n = m THEN 1 ELSE 0
    BY <1>4, ThoseOfOne
  <2>2. CASE m = n
    <3>1. SlotsOf(vs, n) = {}
      BY <1>1, <1>2, <1>3 DEF SlotsOf
    <3>2. PlacesOf(ns, n) = {}
      BY <1>1, <1>2, <1>3, PlaceIs DEF Closed
    <3>3. ThoseOf(ts, n) = {}
      BY <1>1, <1>2, <1>3 DEF ThoseOf
    <3>4. Cardinality({}) = 0
      BY FS_EmptySet
    <3>5. Cardinality(SlotsOf(vs, m)) = 0 /\ Cardinality(PlacesOf(ms, m)) = 0
      BY <1>10, <2>2, <3>1, <3>2, <3>3, <3>4
    <3> QED
      BY <1>6, <2>1, <2>2, <3>5 DEF AllReferences
  <2>3. CASE m # n
    <3>1. m \in DOMAIN ns /\ ms[m] = ns[m]
      BY <1>5, <1>12, <2>3
    <3>2. AllReferences(vs, ns, ts, m) <= ns[m].owners
      BY <1>1, <3>1
    <3>3. Cardinality(ThoseOf(<<v>>, m)) = 0
      BY <2>1, <2>3
    <3>4. AllReferences(vs, ms, <<v>>, m) = AllReferences(vs, ns, ts, m)
      BY <1>10, <1>11, <3>3 DEF AllReferences
    <3> QED
      BY <3>1, <3>2, <3>4
  <2> QED
    BY <2>2, <2>3
<1>13. <<v>> \in Seq(Proper) /\ \A i \in DOMAIN <<v>> : <<v>>[i] = v
  BY <1>4
<1>14. Good(vs, ms, <<v>>)
  <2>1. \A s \in Slots : vs[s].at \in DOMAIN ms \cup {0}
    BY <1>1, <1>5
  <2>2. \A i \in DOMAIN <<v>> : <<v>>[i].at \in DOMAIN ms \cup {0}
    BY <1>4, <1>5, <1>13
  <2> QED
    BY <1>1, <1>7, <1>9, <1>12, <1>13, <2>1, <2>2 DEF Good
<1> QED
  BY <1>4, <1>8, <1>14 DEF ms, v, n

-----------------------------------------------------------------------------
(* Destruction, until nothing is left to be destroyed.                     *)

(* The function that Destroy takes its value from.                         *)
Steps(ns, v, n, g) ==
    g = [k \in 0 .. n |->
            IF k = 0 THEN [nodes |-> ns, doomed |-> <<v>>]
            ELSE IF g[k - 1].doomed = <<>> THEN g[k - 1]
            ELSE DropNext(g[k - 1].nodes, g[k - 1].doomed)]

(* There is such a function.                                               *)
LEMMA StepsExist == \A ns, v : \A n \in Nat : \E g : Steps(ns, v, n, g)
<1> SUFFICES ASSUME NEW ns, NEW v PROVE \A n \in Nat : \E g : Steps(ns, v, n, g)
  OBVIOUS
<1> DEFINE S == {n \in Nat : \E g : Steps(ns, v, n, g)}
           first == [nodes |-> ns, doomed |-> <<v>>]
           Step(r) == IF r.doomed = <<>> THEN r ELSE DropNext(r.nodes, r.doomed)
<1>1. 0 \in S
  <2>1. Steps(ns, v, 0, [k \in 0 .. 0 |-> first])
    BY DEF Steps
  <2> QED
    BY <2>1
<1>2. ASSUME NEW n \in Nat, n \in S PROVE n + 1 \in S
  <2>1. PICK g : Steps(ns, v, n, g)
    BY <1>2
  <2> DEFINE e == [k \in 0 .. n + 1 |-> IF k = n + 1 THEN Step(g[n]) ELSE g[k]]
  <2>2. g = [k \in 0 .. n |-> IF k = 0 THEN first ELSE Step(g[k - 1])]
    BY <2>1 DEF Steps
  <2> HIDE DEF first, Step
  <2>3. ASSUME NEW k \in 0 .. n + 1
        PROVE  e[k] = IF k = 0 THEN first ELSE Step(e[k - 1])
    <3>1. CASE k = n + 1
      <4>1. e[k] = Step(g[n]) /\ k - 1 = n /\ k # 0 /\ e[n] = g[n]
        BY <3>1
      <4> QED
        BY <4>1
    <3>2. CASE k # n + 1
      <4>1. k \in 0 .. n /\ e[k] = g[k] /\ (k # 0 => e[k - 1] = g[k - 1])
        BY <3>2
      <4>2. g[k] = IF k = 0 THEN first ELSE Step(g[k - 1])
        BY <2>2, <4>1
      <4> QED
        BY <4>1, <4>2
    <3> QED
      BY <3>1, <3>2
  <2>4. e = [k \in 0 .. n + 1 |-> IF k = 0 THEN first ELSE Step(e[k - 1])]
    BY <2>3
  <2> HIDE DEF e
  <2>5. Steps(ns, v, n + 1, e)
    BY <2>4 DEF Steps, first, Step
  <2> QED
    BY <2>5
<1> HIDE DEF S
<1>3. Nat \subseteq S
  BY <1>1, <1>2, SetInduction
<1> QED
  BY <1>3 DEF S

(* What is taken off a memory is in order, and the rest is as it was.      *)
LEMMA DestroyIs ==
    ASSUME NEW vs, NEW ns, NEW v, Good(vs, ns, <<v>>)
    PROVE  Good(vs, Destroy(ns, v), <<>>) /\ Part(Destroy(ns, v), ns)
<1> DEFINE n == Cardinality(MemberPlaces(ns)) + 1
           g == CHOOSE g : Steps(ns, v, n, g)
           Ok(r) == Good(vs, r.nodes, r.doomed) /\ Part(r.nodes, ns)
           S == {k \in Nat : k <= n => Ok(g[k])}
<1>1. n \in Nat
  BY PlacesFinite DEF Good
<1>2. Destroy(ns, v) = g[n].nodes
  BY DEF Destroy, Steps
<1> HIDE DEF n
<1>3. Steps(ns, v, n, g)
  BY <1>1, StepsExist
<1> HIDE DEF g
<1>4. \A k \in 0 .. n :
          g[k] = IF k = 0 THEN [nodes |-> ns, doomed |-> <<v>>]
                 ELSE IF g[k - 1].doomed = <<>> THEN g[k - 1]
                 ELSE DropNext(g[k - 1].nodes, g[k - 1].doomed)
  BY <1>3 DEF Steps
<1>5. 0 \in S
  <2>1. g[0].nodes = ns /\ g[0].doomed = <<v>>
    BY <1>1, <1>4
  <2>2. Part(ns, ns)
    BY DEF Part
  <2> QED
    BY <2>1, <2>2
<1>6. ASSUME NEW k \in Nat, k \in S PROVE k + 1 \in S
  <2>1. SUFFICES ASSUME k + 1 <= n PROVE Ok(g[k + 1])
    OBVIOUS
  <2>2. Ok(g[k])
    BY <1>1, <1>6, <2>1
  <2>3. g[k + 1] = IF g[k].doomed = <<>> THEN g[k] ELSE DropNext(g[k].nodes, g[k].doomed)
    BY <1>1, <1>4, <2>1
  <2>4. CASE g[k].doomed = <<>>
    BY <2>2, <2>3, <2>4
  <2>5. CASE g[k].doomed # <<>>
    <3>1. Good(vs, g[k + 1].nodes, g[k + 1].doomed) /\ Part(g[k + 1].nodes, g[k].nodes)
      BY <2>2, <2>3, <2>5, Drop
    <3>2. Part(g[k + 1].nodes, ns)
      BY <2>2, <3>1, PartOfPart
    <3> QED
      BY <3>1, <3>2
  <2> QED
    BY <2>4, <2>5
<1> HIDE DEF S
<1>7. Nat \subseteq S
  BY <1>5, <1>6, SetInduction
<1>8. Ok(g[n])
  BY <1>1, <1>7 DEF S
<1> QED
  BY <1>2, <1>8, Forget

-----------------------------------------------------------------------------
(* What values stand for.                                                  *)

Stands(w, ofNode) == [kind |-> TypeKind(w.index),
                      is |-> IF w.at = 0 THEN <<w.content>> ELSE ofNode[w.at]]

(* The function that Meaning takes its value from.                         *)
Withins(ns, n, g) ==
    g = [d \in 0 .. n |->
            [m \in DOMAIN ns |->
                <<ns[m].content,
                  IF d = 0 THEN <<>>
                  ELSE [i \in DOMAIN ns[m].of |-> Stands(ns[m].of[i], g[d - 1])]>>]]

(* There is such a function.                                               *)
LEMMA WithinsExist == \A ns : \A n \in Nat : \E g : Withins(ns, n, g)
<1> SUFFICES ASSUME NEW ns PROVE \A n \in Nat : \E g : Withins(ns, n, g)
  OBVIOUS
<1> DEFINE S == {n \in Nat : \E g : Withins(ns, n, g)}
           first == [m \in DOMAIN ns |-> <<ns[m].content, <<>>>>]
           Step(r) == [m \in DOMAIN ns |->
                          <<ns[m].content, [i \in DOMAIN ns[m].of |-> Stands(ns[m].of[i], r)]>>]
<1>0. \A n, g : Withins(ns, n, g) <=> g = [d \in 0 .. n |-> IF d = 0 THEN first ELSE Step(g[d - 1])]
  <2> SUFFICES ASSUME NEW n, NEW g
               PROVE  Withins(ns, n, g)
                          <=> g = [d \in 0 .. n |-> IF d = 0 THEN first ELSE Step(g[d - 1])]
    OBVIOUS
  <2> DEFINE Other(d) == [m \in DOMAIN ns |->
                            <<ns[m].content,
                              IF d = 0 THEN <<>>
                              ELSE [i \in DOMAIN ns[m].of |-> Stands(ns[m].of[i], g[d - 1])]>>]
  <2>1. ASSUME NEW d PROVE Other(d) = IF d = 0 THEN first ELSE Step(g[d - 1])
    <3>1. CASE d = 0
      BY <3>1
    <3>2. CASE d # 0
      BY <3>2
    <3> QED
      BY <3>1, <3>2
  <2>2. Withins(ns, n, g) <=> g = [d \in 0 .. n |-> Other(d)]
    BY DEF Withins
  <2> HIDE DEF Other, first, Step
  <2>3. [d \in 0 .. n |-> Other(d)] = [d \in 0 .. n |-> IF d = 0 THEN first ELSE Step(g[d - 1])]
    BY <2>1
  <2> QED
    BY <2>2, <2>3
<1> HIDE DEF first, Step
<1>1. 0 \in S
  <2> DEFINE f == [k \in 0 .. 0 |-> first]
  <2>0. f = [d \in 0 .. 0 |-> IF d = 0 THEN first ELSE Step(f[d - 1])]
    OBVIOUS
  <2> HIDE DEF f
  <2>1. Withins(ns, 0, f)
    BY <1>0, <2>0
  <2> QED
    BY <2>1
<1>2. ASSUME NEW n \in Nat, n \in S PROVE n + 1 \in S
  <2>1. PICK g : Withins(ns, n, g)
    BY <1>2
  <2> DEFINE e == [k \in 0 .. n + 1 |-> IF k = n + 1 THEN Step(g[n]) ELSE g[k]]
  <2>2. g = [k \in 0 .. n |-> IF k = 0 THEN first ELSE Step(g[k - 1])]
    BY <1>0, <2>1
  <2>3. ASSUME NEW k \in 0 .. n + 1
        PROVE  e[k] = IF k = 0 THEN first ELSE Step(e[k - 1])
    <3>1. CASE k = n + 1
      <4>1. e[k] = Step(g[n]) /\ k - 1 = n /\ k # 0 /\ e[n] = g[n]
        BY <3>1
      <4> QED
        BY <4>1
    <3>2. CASE k # n + 1
      <4>1. k \in 0 .. n /\ e[k] = g[k] /\ (k # 0 => e[k - 1] = g[k - 1])
        BY <3>2
      <4>2. g[k] = IF k = 0 THEN first ELSE Step(g[k - 1])
        BY <2>2, <4>1
      <4> QED
        BY <4>1, <4>2
    <3> QED
      BY <3>1, <3>2
  <2>4. e = [k \in 0 .. n + 1 |-> IF k = 0 THEN first ELSE Step(e[k - 1])]
    BY <2>3
  <2> HIDE DEF e
  <2>5. Withins(ns, n + 1, e)
    BY <1>0, <2>4
  <2> QED
    BY <2>5
<1> HIDE DEF S
<1>3. Nat \subseteq S
  BY <1>1, <1>2, SetInduction
<1> QED
  BY <1>3 DEF S

(* What a value stands for is the same in a part of the memory.            *)
LEMMA SameMeaning ==
    ASSUME NEW a, NEW b, Part(a, b), Closed(a), NEW v, v.at \in DOMAIN a \cup {0}
    PROVE  Meaning(a, v) = Meaning(b, v)
<1> DEFINE n == Cardinality(Addresses)
           g == CHOOSE g : Withins(a, n, g)
           h == CHOOSE h : Withins(b, n, h)
           S == {d \in Nat : d <= n => \A m \in DOMAIN a : g[d][m] = h[d][m]}
<1>1. n \in Nat
  BY StorageAssumption, FS_CardinalityType
<1>2. Meaning(a, v) = Stands(v, g[n]) /\ Meaning(b, v) = Stands(v, h[n])
  BY DEF Meaning, Withins, Stands
<1> HIDE DEF n
<1>3. Withins(a, n, g) /\ Withins(b, n, h)
  BY <1>1, WithinsExist
<1> HIDE DEF g, h
<1>4. ASSUME NEW d \in 0 .. n, NEW m \in DOMAIN a
      PROVE  /\ g[d][m] = <<a[m].content,
                            IF d = 0 THEN <<>>
                            ELSE [i \in DOMAIN a[m].of |-> Stands(a[m].of[i], g[d - 1])]>>
             /\ h[d][m] = <<a[m].content,
                            IF d = 0 THEN <<>>
                            ELSE [i \in DOMAIN a[m].of |-> Stands(a[m].of[i], h[d - 1])]>>
  <2>1. m \in DOMAIN b /\ b[m].of = a[m].of /\ b[m].content = a[m].content
    BY DEF Part
  <2>2. g[d] = [k \in DOMAIN a |->
                   <<a[k].content,
                     IF d = 0 THEN <<>>
                     ELSE [i \in DOMAIN a[k].of |-> Stands(a[k].of[i], g[d - 1])]>>]
    BY <1>3, Zenon DEF Withins
  <2>3. h[d] = [k \in DOMAIN b |->
                   <<b[k].content,
                     IF d = 0 THEN <<>>
                     ELSE [i \in DOMAIN b[k].of |-> Stands(b[k].of[i], h[d - 1])]>>]
    BY <1>3, Zenon DEF Withins
  <2>4. g[d][m] = <<a[m].content,
                    IF d = 0 THEN <<>>
                    ELSE [i \in DOMAIN a[m].of |-> Stands(a[m].of[i], g[d - 1])]>>
    BY <2>2, Zenon
  <2>5. h[d][m] = <<b[m].content,
                    IF d = 0 THEN <<>>
                    ELSE [i \in DOMAIN b[m].of |-> Stands(b[m].of[i], h[d - 1])]>>
    BY <2>1, <2>3, Zenon
  <2> QED
    BY <2>1, <2>4, <2>5, Zenon
<1>5. 0 \in S
  <2>1. ASSUME NEW m \in DOMAIN a PROVE g[0][m] = h[0][m]
    <3>1. 0 \in 0 .. n
      BY <1>1
    <3>2. g[0][m] = <<a[m].content, <<>>>> /\ h[0][m] = <<a[m].content, <<>>>>
      BY <1>4, <3>1
    <3> QED
      BY <3>2
  <2> QED
    BY <2>1
<1>6. ASSUME NEW d \in Nat, d \in S PROVE d + 1 \in S
  <2>1. SUFFICES ASSUME d + 1 <= n, NEW m \in DOMAIN a PROVE g[d + 1][m] = h[d + 1][m]
    OBVIOUS
  <2>2. \A k \in DOMAIN a : g[d][k] = h[d][k]
    BY <1>1, <1>6, <2>1
  <2>3. ASSUME NEW i \in DOMAIN a[m].of
        PROVE  Stands(a[m].of[i], g[d]) = Stands(a[m].of[i], h[d])
    <3>1. a[m].of[i].at \in DOMAIN a \cup {0}
      BY <2>3 DEF Closed
    <3> QED
      BY <2>2, <3>1 DEF Stands
  <2>4. d + 1 \in 0 .. n /\ d + 1 # 0 /\ (d + 1) - 1 = d
    BY <1>1, <2>1
  <2>5. /\ g[d + 1][m] = <<a[m].content, [i \in DOMAIN a[m].of |-> Stands(a[m].of[i], g[d])]>>
        /\ h[d + 1][m] = <<a[m].content, [i \in DOMAIN a[m].of |-> Stands(a[m].of[i], h[d])]>>
    BY <1>4, <2>4
  <2>6. [i \in DOMAIN a[m].of |-> Stands(a[m].of[i], g[d])]
            = [i \in DOMAIN a[m].of |-> Stands(a[m].of[i], h[d])]
    BY <2>3
  <2> QED
    BY <2>5, <2>6
<1> HIDE DEF S
<1>7. Nat \subseteq S
  BY <1>5, <1>6, SetInduction
<1>8. \A m \in DOMAIN a : g[n][m] = h[n][m]
  BY <1>1, <1>7 DEF S
<1>9. Stands(v, g[n]) = Stands(v, h[n])
  BY <1>8 DEF Stands
<1> QED
  BY <1>2, <1>9

-----------------------------------------------------------------------------
(* Destruction comes to an end: what is still to be destroyed, and what    *)
(* could still be, becomes one less with every step.                       *)

MemberPlaceIs(ns, p) == \E k \in DOMAIN ns : \E i \in DOMAIN ns[k].of : p = <<k, i>>

LEMMA MemberPlaceIn ==
    ASSUME NEW ns
    PROVE  \A p : p \in MemberPlaces(ns) <=> MemberPlaceIs(ns, p)
<1> SUFFICES ASSUME NEW p PROVE p \in MemberPlaces(ns) <=> MemberPlaceIs(ns, p)
  OBVIOUS
<1>1. ASSUME p \in MemberPlaces(ns) PROVE MemberPlaceIs(ns, p)
  <2>1. PICK k \in DOMAIN ns : p \in {<<k, i>> : i \in DOMAIN ns[k].of}
    BY <1>1 DEF MemberPlaces
  <2> QED
    BY <2>1 DEF MemberPlaceIs
<1>2. ASSUME MemberPlaceIs(ns, p) PROVE p \in MemberPlaces(ns)
  BY <1>2 DEF MemberPlaceIs, MemberPlaces
<1> QED
  BY <1>1, <1>2

(* A node that goes, and only such, takes its members along.               *)
LEMMA MemberPlacesSame ==
    ASSUME NEW a, NEW b, Part(a, b), DOMAIN a = DOMAIN b
    PROVE  MemberPlaces(a) = MemberPlaces(b)
<1>1. \A p : MemberPlaceIs(a, p) <=> MemberPlaceIs(b, p)
  BY DEF MemberPlaceIs, Part
<1> QED
  BY <1>1, MemberPlaceIn

LEMMA MemberPlacesWithout ==
    ASSUME NEW a, NEW b, IsHeap(a), NEW n \in DOMAIN a, DOMAIN b = DOMAIN a \ {n},
           \A k \in DOMAIN b : b[k].of = a[k].of, IsHeap(b)
    PROVE  Cardinality(MemberPlaces(a)) = Cardinality(MemberPlaces(b)) + Len(a[n].of)
<1> DEFINE D == DOMAIN a[n].of
           its == {<<n, i>> : i \in D}
           f == [i \in D |-> <<n, i>>]
<1>1. /\ D = 1 .. Len(a[n].of) /\ Len(a[n].of) \in Nat
      /\ IsFiniteSet(D) /\ Cardinality(D) = Len(a[n].of)
  <2>1. a[n].of \in Seq(Proper)
    BY NodeIs
  <2>2. D = 1 .. Len(a[n].of) /\ Len(a[n].of) \in Nat
    BY <2>1, LenProperties
  <2> HIDE DEF D
  <2>3. IsFiniteSet(1 .. Len(a[n].of)) /\ Cardinality(1 .. Len(a[n].of)) = Len(a[n].of)
    BY <2>2, FS_Interval
  <2> QED
    BY <2>2, <2>3
<1>2. IsFiniteSet(its) /\ Cardinality(its) = Cardinality(D)
  <2>1. f \in [D -> its]
    OBVIOUS
  <2>2. \A x, y \in D : f[x] = f[y] => x = y
    OBVIOUS
  <2>3. \A y \in its : \E x \in D : f[x] = y
    OBVIOUS
  <2>4. IsFiniteSet(D)
    BY <1>1
  <2> HIDE DEF its, f, D
  <2> QED
    BY <2>1, <2>2, <2>3, <2>4, SameSize
<1>3. \A p : MemberPlaceIs(a, p) <=> MemberPlaceIs(b, p) \/ p \in its
  <2>1. ASSUME NEW p, MemberPlaceIs(a, p) PROVE MemberPlaceIs(b, p) \/ p \in its
    <3>1. PICK k \in DOMAIN a : \E i \in DOMAIN a[k].of : p = <<k, i>>
      BY <2>1 DEF MemberPlaceIs
    <3>2. CASE k = n
      BY <3>1, <3>2
    <3>3. CASE k # n
      BY <3>1, <3>3 DEF MemberPlaceIs
    <3> QED
      BY <3>2, <3>3
  <2>2. ASSUME NEW p, MemberPlaceIs(b, p) PROVE MemberPlaceIs(a, p)
    BY <2>2 DEF MemberPlaceIs
  <2>3. ASSUME NEW p \in its PROVE MemberPlaceIs(a, p)
    BY <2>3 DEF MemberPlaceIs
  <2> QED
    BY <2>1, <2>2, <2>3
<1>4. MemberPlaces(b) \cap its = {}
  <2>1. ASSUME NEW i \in D, MemberPlaceIs(b, <<n, i>>) PROVE FALSE
    BY <2>1 DEF MemberPlaceIs
  <2> QED
    BY <2>1, MemberPlaceIn
<1> HIDE DEF its, D
<1>5. MemberPlaces(a) = MemberPlaces(b) \cup its
  BY <1>3, MemberPlaceIn
<1>6. IsFiniteSet(MemberPlaces(b))
  BY PlacesFinite
<1>7. Cardinality(MemberPlaces(b) \cup its) = Cardinality(MemberPlaces(b)) + Cardinality(its)
  BY <1>2, <1>4, <1>6, DisjointSize
<1> QED
  BY <1>1, <1>2, <1>5, <1>7

(* One step of Destroy.                                                    *)
LEMMA DropShrinks ==
    ASSUME NEW vs, NEW ns, NEW ts, Good(vs, ns, ts), ts # <<>>
    PROVE  LET r == DropNext(ns, ts)
           IN  Cardinality(MemberPlaces(r.nodes)) + Len(r.doomed)
                   = Cardinality(MemberPlaces(ns)) + Len(ts) - 1
<1> DEFINE n == Head(ts).at
           rest == Tail(ts)
           r == DropNext(ns, ts)
<1>1. /\ IsHeap(ns) /\ Closed(ns) /\ ts \in Seq(Proper)
      /\ \A i \in DOMAIN ts : ts[i].at \in DOMAIN ns \cup {0}
  BY DEF Good
<1>2. /\ Len(ts) \in Nat /\ Len(ts) >= 1 /\ rest \in Seq(Proper) /\ Len(rest) = Len(ts) - 1
      /\ Head(ts) = ts[1] /\ DOMAIN ts = 1 .. Len(ts)
  BY <1>1, HeadTailProperties, LenProperties, EmptySeq
<1>3. n \in DOMAIN ns \cup {0}
  <2>1. 1 \in DOMAIN ts
    BY <1>2
  <2> QED
    BY <1>1, <1>2, <2>1
<1>4. Cardinality(MemberPlaces(ns)) \in Nat
  BY <1>1, PlacesFinite
<1> HIDE DEF rest
<1>5. CASE n = 0
  <2>1. r.nodes = ns /\ r.doomed = rest
    BY <1>5 DEF DropNext, rest
  <2> HIDE DEF n, r
  <2> QED
    BY <1>2, <1>4, <2>1 DEF r
<1>6. CASE n # 0 /\ ns[n].owners > 1
  <2> DEFINE ms == [ns EXCEPT ![n].owners = @ - 1]
  <2>1. r.nodes = ms /\ r.doomed = rest
    BY <1>6 DEF DropNext, rest
  <2>2. n \in DOMAIN ns
    BY <1>3, <1>6
  <2> HIDE DEF n
  <2>3. Part(ms, ns) /\ DOMAIN ms = DOMAIN ns
    BY <1>1, <1>6, <2>2, LessOwners
  <2> HIDE DEF ms
  <2>4. MemberPlaces(ms) = MemberPlaces(ns)
    BY <2>3, MemberPlacesSame
  <2> HIDE DEF r
  <2> QED
    BY <1>2, <1>4, <2>1, <2>4 DEF r
<1>7. CASE n # 0 /\ ~(ns[n].owners > 1)
  <2> DEFINE ms == [k \in DOMAIN ns \ {n} |-> ns[k]]
             of == ns[n].of
  <2>1. r.nodes = ms /\ r.doomed = of \o rest
    BY <1>7 DEF DropNext, rest
  <2>2. n \in DOMAIN ns
    BY <1>3, <1>7
  <2> HIDE DEF n
  <2>3. IsHeap(ms) /\ DOMAIN ms = DOMAIN ns \ {n} /\ \A k \in DOMAIN ms : ms[k] = ns[k]
    BY <1>1, <2>2, WithoutNode
  <2> HIDE DEF ms
  <2>4. of \in Seq(Proper) /\ Len(of) \in Nat
    BY <1>1, <2>2, NodeIs, LenProperties
  <2>5. Len(of \o rest) = Len(of) + Len(rest)
    <3> HIDE DEF of
    <3> QED
      BY <1>2, <2>4, ConcatProperties
  <2>6. Cardinality(MemberPlaces(ns)) = Cardinality(MemberPlaces(ms)) + Len(of)
    BY <1>1, <2>2, <2>3, MemberPlacesWithout
  <2>7. Cardinality(MemberPlaces(ms)) \in Nat
    BY <2>3, PlacesFinite
  <2> HIDE DEF r, of
  <2> QED
    BY <1>2, <1>4, <2>1, <2>4, <2>5, <2>6, <2>7 DEF r
<1> QED
  BY <1>5, <1>6, <1>7

(* What is to be destroyed is used up when the steps are.                  *)
LEMMA StepsEnd ==
    ASSUME NEW vs, NEW ns, NEW v, Good(vs, ns, <<v>>),
           NEW g, Steps(ns, v, Cardinality(MemberPlaces(ns)) + 1, g)
    PROVE  g[Cardinality(MemberPlaces(ns)) + 1].doomed = <<>>
<1> DEFINE n == Cardinality(MemberPlaces(ns)) + 1
           Size(r) == Cardinality(MemberPlaces(r.nodes)) + Len(r.doomed)
           Ok(k, r) == /\ Good(vs, r.nodes, r.doomed)
                       /\ r.doomed = <<>> \/ Size(r) = n - k
           S == {k \in Nat : k <= n => Ok(k, g[k])}
<1>0. IsHeap(ns)
  BY DEF Good
<1>1. n \in Nat
  BY <1>0, PlacesFinite
<1>3. \A k \in 0 .. n :
          g[k] = IF k = 0 THEN [nodes |-> ns, doomed |-> <<v>>]
                 ELSE IF g[k - 1].doomed = <<>> THEN g[k - 1]
                 ELSE DropNext(g[k - 1].nodes, g[k - 1].doomed)
  BY DEF Steps
<1>4. Size([nodes |-> ns, doomed |-> <<v>>]) = n - 0
  BY <1>1
<1>5. \A r : Good(vs, r.nodes, r.doomed)
          => Cardinality(MemberPlaces(r.nodes)) \in Nat /\ Len(r.doomed) \in Nat /\ Size(r) \in Nat
             /\ (r.doomed # <<>> => Len(r.doomed) > 0)
  <2> SUFFICES ASSUME NEW r, Good(vs, r.nodes, r.doomed)
               PROVE  /\ Cardinality(MemberPlaces(r.nodes)) \in Nat
                      /\ Len(r.doomed) \in Nat /\ Size(r) \in Nat
                      /\ (r.doomed # <<>> => Len(r.doomed) > 0)
    OBVIOUS
  <2>1. IsHeap(r.nodes) /\ r.doomed \in Seq(Proper)
    BY DEF Good
  <2>2. Cardinality(MemberPlaces(r.nodes)) \in Nat
    BY <2>1, PlacesFinite
  <2>3. Len(r.doomed) \in Nat /\ (r.doomed # <<>> => Len(r.doomed) > 0)
    BY <2>1, LenProperties, EmptySeq
  <2> QED
    BY <2>2, <2>3
<1> HIDE DEF n
<1>6. 0 \in S
  <2>1. g[0] = [nodes |-> ns, doomed |-> <<v>>]
    BY <1>1, <1>3
  <2>2. g[0].nodes = ns /\ g[0].doomed = <<v>>
    BY <2>1
  <2>3. Size(g[0]) = n - 0
    BY <1>4, <2>1
  <2> HIDE DEF Size
  <2>4. Ok(0, g[0])
    BY <2>2, <2>3
  <2> HIDE DEF Ok
  <2> QED
    BY <2>4
<1>7. ASSUME NEW k \in Nat, k \in S PROVE k + 1 \in S
  <2>1. SUFFICES ASSUME k + 1 <= n PROVE Ok(k + 1, g[k + 1])
    OBVIOUS
  <2>2. Ok(k, g[k])
    BY <1>1, <1>7, <2>1
  <2>3. g[k + 1] = IF g[k].doomed = <<>> THEN g[k] ELSE DropNext(g[k].nodes, g[k].doomed)
    BY <1>1, <1>3, <2>1
  <2>4. CASE g[k].doomed = <<>>
    BY <2>2, <2>3, <2>4
  <2>5. CASE g[k].doomed # <<>>
    <3>1. Good(vs, g[k + 1].nodes, g[k + 1].doomed)
      BY <2>2, <2>3, <2>5, Drop
    <3>2. Cardinality(MemberPlaces(g[k + 1].nodes)) + Len(g[k + 1].doomed)
              = Cardinality(MemberPlaces(g[k].nodes)) + Len(g[k].doomed) - 1
      BY <2>2, <2>3, <2>5, DropShrinks
    <3>3. Size(g[k]) = n - k
      BY <2>2, <2>5
    <3>4. Size(g[k + 1]) = n - (k + 1)
      <4> DEFINE a == Cardinality(MemberPlaces(g[k].nodes))
                 b == Len(g[k].doomed)
                 c == Cardinality(MemberPlaces(g[k + 1].nodes))
                 d == Len(g[k + 1].doomed)
      <4>1. a \in Nat /\ b \in Nat
        BY <1>5, <2>2
      <4>2. c + d = a + b - 1 /\ a + b = n - k
        BY <3>2, <3>3
      <4> HIDE DEF a, b, c, d
      <4>3. c + d = n - (k + 1)
        BY <1>1, <4>1, <4>2
      <4> QED
        BY <4>3 DEF c, d
    <3> QED
      BY <3>1, <3>4
  <2> QED
    BY <2>4, <2>5
<1> HIDE DEF S
<1>8. Nat \subseteq S
  BY <1>6, <1>7, SetInduction
<1>9. Ok(n, g[n])
  BY <1>1, <1>8 DEF S
<1>10. g[n].doomed = <<>>
  <2> SUFFICES ASSUME g[n].doomed # <<>> PROVE FALSE
    OBVIOUS
  <2>1. Size(g[n]) = n - n
    BY <1>9
  <2>2. Cardinality(MemberPlaces(g[n].nodes)) \in Nat /\ Len(g[n].doomed) \in Nat
        /\ Len(g[n].doomed) > 0
    BY <1>5, <1>9
  <2> QED
    BY <1>1, <2>1, <2>2
<1> QED
  BY <1>10 DEF n

(* Destroy takes no more steps than it is given: when it ends, nothing     *)
(* waits to be destroyed, so the model's bound on the steps cuts off       *)
(* nothing of what the destructors of value.hpp and gc.hpp do.             *)
THEOREM NothingLeftToDestroy ==
    ASSUME NEW vs, NEW ns, NEW v, Good(vs, ns, <<v>>)
    PROVE  LET n == Cardinality(MemberPlaces(ns)) + 1
           IN  \E g : /\ Steps(ns, v, n, g)
                      /\ Destroy(ns, v) = g[n].nodes
                      /\ g[n].doomed = <<>>
<1> DEFINE n == Cardinality(MemberPlaces(ns)) + 1
           g == CHOOSE g : Steps(ns, v, n, g)
<1>1. n \in Nat
  BY PlacesFinite DEF Good
<1>2. Destroy(ns, v) = g[n].nodes
  BY DEF Destroy, Steps
<1>3. Steps(ns, v, n, g)
  <2> HIDE DEF n
  <2> QED
    BY <1>1, StepsExist
<1> HIDE DEF g
<1>4. g[n].doomed = <<>>
  BY <1>3, StepsEnd
<1> HIDE DEF n
<1>5. \E h : Steps(ns, v, n, h) /\ Destroy(ns, v) = h[n].nodes /\ h[n].doomed = <<>>
  BY <1>2, <1>3, <1>4
<1> QED
  BY <1>5 DEF n

-----------------------------------------------------------------------------
(* The invariant: memory is in order without temporaries, and variables    *)
(* stand for what was stored in them.                                      *)
StorageInv ==
    /\ Good(value, nodes, <<>>)
    /\ meaning = [s \in Slots |-> Meaning(nodes, value[s])]
    /\ dangling = FALSE

LEMMA PartItself == ASSUME NEW ns PROVE Part(ns, ns)
  BY DEF Part

(* Values that refer to nothing.                                           *)
LEMMA HeldProper ==
    ASSUME NEW index \in Trivial \cup Counted, NEW c \in Contents \cup {"none"}
    PROVE  Held(index, 0, c) \in Proper /\ Held(index, 0, c).at = 0
  BY DEF Held, Proper, ValueType

LEMMA NullProper == Null \in Proper /\ Null.at = 0
<1>1. "null" \in Trivial \cup Counted
  BY DEF Trivial
<1> QED
  BY <1>1, HeldProper DEF Null

LEMMA MovedProper ==
    ASSUME NEW v \in Proper
    PROVE  Moved(v) \in Proper /\ Moved(v).at = 0
<1>1. CASE v.index \in Counted
  <2>1. Moved(v) = Held(v.index, 0, "none")
    BY <1>1 DEF Moved
  <2> QED
    BY <1>1, <2>1, HeldProper
<1>2. CASE v.index \notin Counted
  <2>1. Moved(v) = v
    BY <1>2 DEF Moved
  <2> QED
    BY <1>2, <2>1 DEF Proper
<1> QED
  BY <1>1, <1>2

LEMMA TrivialRefersToNothing ==
    ASSUME NEW v \in Proper, v.index \in Trivial
    PROVE  v.at = 0
  BY DEF Proper, Trivial, Counted

(* What variables stand for, in a memory and in one that it is part of.    *)
LEMMA StoredMeaning ==
    ASSUME NEW vs, NEW ns, Good(vs, ns, <<>>), NEW ms, Part(ns, ms), NEW s \in Slots
    PROVE  Meaning(ns, vs[s]) = Meaning(ms, vs[s])
<1>1. Closed(ns) /\ vs[s].at \in DOMAIN ns \cup {0}
  BY DEF Good
<1> QED
  BY <1>1, SameMeaning

(* A temporary is moved to a variable, whose own value is destroyed, or    *)
(* just forgotten.                                                         *)
LEMMA MovedThere ==
    ASSUME NEW vs, NEW ns, NEW v, Good(vs, ns, <<v>>), NEW s \in Slots
    PROVE  LET ms == AssignedByMove(ns, vs[s], v)
           IN  Good([vs EXCEPT ![s] = v], ms, <<>>) /\ Part(ms, ns)
<1> DEFINE ws == [vs EXCEPT ![s] = v]
<1>1. Good(ws, ns, <<vs[s]>>)
  BY Swap
<1> HIDE DEF ws
<1>2. CASE v.index \in Trivial
  <2>1. AssignedByMove(ns, vs[s], v) = ns
    BY <1>2 DEF AssignedByMove
  <2> QED
    BY <1>1, <2>1, Forget, PartItself DEF ws
<1>3. CASE v.index \notin Trivial
  <2>1. AssignedByMove(ns, vs[s], v) = Destroy(ns, vs[s])
    BY <1>3 DEF AssignedByMove
  <2> QED
    BY <1>1, <2>1, DestroyIs DEF ws
<1> QED
  BY <1>2, <1>3

(* The invariant is kept by each operation.                                *)
LEMMA TakesOverKeeps ==
    ASSUME StorageInv, NEW s \in Slots, NEW ns, NEW v, Good(value, ns, <<v>>), Part(nodes, ns),
           TakesOver(s, ns, v)
    PROVE  StorageInv'
<1>1. /\ nodes' = AssignedByMove(ns, value[s], v)
      /\ value' = [value EXCEPT ![s] = v]
      /\ meaning' = [meaning EXCEPT ![s] = Meaning(ns, v)]
      /\ dangling' = FALSE
  BY DEF TakesOver, StorageInv
<1>2. Good(value', nodes', <<>>) /\ Part(nodes', ns)
  BY <1>1, MovedThere
<1>3. /\ Good(value, nodes, <<>>) /\ value \in [Slots -> Proper]
      /\ meaning = [x \in Slots |-> Meaning(nodes, value[x])]
  BY DEF StorageInv, Good
<1>4. \A x \in Slots : value'[x] = IF x = s THEN v ELSE value[x]
  BY <1>1, <1>3
<1>5. ASSUME NEW x \in Slots
      PROVE  (IF x = s THEN Meaning(ns, v) ELSE meaning[x]) = Meaning(nodes', value'[x])
  <2>1. Meaning(nodes', value'[x]) = Meaning(ns, value'[x])
    BY <1>2, StoredMeaning
  <2>2. CASE x = s
    BY <1>4, <2>1, <2>2
  <2>3. CASE x # s
    <3>1. Meaning(nodes, value[x]) = Meaning(ns, value[x])
      BY <1>3, StoredMeaning
    <3> QED
      BY <1>3, <1>4, <2>1, <2>3, <3>1
  <2> QED
    BY <2>2, <2>3
<1>6. meaning' = [x \in Slots |-> IF x = s THEN Meaning(ns, v) ELSE meaning[x]]
  BY <1>1, <1>3
<1>7. meaning' = [x \in Slots |-> Meaning(nodes', value'[x])]
  BY <1>5, <1>6
<1> QED
  BY <1>1, <1>2, <1>7 DEF StorageInv

LEMMA InlineKeeps ==
    ASSUME StorageInv, NEW s \in Slots, StoreInline(s)
    PROVE  StorageInv'
<1>1. PICK index \in Indices, c \in Contents : TakesOver(s, nodes, Held(index, 0, c))
  BY DEF StoreInline
<1>2. Held(index, 0, c) \in Proper /\ Held(index, 0, c).at = 0
  BY HeldProper, StorageAssumption
<1>3. Good(value, nodes, <<Held(index, 0, c)>>)
  BY <1>2, Fresh DEF StorageInv
<1> QED
  BY <1>1, <1>3, PartItself, TakesOverKeeps

LEMMA CountedKeeps ==
    ASSUME StorageInv, NEW s \in Slots, StoreCounted(s)
    PROVE  StorageInv'
<1>1. PICK index \in Counted, c \in Contents :
          /\ HasRoom(nodes)
          /\ TakesOver(s, Allocated(nodes, c, <<>>), Held(index, FreshNode(nodes), "none"))
  BY DEF StoreCounted
<1>2. /\ Good(value, Allocated(nodes, c, <<>>), <<Held(index, FreshNode(nodes), "none")>>)
      /\ Part(nodes, Allocated(nodes, c, <<>>))
  BY <1>1, Allocate DEF StorageInv
<1> QED
  BY <1>1, <1>2, TakesOverKeeps

LEMMA GroupKeeps ==
    ASSUME StorageInv, NEW s \in Slots, StoreGroup(s)
    PROVE  StorageInv'
<1>0. PICK width \in 0 .. Width : \E members \in [1 .. width -> Slots] :
          LET copies == [i \in 1 .. width |-> value[members[i]]]
              ns == Allocated(AddReferences(nodes, copies), "none", copies)
          IN  /\ HasRoom(nodes)
              /\ TakesOver(s, ns, Held("group", FreshNode(nodes), "none"))
  BY DEF StoreGroup
<1>1. PICK members \in [1 .. width -> Slots] :
          LET copies == [i \in 1 .. width |-> value[members[i]]]
              ns == Allocated(AddReferences(nodes, copies), "none", copies)
          IN  /\ HasRoom(nodes)
              /\ TakesOver(s, ns, Held("group", FreshNode(nodes), "none"))
  BY <1>0
<1> DEFINE copies == [i \in 1 .. width |-> value[members[i]]]
           ms == AddReferences(nodes, copies)
           ns == Allocated(ms, "none", copies)
           v == Held("group", FreshNode(nodes), "none")
<1>2. HasRoom(nodes) /\ TakesOver(s, ns, v)
  BY <1>1
<1>3. Good(value, nodes, <<>>)
  BY DEF StorageInv
<1>4. copies \in Seq(Proper) /\ DOMAIN copies = 1 .. width
  <2>1. \A i \in 1 .. width : value[members[i]] \in Proper
    BY <1>3 DEF Good
  <2>2. width \in Nat
    BY StorageAssumption
  <2> QED
    BY <2>1, <2>2
<1>5. \A i \in DOMAIN copies : copies[i].at \in DOMAIN nodes \cup {0}
  BY <1>3, <1>4 DEF Good
<1> HIDE DEF copies
<1>6. Good(value, ms, copies) /\ Part(nodes, ms) /\ DOMAIN ms = DOMAIN nodes
  BY <1>3, <1>4, <1>5, Refer
<1>7. HasRoom(ms) /\ FreshNode(ms) = FreshNode(nodes)
  BY <1>2, <1>6 DEF HasRoom, FreshNode
<1> HIDE DEF ms
<1>8. Good(value, ns, <<v>>) /\ Part(ms, ns)
  <2>1. "group" \in Counted
    BY DEF Counted
  <2> QED
    BY <1>6, <1>7, <2>1, Allocate
<1>9. Part(nodes, ns)
  BY <1>6, <1>8, PartOfPart
<1> HIDE DEF ns, v
<1> QED
  BY <1>2, <1>8, <1>9, TakesOverKeeps

(* A variable whose value is moved away.                                   *)
LEMMA TakenFrom ==
    ASSUME NEW vs, NEW ns, Good(vs, ns, <<>>), NEW t \in Slots
    PROVE  /\ Good([vs EXCEPT ![t] = Moved(@)], ns, <<vs[t]>>)
           /\ vs[t] \in Proper /\ Moved(vs[t]) \in Proper
<1>1. vs[t] \in Proper
  BY DEF Good
<1>2. Moved(vs[t]) \in Proper /\ Moved(vs[t]).at = 0
  BY <1>1, MovedProper
<1>3. Good(vs, ns, <<Moved(vs[t])>>)
  BY <1>2, Fresh
<1> QED
  BY <1>1, <1>2, <1>3, Swap

(* A value v of the memory ms is moved to s, while t is moved away.        *)
LEMMA MovesKeep ==
    ASSUME StorageInv, NEW s \in Slots, NEW t \in Slots \ {s}, NEW ns, NEW v,
           Good([value EXCEPT ![t] = Moved(@)], ns, <<v>>), Part(nodes, ns),
           nodes' = AssignedByMove(ns, value[s], v),
           value' = [value EXCEPT ![s] = v, ![t] = Moved(@)],
           meaning' = [meaning EXCEPT ![s] = Meaning(ns, v),
                                      ![t] = Meaning(nodes, Moved(value[t]))],
           dangling' = dangling
    PROVE  StorageInv'
<1> DEFINE vs == [value EXCEPT ![t] = Moved(@)]
<1>1. /\ Good(value, nodes, <<>>) /\ value \in [Slots -> Proper]
      /\ meaning = [x \in Slots |-> Meaning(nodes, value[x])]
      /\ dangling = FALSE
  BY DEF StorageInv, Good
<1>2. vs[s] = value[s]
  BY <1>1
<1>3. value' = [vs EXCEPT ![s] = v]
  BY <1>1
<1>4. \A x \in Slots : value'[x] = IF x = s THEN v ELSE IF x = t THEN Moved(value[t]) ELSE value[x]
  BY <1>1
<1> HIDE DEF vs
<1>5. Good(value', nodes', <<>>) /\ Part(nodes', ns)
  <2>1. Good(vs, ns, <<v>>)
    BY DEF vs
  <2>2. /\ Good([vs EXCEPT ![s] = v], AssignedByMove(ns, vs[s], v), <<>>)
        /\ Part(AssignedByMove(ns, vs[s], v), ns)
    BY <2>1, MovedThere
  <2>3. nodes' = AssignedByMove(ns, vs[s], v)
    BY <1>2
  <2> QED
    BY <1>3, <2>2, <2>3
<1>6. Moved(value[t]).at = 0
  BY <1>1, MovedProper
<1>7. ASSUME NEW x \in Slots
      PROVE  (IF x = s THEN Meaning(ns, v)
              ELSE IF x = t THEN Meaning(nodes, Moved(value[t]))
              ELSE meaning[x]) = Meaning(nodes', value'[x])
  <2>1. Meaning(nodes', value'[x]) = Meaning(ns, value'[x])
    <3> DEFINE ws == value'
               ms == nodes'
    <3>1. Good(ws, ms, <<>>) /\ Part(ms, ns)
      BY <1>5
    <3> HIDE DEF ws, ms
    <3>2. Meaning(ms, ws[x]) = Meaning(ns, ws[x])
      BY <1>7, <3>1, StoredMeaning
    <3> QED
      BY <3>2 DEF ws, ms
  <2>2. CASE x = s
    BY <1>4, <2>1, <2>2
  <2>3. CASE x = t
    <3>1. Meaning(nodes, Moved(value[t])) = Meaning(ns, Moved(value[t]))
      BY <1>1, <1>6, SameMeaning DEF Good
    <3> QED
      BY <1>4, <2>1, <2>3, <3>1
  <2>4. CASE x # s /\ x # t
    <3>1. Meaning(nodes, value[x]) = Meaning(ns, value[x])
      BY <1>1, StoredMeaning
    <3> QED
      BY <1>1, <1>4, <2>1, <2>4, <3>1
  <2> QED
    BY <2>2, <2>3, <2>4
<1>8. meaning' = [x \in Slots |-> IF x = s THEN Meaning(ns, v)
                                  ELSE IF x = t THEN Meaning(nodes, Moved(value[t]))
                                  ELSE meaning[x]]
  BY <1>1
<1>9. meaning' = [x \in Slots |-> Meaning(nodes', value'[x])]
  BY <1>7, <1>8
<1> QED
  BY <1>1, <1>5, <1>9 DEF StorageInv

LEMMA GroupMovedKeeps ==
    ASSUME StorageInv, NEW s \in Slots, StoreGroupMoved(s)
    PROVE  StorageInv'
<1>1. PICK t \in Slots \ {s} :
          LET v == Held("group", FreshNode(nodes), "none")
              ns == Allocated(nodes, "none", <<value[t]>>)
          IN  /\ HasRoom(nodes)
              /\ nodes' = AssignedByMove(ns, value[s], v)
              /\ value' = [value EXCEPT ![s] = v, ![t] = Moved(@)]
              /\ meaning' = [meaning EXCEPT ![s] = Meaning(ns, v),
                                            ![t] = Meaning(nodes, Moved(value[t]))]
              /\ UNCHANGED dangling
  BY DEF StoreGroupMoved
<1> DEFINE vs == [value EXCEPT ![t] = Moved(@)]
           v == Held("group", FreshNode(nodes), "none")
           ns == Allocated(nodes, "none", <<value[t]>>)
<1>2. Good(vs, nodes, <<value[t]>>)
  BY TakenFrom DEF StorageInv
<1>3. "group" \in Counted
  BY DEF Counted
<1> HIDE DEF vs
<1>4. Good(vs, ns, <<v>>) /\ Part(nodes, ns)
  BY <1>1, <1>2, <1>3, Allocate
<1>5. /\ nodes' = AssignedByMove(ns, value[s], v)
      /\ value' = [value EXCEPT ![s] = v, ![t] = Moved(@)]
      /\ meaning' = [meaning EXCEPT ![s] = Meaning(ns, v), ![t] = Meaning(nodes, Moved(value[t]))]
      /\ dangling' = dangling
  BY <1>1
<1> HIDE DEF ns, v
<1>6. Good([value EXCEPT ![t] = Moved(@)], ns, <<v>>)
  BY <1>4 DEF vs
<1> QED
  BY <1>4, <1>5, <1>6, MovesKeep

LEMMA MoveKeeps ==
    ASSUME StorageInv, NEW s \in Slots, MoveValue(s)
    PROVE  StorageInv'
<1>1. PICK t \in Slots \ {s} :
          /\ nodes' = AssignedByMove(nodes, value[s], value[t])
          /\ value' = [value EXCEPT ![s] = value[t], ![t] = Moved(@)]
          /\ meaning' = [meaning EXCEPT ![s] = meaning[t], ![t] = Meaning(nodes, Moved(value[t]))]
          /\ dangling' = dangling
  BY DEF MoveValue
<1>2. Good([value EXCEPT ![t] = Moved(@)], nodes, <<value[t]>>)
  BY TakenFrom DEF StorageInv
<1>3. meaning[t] = Meaning(nodes, value[t])
  BY DEF StorageInv
<1>4. meaning' = [meaning EXCEPT ![s] = Meaning(nodes, value[t]),
                                 ![t] = Meaning(nodes, Moved(value[t]))]
  BY <1>1, <1>3
<1> QED
  BY <1>1, <1>2, <1>4, PartItself, MovesKeep

(* A value that is still there when that of s is destroyed is copied to s. *)
LEMMA CopyFromKeeps ==
    ASSUME StorageInv, NEW s \in Slots, NEW other \in Proper,
           other.at \in DOMAIN Destroy(nodes, value[s]) \cup {0}, CopyFrom(s, other)
    PROVE  StorageInv'
<1> DEFINE vs == [value EXCEPT ![s] = Null]
           ds == Destroy(nodes, value[s])
<1>1. /\ Good(value, nodes, <<>>) /\ value \in [Slots -> Proper]
      /\ meaning = [x \in Slots |-> Meaning(nodes, value[x])]
      /\ dangling = FALSE
  BY DEF StorageInv, Good
<1>2. /\ nodes' = Assigned(nodes, value[s], other)
      /\ value' = [value EXCEPT ![s] = other]
      /\ meaning' = [meaning EXCEPT ![s] = Meaning(nodes, other)]
      /\ dangling' = (dangling \/ ~Sound(ds, other))
  BY DEF CopyFrom
<1>3. value' \in [Slots -> Proper] /\ \A x \in Slots : value'[x] = IF x = s THEN other ELSE value[x]
  BY <1>1, <1>2
<1>4. Good(vs, ds, <<>>) /\ Part(ds, nodes)
  <2>1. Good(value, nodes, <<Null>>)
    BY <1>1, NullProper, Fresh
  <2>2. Good(vs, nodes, <<value[s]>>)
    BY <2>1, Swap
  <2> HIDE DEF vs
  <2> QED
    BY <2>2, DestroyIs
<1>5. value' = [vs EXCEPT ![s] = other]
  BY <1>1, <1>2
<1> HIDE DEF vs, ds
<1>6. dangling' = FALSE
  <2>1. Sound(ds, other)
    <3>1. Closed(ds)
      BY <1>4 DEF Good
    <3>2. other.at \in DOMAIN ds \cup {0}
      BY DEF ds
    <3> QED
      BY <3>1, <3>2 DEF Sound, Closed
  <2> QED
    BY <1>1, <1>2, <2>1
<1>7. /\ Good(value', nodes', <<>>)
      /\ \A x \in Slots : Meaning(nodes', value'[x]) = Meaning(nodes, value'[x])
  <2>1. CASE other.index \in Trivial
    <3>1. nodes' = nodes
      BY <1>2, <2>1 DEF Assigned
    <3>2. Good(value, nodes, <<other>>)
      BY <1>1, <2>1, TrivialRefersToNothing, Fresh
    <3>3. Good(value', nodes, <<value[s]>>)
      BY <1>2, <3>2, Swap
    <3>4. Good(value', nodes', <<>>)
      BY <3>1, <3>3, Forget
    <3> QED
      BY <3>1, <3>4
  <2>2. CASE other.index \notin Trivial
    <3> DEFINE ms == AddReferences(ds, <<other>>)
    <3>1. nodes' = ms
      BY <1>2, <2>2 DEF Assigned, Made, ds
    <3>2. /\ <<other>> \in Seq(Proper)
          /\ \A i \in DOMAIN <<other>> : <<other>>[i].at \in DOMAIN ds \cup {0}
      BY DEF ds
    <3>3. Good(vs, ms, <<other>>) /\ Part(ds, ms) /\ DOMAIN ms = DOMAIN ds
      BY <1>4, <3>2, Refer
    <3> HIDE DEF ms
    <3>4. Good(value', ms, <<vs[s]>>)
      BY <1>5, <3>3, Swap
    <3>5. Good(value', nodes', <<>>)
      BY <3>1, <3>4, Forget
    <3>6. ASSUME NEW x \in Slots PROVE Meaning(nodes', value'[x]) = Meaning(nodes, value'[x])
      <4>1. Closed(ds) /\ value'[x].at \in DOMAIN ds \cup {0}
        BY <1>4, <3>1, <3>3, <3>5 DEF Good
      <4>2. Meaning(ds, value'[x]) = Meaning(ms, value'[x])
        BY <3>3, <4>1, SameMeaning
      <4>3. Meaning(ds, value'[x]) = Meaning(nodes, value'[x])
        BY <1>4, <4>1, SameMeaning
      <4> QED
        BY <3>1, <4>2, <4>3
    <3> QED
      BY <3>5, <3>6
  <2> QED
    BY <2>1, <2>2
<1>8. meaning' = [x \in Slots |-> IF x = s THEN Meaning(nodes, other) ELSE Meaning(nodes, value[x])]
  BY <1>1, <1>2
<1>9. ASSUME NEW x \in Slots
      PROVE  (IF x = s THEN Meaning(nodes, other) ELSE Meaning(nodes, value[x]))
                 = Meaning(nodes', value'[x])
  BY <1>3, <1>7
<1>10. meaning' = [x \in Slots |-> Meaning(nodes', value'[x])]
  BY <1>8, <1>9
<1> QED
  BY <1>6, <1>7, <1>10 DEF StorageInv

(* What another variable refers to survives the value of s.                *)
LEMMA Survives ==
    ASSUME StorageInv, NEW s \in Slots, NEW t \in Slots \ {s}
    PROVE  LET ds == Destroy(nodes, value[s])
           IN  value[t].at \in DOMAIN ds \cup {0} /\ Closed(ds) /\ Part(ds, nodes)
<1> DEFINE vs == [value EXCEPT ![s] = Null]
           ds == Destroy(nodes, value[s])
<1>1. Good(value, nodes, <<>>) /\ value \in [Slots -> Proper]
  BY DEF StorageInv, Good
<1>2. Good(value, nodes, <<Null>>)
  BY <1>1, NullProper, Fresh
<1>3. Good(vs, nodes, <<value[s]>>)
  BY <1>2, Swap
<1>4. vs[t] = value[t]
  BY <1>1
<1> HIDE DEF vs
<1>5. Good(vs, ds, <<>>) /\ Part(ds, nodes)
  BY <1>3, DestroyIs
<1> HIDE DEF ds
<1>6. vs[t].at \in DOMAIN ds \cup {0} /\ Closed(ds)
  BY <1>5 DEF Good
<1> QED
  BY <1>4, <1>5, <1>6 DEF ds

LEMMA CopyKeeps ==
    ASSUME StorageInv, NEW s \in Slots, CopyValue(s) \/ CopyMember(s)
    PROVE  StorageInv'
<1>0. Good(value, nodes, <<>>)
  BY DEF StorageInv
<1>1. CASE CopyValue(s)
  <2>1. PICK t \in Slots \ {s} : CopyFrom(s, value[t])
    BY <1>1 DEF CopyValue
  <2>2. value[t] \in Proper
    BY <1>0 DEF Good
  <2>3. value[t].at \in DOMAIN Destroy(nodes, value[s]) \cup {0}
    BY Survives
  <2> QED
    BY <2>1, <2>2, <2>3, CopyFromKeeps
<1>2. CASE CopyMember(s)
  <2>1. PICK t \in Slots \ {s} :
            /\ value[t].at # 0
            /\ \E i \in DOMAIN nodes[value[t].at].of : CopyFrom(s, nodes[value[t].at].of[i])
    BY <1>2 DEF CopyMember
  <2> DEFINE n == value[t].at
             ds == Destroy(nodes, value[s])
  <2>2. PICK i \in DOMAIN nodes[n].of : CopyFrom(s, nodes[n].of[i])
    BY <2>1
  <2>3. n \in DOMAIN ds /\ Closed(ds) /\ Part(ds, nodes)
    BY <2>1, Survives
  <2> HIDE DEF ds
  <2>4. n \in DOMAIN nodes /\ ds[n].of = nodes[n].of
    BY <2>3 DEF Part
  <2> HIDE DEF n
  <2>5. nodes[n].of[i].at \in DOMAIN ds \cup {0}
    BY <2>2, <2>3, <2>4 DEF Closed
  <2>6. nodes[n].of[i] \in Proper
    <3>1. nodes[n].of \in Seq(Proper)
      BY <1>0, <2>4, NodeIs DEF Good
    <3> QED
      BY <2>2, <3>1, ElementOfSeq, LenProperties
  <2> QED
    BY <2>2, <2>5, <2>6, CopyFromKeeps DEF ds
<1> QED
  BY <1>1, <1>2

LEMMA RenewKeeps ==
    ASSUME StorageInv, NEW s \in Slots, Renew(s)
    PROVE  StorageInv'
<1>1. /\ Good(value, nodes, <<>>) /\ value \in [Slots -> Proper]
      /\ meaning = [x \in Slots |-> Meaning(nodes, value[x])]
      /\ dangling = FALSE
  BY DEF StorageInv, Good
<1>2. /\ nodes' = Destroy(nodes, value[s])
      /\ value' = [value EXCEPT ![s] = Null]
      /\ meaning' = [meaning EXCEPT ![s] = Meaning(nodes, Null)]
      /\ dangling' = dangling
  BY DEF Renew
<1>3. \A x \in Slots : value'[x] = IF x = s THEN Null ELSE value[x]
  BY <1>1, <1>2
<1>4. Good(value', nodes', <<>>) /\ Part(nodes', nodes)
  <2>1. Good(value, nodes, <<Null>>)
    BY <1>1, NullProper, Fresh
  <2>2. Good(value', nodes, <<value[s]>>)
    BY <1>2, <2>1, Swap
  <2> QED
    BY <1>2, <2>2, DestroyIs
<1>5. \A x \in Slots : Meaning(nodes', value'[x]) = Meaning(nodes, value'[x])
  BY <1>4, StoredMeaning
<1>6. meaning' = [x \in Slots |-> IF x = s THEN Meaning(nodes, Null) ELSE Meaning(nodes, value[x])]
  BY <1>1, <1>2
<1>7. ASSUME NEW x \in Slots
      PROVE  (IF x = s THEN Meaning(nodes, Null) ELSE Meaning(nodes, value[x]))
                 = Meaning(nodes', value'[x])
  BY <1>3, <1>5
<1>8. meaning' = [x \in Slots |-> Meaning(nodes', value'[x])]
  BY <1>6, <1>7
<1> QED
  BY <1>1, <1>2, <1>4, <1>8 DEF StorageInv

(* The invariant holds at first, ...                                       *)
LEMMA StorageInitially == StorageInit => StorageInv
<1> SUFFICES ASSUME StorageInit PROVE StorageInv
  OBVIOUS
<1>1. /\ value = [s \in Slots |-> Null] /\ DOMAIN nodes = {}
      /\ nodes = [n \in DOMAIN nodes |-> nodes[n]] /\ dangling = FALSE
      /\ meaning = [s \in Slots |-> Meaning(nodes, Null)]
  BY DEF StorageInit
<1>2. IsHeap(nodes) /\ Closed(nodes)
  BY <1>1 DEF IsHeap, Closed
<1>3. Good(value, nodes, <<>>)
  <2>1. <<>> \in Seq(Proper) /\ DOMAIN <<>> = {}
    OBVIOUS
  <2> QED
    BY <1>1, <1>2, <2>1, NullProper DEF Good
<1>4. meaning = [s \in Slots |-> Meaning(nodes, value[s])]
  BY <1>1
<1> QED
  BY <1>1, <1>3, <1>4 DEF StorageInv

(* ... is kept by every step, ...                                          *)
LEMMA StorageStep == StorageInv /\ [StorageNext]_storage => StorageInv'
<1> SUFFICES ASSUME StorageInv, [StorageNext]_storage PROVE StorageInv'
  OBVIOUS
<1>1. CASE StorageNext
  <2>1. PICK s \in Slots :
            \/ StoreInline(s) \/ StoreCounted(s) \/ StoreGroup(s) \/ StoreGroupMoved(s)
            \/ CopyValue(s) \/ CopyMember(s) \/ MoveValue(s) \/ Renew(s)
    BY <1>1 DEF StorageNext
  <2> QED
    BY <2>1, InlineKeeps, CountedKeeps, GroupKeeps, GroupMovedKeeps, CopyKeeps, MoveKeeps,
       RenewKeeps
<1>2. CASE UNCHANGED storage
  <2>1. value' = value /\ nodes' = nodes /\ meaning' = meaning /\ dangling' = dangling
    BY <1>2 DEF storage
  <2>2. Good(value', nodes', <<>>)
    BY <2>1 DEF StorageInv
  <2>3. meaning' = [s \in Slots |-> Meaning(nodes', value'[s])]
    BY <2>1 DEF StorageInv
  <2> QED
    BY <2>1, <2>2, <2>3 DEF StorageInv
<1> QED
  BY <1>1, <1>2

(* ... and says what the property does.                                    *)
LEMMA StorageInvSays == StorageInv => ValuesAreValues
<1> SUFFICES ASSUME StorageInv PROVE ValuesAreValues
  OBVIOUS
<1>1. /\ Good(value, nodes, <<>>) /\ value \in [Slots -> Proper] /\ IsHeap(nodes)
      /\ Closed(nodes) /\ dangling = FALSE
      /\ \A s \in Slots : value[s].at \in DOMAIN nodes \cup {0}
      /\ meaning = [s \in Slots |-> Meaning(nodes, value[s])]
  BY DEF StorageInv, Good
<1>2. Proper \subseteq ValueType /\ \A v \in Proper : v.at # 0 => v.index \in Counted
  BY DEF Proper
<1>3. StoredTypeOK
  <2>1. value \in [Slots -> ValueType]
    BY <1>1, <1>2
  <2>2. \A s \in Slots : value[s].at # 0 => value[s].index \in Counted
    BY <1>1, <1>2
  <2>3. ASSUME NEW n \in DOMAIN nodes PROVE nodes[n].owners > 0 /\ nodes[n].of \in Seq(ValueType)
    <3>1. nodes[n].owners \in Nat \ {0} /\ nodes[n].of \in Seq(Proper)
      BY <1>1, NodeIs
    <3>2. nodes[n].of \in Seq(ValueType)
      BY <1>2, <3>1, SeqMonotonic
    <3> QED
      BY <3>1, <3>2
  <2> QED
    BY <1>1, <2>1, <2>2, <2>3 DEF StoredTypeOK, IsHeap
<1>4. \A s \in Slots : Sound(nodes, value[s])
  BY <1>1 DEF Sound, Closed
<1>5. ASSUME NEW n \in DOMAIN nodes PROVE nodes[n].owners >= References(n)
  <2>1. AllReferences(value, nodes, <<>>, n) <= nodes[n].owners
    BY <1>1 DEF Good
  <2>2. Cardinality(ThoseOf(<<>>, n)) = 0
    BY ThoseOfNone
  <2>3. References(n) = Cardinality(SlotsOf(value, n)) + Cardinality(PlacesOf(nodes, n))
    BY DEF References, SlotsOf, PlacesOf
  <2>4. /\ Cardinality(SlotsOf(value, n)) \in Nat /\ Cardinality(PlacesOf(nodes, n)) \in Nat
    BY <1>1, SlotsFinite, PlacesFinite
  <2>5. nodes[n].owners \in Nat
    BY <1>1, NodeIs
  <2> QED
    BY <2>1, <2>2, <2>3, <2>4, <2>5 DEF AllReferences
<1>6. NothingFreedInUse
  BY <1>1, <1>4, <1>5 DEF NothingFreedInUse
<1>7. SharingIsInvisible
  BY <1>1 DEF SharingIsInvisible
<1> QED
  BY <1>3, <1>6, <1>7 DEF ValuesAreValues

(* For any variables, memory, contents and bounds: what a variable leads   *)
(* to is there, nodes have an owner for each reference, and a variable     *)
(* stands for what was last stored in it (gc.hpp and value.hpp).           *)
THEOREM StoredValuesAreValues == StorageSpec => []ValuesAreValues
<1>1. StorageSpec => []StorageInv
  BY StorageInitially, StorageStep, PTL DEF StorageSpec
<1> QED
  BY <1>1, StorageInvSays, PTL
=============================================================================
