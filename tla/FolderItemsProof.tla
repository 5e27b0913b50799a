--------------------------- MODULE FolderItemsProof ---------------------------
(***************************************************************************)
(* Proofs about FolderItems, for all files, orders and bounds.             *)
(***************************************************************************)
EXTENDS FolderItems, SequenceTheorems, FiniteSetTheorems, TLAPS

USE ItemsAssumption

(***************************************************************************)
(* Lists: sequences of names, none of them twice.                          *)
(***************************************************************************)
Lists == {s \in Seq(Names) : IsInjective(s)}

LEMMA ListFacts ==
  ASSUME NEW s \in Lists
  PROVE  /\ s \in Seq(Names) /\ Len(s) \in Nat /\ DOMAIN s = 1 .. Len(s)
         /\ \A i, j \in 1 .. Len(s) : s[i] = s[j] => i = j
         /\ ToSet(s) = {s[i] : i \in 1 .. Len(s)}
         /\ ToSet(s) \subseteq Names /\ IsFiniteSet(ToSet(s))
<1>1. /\ s \in Seq(Names) /\ Len(s) \in Nat /\ DOMAIN s = 1 .. Len(s)
      /\ \A i, j \in 1 .. Len(s) : s[i] = s[j] => i = j
  BY DEF Lists, IsInjective
<1>2. ToSet(s) = {s[i] : i \in 1 .. Len(s)}
  BY <1>1 DEF ToSet
<1>3. ToSet(s) \subseteq Names
  BY <1>1, <1>2
<1>4. IsFiniteSet(ToSet(s))
  BY <1>3, FS_Subset
<1> QED BY <1>1, <1>2, <1>3, <1>4

\* An arrangement of a set holds each of its members once.
LEMMA ArrangementFacts ==
  ASSUME NEW S, S \subseteq Names, NEW s \in SetToSeqs(S)
  PROVE  s \in Lists /\ ToSet(s) = S
<1>1. IsFiniteSet(S)
  BY FS_Subset
<1>2. Cardinality(S) \in Nat /\ IsFiniteSet(1 .. Cardinality(S)) /\ Cardinality(1 .. Cardinality(S)) = Cardinality(S)
  BY <1>1, FS_CardinalityType, FS_Interval
<1>3. s \in [1 .. Cardinality(S) -> S] /\ \A i, j \in 1 .. Cardinality(S) : i # j => s[i] # s[j]
  BY DEF SetToSeqs
<1>4. s \in Injection(1 .. Cardinality(S), S)
  BY <1>3 DEF Injection, IsInjective
<1>5. s \in Surjection(1 .. Cardinality(S), S)
  BY <1>1, <1>2, <1>4, FS_Injection
<1>6. s \in Seq(S) /\ DOMAIN s = 1 .. Cardinality(S)
  BY <1>2, <1>3
<1>7. s \in Seq(Names)
  BY <1>2, <1>3
<1>8. ToSet(s) = S
  BY <1>3, <1>5 DEF ToSet, Surjection
<1> QED BY <1>4, <1>7, <1>8 DEF Lists, Injection

LEMMA KeptFacts ==
  ASSUME NEW list \in Lists, NEW some, NEW s \in Kept(list, some)
  PROVE  s \in Lists /\ ToSet(s) = ToSet(list) \cap some
<1>1. s \in SetToSeqs(ToSet(list) \cap some)
  BY DEF Kept
<1>2. ToSet(list) \cap some \subseteq Names
  BY ListFacts
<1> QED BY <1>1, <1>2, ArrangementFacts

LEMMA SortedFacts ==
  ASSUME NEW list \in Lists, NEW order, NEW up, NEW s \in Sorted(list, order, up)
  PROVE  s \in Lists /\ ToSet(s) = ToSet(list)
<1>1. s \in SetToSeqs(ToSet(list))
  BY DEF Sorted
<1> QED BY <1>1, ListFacts, ArrangementFacts

\* Two lists that have nothing in common, one after the other.
LEMMA JoinFacts ==
  ASSUME NEW s \in Lists, NEW t \in Lists, ToSet(s) \cap ToSet(t) = {}
  PROVE  s \o t \in Lists /\ ToSet(s \o t) = ToSet(s) \cup ToSet(t)
<1> DEFINE u == s \o t
<1>1. /\ s \in Seq(Names) /\ t \in Seq(Names) /\ Len(s) \in Nat /\ Len(t) \in Nat
      /\ \A i, j \in 1 .. Len(s) : s[i] = s[j] => i = j
      /\ \A i, j \in 1 .. Len(t) : t[i] = t[j] => i = j
  BY ListFacts
<1>0. \A i \in 1 .. Len(s), j \in 1 .. Len(t) : s[i] # t[j]
  <2>1. ToSet(s) = {s[i] : i \in 1 .. Len(s)} /\ ToSet(t) = {t[i] : i \in 1 .. Len(t)}
    BY ListFacts
  <2> QED BY <2>1
<1>2. /\ u \in Seq(Names) /\ Len(u) = Len(s) + Len(t) /\ DOMAIN u = 1 .. Len(s) + Len(t)
      /\ \A i \in 1 .. Len(s) + Len(t) : u[i] = IF i <= Len(s) THEN s[i] ELSE t[i - Len(s)]
  BY <1>1, ConcatProperties
<1> HIDE DEF u
<1>3. \A i \in 1 .. Len(s) : u[i] = s[i]
  BY <1>1, <1>2
<1>4. \A i \in 1 .. Len(t) : Len(s) + i \in 1 .. Len(s) + Len(t) /\ u[Len(s) + i] = t[i]
  <2> SUFFICES ASSUME NEW i \in 1 .. Len(t)
               PROVE  Len(s) + i \in 1 .. Len(s) + Len(t) /\ u[Len(s) + i] = t[i]
    OBVIOUS
  <2>1. /\ Len(s) + i \in 1 .. Len(s) + Len(t) /\ ~(Len(s) + i <= Len(s))
        /\ (Len(s) + i) - Len(s) = i
    BY <1>1
  <2> QED BY <1>2, <2>1
<1>5. \A i \in DOMAIN u : i \in 1 .. Len(s) \/ \E j \in 1 .. Len(t) : i = Len(s) + j
  <2> SUFFICES ASSUME NEW i \in DOMAIN u, i \notin 1 .. Len(s) PROVE \E j \in 1 .. Len(t) : i = Len(s) + j
    OBVIOUS
  <2>1. i - Len(s) \in 1 .. Len(t) /\ i = Len(s) + (i - Len(s))
    BY <1>1, <1>2
  <2> QED BY <2>1
<1>6. IsInjective(u)
  <2> SUFFICES ASSUME NEW i \in DOMAIN u, NEW j \in DOMAIN u, u[i] = u[j] PROVE i = j
    BY DEF IsInjective
  <2>1. CASE i \in 1 .. Len(s) /\ j \in 1 .. Len(s)
    BY <2>1, <1>1, <1>3
  <2>2. CASE i \in 1 .. Len(s) /\ j \notin 1 .. Len(s)
    BY <2>2, <1>0, <1>3, <1>4, <1>5
  <2>3. CASE i \notin 1 .. Len(s) /\ j \in 1 .. Len(s)
    BY <2>3, <1>0, <1>3, <1>4, <1>5
  <2>4. CASE i \notin 1 .. Len(s) /\ j \notin 1 .. Len(s)
    <3>1. PICK k \in 1 .. Len(t) : i = Len(s) + k
      BY <2>4, <1>5
    <3>2. PICK l \in 1 .. Len(t) : j = Len(s) + l
      BY <2>4, <1>5
    <3>3. u[i] = t[k] /\ u[j] = t[l]
      BY <3>1, <3>2, <1>4
    <3> QED BY <3>1, <3>2, <3>3, <1>1
  <2> QED BY <2>1, <2>2, <2>3, <2>4
<1>7. ToSet(u) = ToSet(s) \cup ToSet(t)
  <2>1. ToSet(s) = {s[i] : i \in 1 .. Len(s)} /\ ToSet(t) = {t[i] : i \in 1 .. Len(t)}
    BY ListFacts
  <2>2. ToSet(u) \subseteq ToSet(s) \cup ToSet(t)
    BY <2>1, <1>3, <1>4, <1>5 DEF ToSet
  <2>3. \A i \in 1 .. Len(s) : i \in DOMAIN u
    BY <1>1, <1>2
  <2>4. ToSet(s) \subseteq ToSet(u)
    BY <2>1, <2>3, <1>3 DEF ToSet
  <2>5. ToSet(t) \subseteq ToSet(u)
    <3>1. \A i \in 1 .. Len(t) : Len(s) + i \in DOMAIN u /\ u[Len(s) + i] = t[i]
      BY <1>2, <1>4
    <3> QED BY <2>1, <3>1 DEF ToSet
  <2> QED BY <2>2, <2>4, <2>5
<1> QED BY <1>2, <1>6, <1>7 DEF Lists, u

LEMMA FindFacts ==
  ASSUME NEW list \in Lists, NEW f
  PROVE  /\ Find(list, f) \in {-1} \cup 0 .. Len(list) - 1
         /\ f \in ToSet(list) => Find(list, f) # -1
         /\ Find(list, f) # -1 => f \in ToSet(list) /\ list[Find(list, f) + 1] = f
<1>1. DOMAIN list = 1 .. Len(list) /\ Len(list) \in Nat
  BY ListFacts
<1>2. CASE \E i \in DOMAIN list : list[i] = f
  <2> DEFINE n == CHOOSE i \in DOMAIN list : list[i] = f
  <2>1. n \in DOMAIN list /\ list[n] = f
    BY <1>2
  <2>2. Find(list, f) = n - 1
    BY <1>2 DEF Find
  <2> HIDE DEF n
  <2>3. n - 1 \in 0 .. Len(list) - 1 /\ (n - 1) + 1 = n /\ n - 1 # -1
    BY <1>1, <2>1
  <2> QED BY <2>1, <2>2, <2>3 DEF ToSet
<1>3. CASE ~\E i \in DOMAIN list : list[i] = f
  BY <1>3 DEF Find, ToSet
<1> QED BY <1>2, <1>3

\* A list is as long as it has members.
LEMMA LengthFacts ==
  ASSUME NEW s \in Lists
  PROVE  Len(s) = Cardinality(ToSet(s))
<1>1. /\ Len(s) \in Nat /\ DOMAIN s = 1 .. Len(s) /\ s \in Seq(Names)
      /\ \A i, j \in 1 .. Len(s) : s[i] = s[j] => i = j
      /\ ToSet(s) = {s[i] : i \in 1 .. Len(s)}
  BY ListFacts
<1>2. s \in [1 .. Len(s) -> ToSet(s)]
  BY <1>1
<1>3. s \in Surjection(1 .. Len(s), ToSet(s)) /\ s \in Injection(1 .. Len(s), ToSet(s))
  BY <1>1, <1>2 DEF Surjection, Injection, IsInjective
<1>4. IsFiniteSet(1 .. Len(s)) /\ Cardinality(1 .. Len(s)) = Len(s)
  BY <1>1, FS_Interval
<1> QED BY <1>3, <1>4, FS_Surjection

(***************************************************************************)
(* The invariant: the types, and only a drag has an item under it.         *)
(***************************************************************************)
DragOnly == ~In("drag") => _nDragOverItem = -1

IInv == TypeOK /\ DragOnly

LEMMA ListOfItems ==
  ASSUME TypeOK
  PROVE  /\ _thumbs \in Lists /\ Items \subseteq Names /\ Len(_thumbs) \in Nat
         /\ \A n \in Indices : n + 1 \in 1 .. Len(_thumbs) /\ Item(n) \in Items
         /\ \A f \in Items : \E n \in Indices : f = Item(n)
<1>1. _thumbs \in Lists
  BY DEF TypeOK, Lists
<1>2. /\ Len(_thumbs) \in Nat /\ Items \subseteq Names
      /\ Items = {_thumbs[i] : i \in 1 .. Len(_thumbs)}
  BY <1>1, ListFacts DEF Items
<1>3. \A n \in Indices : n + 1 \in 1 .. Len(_thumbs)
  BY <1>2 DEF Indices
<1>4. \A i \in 1 .. Len(_thumbs) : i - 1 \in Indices /\ (i - 1) + 1 = i
  BY <1>2 DEF Indices
<1> QED BY <1>1, <1>2, <1>3, <1>4 DEF Item

\* What Refresh leaves: no file that is still in the folder is missing.
LEMMA RefreshedFacts ==
  ASSUME TypeOK, NEW list \in Refreshed
  PROVE  list \in Lists /\ Items \cap dir \subseteq ToSet(list)
<1>1. _thumbs \in Lists /\ dir \subseteq Names
  BY ListOfItems DEF TypeOK, Names
<1>2. ASSUME NEW kept \in Kept(_thumbs, dir), list \in Appended(kept, dir \ Items)
      PROVE  list \in Lists /\ Items \cap dir \subseteq ToSet(list)
  <2>1. kept \in Lists /\ ToSet(kept) = Items \cap dir
    BY <1>1, KeptFacts DEF Items
  <2>2. PICK more \in SetToSeqs(dir \ Items) : list = kept \o more
    BY <1>2 DEF Appended
  <2>3. dir \ Items \subseteq Names
    BY <1>1
  <2>4. more \in Lists /\ ToSet(more) = dir \ Items
    BY <2>3, ArrangementFacts
  <2> QED BY <2>1, <2>2, <2>4, JoinFacts
<1>3. ASSUME NEW some \in SUBSET (dir \ Items), list \in Appended(_thumbs, some)
      PROVE  list \in Lists /\ Items \cap dir \subseteq ToSet(list)
  <2>1. PICK more \in SetToSeqs(some) : list = _thumbs \o more
    BY <1>3 DEF Appended
  <2>2. some \subseteq Names
    BY <1>1
  <2>3. more \in Lists /\ ToSet(more) = some
    BY <2>2, ArrangementFacts
  <2>4. ToSet(_thumbs) \cap ToSet(more) = {}
    BY <2>3 DEF Items
  <2> QED BY <1>1, <2>1, <2>3, <2>4, JoinFacts DEF Items
<1> DEFINE Complete == UNION {Appended(kept, dir \ Items) : kept \in Kept(_thumbs, dir)}
           Broken   == UNION {Appended(_thumbs, some) : some \in (SUBSET (dir \ Items)) \ {dir \ Items}}
<1>4. ASSUME list \in Complete PROVE list \in Lists /\ Items \cap dir \subseteq ToSet(list)
  BY <1>2, <1>4
<1>5. ASSUME list \in Broken PROVE list \in Lists /\ Items \cap dir \subseteq ToSet(list)
  <2>1. PICK some \in (SUBSET (dir \ Items)) \ {dir \ Items} : list \in Appended(_thumbs, some)
    BY <1>5
  <2> QED BY <2>1, <1>3
<1>6. Refreshed = Complete \cup Broken
  BY DEF Refreshed
<1> HIDE DEF Complete, Broken
<1> QED BY <1>4, <1>5, <1>6

LEMMA SelectFacts ==
  ASSUME TypeOK, NEW n, NEW ctrl, NEW shift, Select(n, ctrl, shift)
  PROVE  _nFocusItem' \in {-1} \cup Indices /\ selected' \subseteq Items
<1>1. CASE n \in Indices
  <2>1. \A i \in Indices : Item(i) \in Items
    BY ListOfItems
  <2>2. Selection(n, ctrl, shift) \subseteq Items
    BY <1>1, <2>1 DEF Selection, TypeOK
  <2> QED BY <1>1, <2>2 DEF Select
<1>2. CASE n \notin Indices
  BY <1>2 DEF Select, TypeOK
<1> QED BY <1>1, <1>2

\* DragSelection moves items and loses none, as long as the index is in the list.
LEMMA DragFacts ==
  ASSUME TypeOK, NEW n \in Indices, DragSelection(n)
  PROVE  /\ _thumbs' \in Lists /\ ToSet(_thumbs') = Items
         /\ Len(_thumbs') = Len(_thumbs)
<1> DEFINE front == SubSeq(_thumbs, 1, n)
           back  == SubSeq(_thumbs, n + 1, Len(_thumbs))
           rest  == Items \ selected
<1>1. /\ _thumbs \in Lists /\ _thumbs \in Seq(Names) /\ Len(_thumbs) \in Nat /\ n \in 0 .. Len(_thumbs) - 1
      /\ \A i, j \in 1 .. Len(_thumbs) : _thumbs[i] = _thumbs[j] => i = j
      /\ Items = {_thumbs[i] : i \in 1 .. Len(_thumbs)}
  BY ListOfItems, ListFacts DEF Indices, Items
<1>2. /\ front \in Seq(Names) /\ Len(front) = n
      /\ \A i \in 1 .. n : front[i] = _thumbs[i]
  BY <1>1, SubSeqProperties
<1>3. /\ back \in Seq(Names) /\ Len(back) = Len(_thumbs) - n
      /\ \A i \in 1 .. Len(_thumbs) - n : back[i] = _thumbs[n + i]
  BY <1>1, SubSeqProperties
<1>4. PICK before \in Kept(front, rest), drawn \in Kept(_thumbs, selected), after \in Kept(back, rest) :
        _thumbs' = before \o drawn \o after
  BY DEF DragSelection
<1> HIDE DEF front, back
<1>5. front \in Lists /\ back \in Lists
  <2>1. ASSUME NEW i \in 1 .. n, NEW j \in 1 .. n, front[i] = front[j] PROVE i = j
    BY <2>1, <1>1, <1>2
  <2>2. ASSUME NEW i \in 1 .. Len(_thumbs) - n, NEW j \in 1 .. Len(_thumbs) - n, back[i] = back[j] PROVE i = j
    <3>1. n + i \in 1 .. Len(_thumbs) /\ n + j \in 1 .. Len(_thumbs) /\ (n + i = n + j => i = j)
      BY <1>1
    <3> QED BY <2>2, <3>1, <1>1, <1>3
  <2>3. DOMAIN front = 1 .. n /\ DOMAIN back = 1 .. Len(_thumbs) - n
    BY <1>2, <1>3
  <2> QED BY <2>1, <2>2, <2>3, <1>2, <1>3 DEF Lists, IsInjective
<1>6. ToSet(front) \cap ToSet(back) = {}
  <2>1. ToSet(front) = {front[i] : i \in 1 .. n} /\ ToSet(back) = {back[i] : i \in 1 .. Len(_thumbs) - n}
    BY <1>2, <1>3, <1>5, ListFacts
  <2>2. \A i \in 1 .. n, j \in 1 .. Len(_thumbs) - n : front[i] # back[j]
    <3> SUFFICES ASSUME NEW i \in 1 .. n, NEW j \in 1 .. Len(_thumbs) - n PROVE front[i] # back[j]
      OBVIOUS
    <3>1. i \in 1 .. Len(_thumbs) /\ n + j \in 1 .. Len(_thumbs) /\ i # n + j
      BY <1>1
    <3> QED BY <3>1, <1>1, <1>2, <1>3
  <2> QED BY <2>1, <2>2
<1>7. ToSet(front) \cup ToSet(back) = Items
  <2>1. ToSet(front) = {front[i] : i \in 1 .. n} /\ ToSet(back) = {back[i] : i \in 1 .. Len(_thumbs) - n}
    BY <1>2, <1>3, <1>5, ListFacts
  <2>2. ASSUME NEW i \in 1 .. Len(_thumbs) PROVE _thumbs[i] \in ToSet(front) \cup ToSet(back)
    <3>1. CASE i <= n
      BY <3>1, <2>1, <1>1, <1>2
    <3>2. CASE ~(i <= n)
      <4>1. i - n \in 1 .. Len(_thumbs) - n /\ n + (i - n) = i
        BY <3>2, <1>1
      <4> QED BY <4>1, <2>1, <1>3
    <3> QED BY <3>1, <3>2
  <2>3. ToSet(front) \subseteq Items
    BY <2>1, <1>1, <1>2
  <2>4. ASSUME NEW i \in 1 .. Len(_thumbs) - n PROVE back[i] \in Items
    <3>1. n + i \in 1 .. Len(_thumbs)
      BY <1>1
    <3> QED BY <3>1, <1>1, <1>3
  <2>5. Items \subseteq ToSet(front) \cup ToSet(back)
    BY <2>2, <1>1
  <2>6. ToSet(back) \subseteq Items
    BY <2>1, <2>4
  <2> QED BY <2>3, <2>5, <2>6
<1>8. /\ before \in Lists /\ ToSet(before) = ToSet(front) \ selected
      /\ drawn \in Lists /\ ToSet(drawn) = selected
      /\ after \in Lists /\ ToSet(after) = ToSet(back) \ selected
  <2>1. ToSet(front) \cap rest = ToSet(front) \ selected /\ ToSet(back) \cap rest = ToSet(back) \ selected
    BY <1>7
  <2>2. Items \cap selected = selected /\ Items = ToSet(_thumbs)
    BY DEF TypeOK, Items
  <2>3. before \in Lists /\ ToSet(before) = ToSet(front) \cap rest
    BY <1>5, KeptFacts
  <2>4. after \in Lists /\ ToSet(after) = ToSet(back) \cap rest
    BY <1>5, KeptFacts
  <2>5. drawn \in Lists /\ ToSet(drawn) = ToSet(_thumbs) \cap selected
    BY <1>1, KeptFacts
  <2> QED BY <2>1, <2>2, <2>3, <2>4, <2>5
<1>9. before \o drawn \in Lists /\ ToSet(before \o drawn) = (ToSet(front) \ selected) \cup selected
  BY <1>8, JoinFacts
<1>10. _thumbs' \in Lists /\ ToSet(_thumbs') = Items
  <2>1. ToSet(before \o drawn) \cap ToSet(after) = {}
    BY <1>6, <1>8, <1>9
  <2>2. _thumbs' \in Lists /\ ToSet(_thumbs') = ToSet(before \o drawn) \cup ToSet(after)
    BY <1>4, <1>8, <1>9, <2>1, JoinFacts
  <2> QED BY <2>2, <1>7, <1>8, <1>9 DEF TypeOK
<1> QED BY <1>1, <1>10, LengthFacts DEF Items

\* An item takes a name that is not in the list.
LEMMA RenamedFacts ==
  ASSUME TypeOK, NEW n \in Indices, NEW f \in Names \ Items, _thumbs' = [_thumbs EXCEPT ![n + 1] = f]
  PROVE  /\ _thumbs' \in Lists /\ Len(_thumbs') = Len(_thumbs)
         /\ ToSet(_thumbs') = (Items \ {Item(n)}) \cup {f}
         /\ \A i \in Indices \ {n} : _thumbs'[i + 1] = Item(i)
<1>1. /\ _thumbs \in Seq(Names) /\ Len(_thumbs) \in Nat /\ n + 1 \in 1 .. Len(_thumbs)
      /\ \A i, j \in 1 .. Len(_thumbs) : _thumbs[i] = _thumbs[j] => i = j
      /\ Items = {_thumbs[i] : i \in 1 .. Len(_thumbs)} /\ Item(n) = _thumbs[n + 1]
  BY ListOfItems, ListFacts DEF Items, Item
<1>2. /\ _thumbs' \in Seq(Names) /\ Len(_thumbs') = Len(_thumbs) /\ DOMAIN _thumbs' = 1 .. Len(_thumbs)
      /\ \A i \in 1 .. Len(_thumbs) : _thumbs'[i] = IF i = n + 1 THEN f ELSE _thumbs[i]
  BY <1>1
<1>3. _thumbs' \in Lists
  BY <1>1, <1>2 DEF Lists, IsInjective
<1>4. ToSet(_thumbs') = {_thumbs'[i] : i \in 1 .. Len(_thumbs)}
  BY <1>2 DEF ToSet
<1>5. ToSet(_thumbs') = (Items \ {Item(n)}) \cup {f}
  <2>1. ASSUME NEW i \in 1 .. Len(_thumbs) PROVE _thumbs'[i] \in (Items \ {Item(n)}) \cup {f}
    <3>1. CASE i = n + 1
      BY <3>1, <1>2
    <3>2. CASE i # n + 1
      BY <3>2, <1>1, <1>2
    <3> QED BY <3>1, <3>2
  <2>2. f \in ToSet(_thumbs')
    BY <1>1, <1>2, <1>4
  <2>3. ASSUME NEW i \in 1 .. Len(_thumbs), i # n + 1 PROVE _thumbs[i] \in ToSet(_thumbs')
    <3>1. _thumbs'[i] = _thumbs[i]
      BY <2>3, <1>2
    <3> QED BY <3>1, <1>4
  <2>4. ASSUME NEW g \in Items, g # Item(n) PROVE g \in ToSet(_thumbs')
    <3>1. PICK i \in 1 .. Len(_thumbs) : g = _thumbs[i]
      BY <1>1
    <3>2. i # n + 1
      BY <2>4, <3>1, <1>1
    <3> QED BY <3>1, <3>2, <2>3
  <2>5. ToSet(_thumbs') \subseteq (Items \ {Item(n)}) \cup {f}
    BY <2>1, <1>4
  <2> QED BY <2>2, <2>4, <2>5
<1>6. ASSUME NEW i \in Indices \ {n} PROVE _thumbs'[i + 1] = Item(i)
  <2>1. i + 1 \in 1 .. Len(_thumbs) /\ i + 1 # n + 1
    BY <1>1 DEF Indices
  <2> QED BY <1>2, <2>1 DEF Item
<1> QED BY <1>2, <1>3, <1>5, <1>6

\* A new item at the end.
LEMMA AppendedFacts ==
  ASSUME TypeOK, NEW f \in Names \ Items, _thumbs' = Append(_thumbs, f)
  PROVE  /\ _thumbs' \in Lists /\ Len(_thumbs') = Len(_thumbs) + 1
         /\ Items \subseteq ToSet(_thumbs')
         /\ \A i \in Indices : _thumbs'[i + 1] = Item(i)
<1>1. /\ _thumbs \in Seq(Names) /\ Len(_thumbs) \in Nat
      /\ \A i, j \in 1 .. Len(_thumbs) : _thumbs[i] = _thumbs[j] => i = j
      /\ Items = {_thumbs[i] : i \in 1 .. Len(_thumbs)}
  BY ListOfItems, ListFacts DEF Items
<1>2. /\ _thumbs' \in Seq(Names) /\ Len(_thumbs') = Len(_thumbs) + 1 /\ DOMAIN _thumbs' = 1 .. Len(_thumbs) + 1
      /\ \A i \in 1 .. Len(_thumbs) : _thumbs'[i] = _thumbs[i]
      /\ _thumbs'[Len(_thumbs) + 1] = f
  BY <1>1, AppendProperties
<1>3. \A i \in 1 .. Len(_thumbs) + 1 : i \in 1 .. Len(_thumbs) \/ i = Len(_thumbs) + 1
  BY <1>1
<1>4. _thumbs' \in Lists
  <2>1. \A i \in 1 .. Len(_thumbs) : _thumbs[i] # f
    BY <1>1
  <2>2. ASSUME NEW i \in DOMAIN _thumbs', NEW j \in DOMAIN _thumbs', _thumbs'[i] = _thumbs'[j]
        PROVE  i = j
    <3>1. CASE i \in 1 .. Len(_thumbs) /\ j \in 1 .. Len(_thumbs)
      BY <2>2, <3>1, <1>1, <1>2
    <3>2. CASE ~(i \in 1 .. Len(_thumbs) /\ j \in 1 .. Len(_thumbs))
      BY <2>1, <2>2, <3>2, <1>2, <1>3
    <3> QED BY <3>1, <3>2
  <2> QED BY <1>2, <2>2 DEF Lists, IsInjective
<1>5. \A i \in 1 .. Len(_thumbs) : i \in DOMAIN _thumbs'
  BY <1>1, <1>2
<1>6. Items \subseteq ToSet(_thumbs')
  BY <1>1, <1>2, <1>5 DEF ToSet
<1>7. \A i \in Indices : i + 1 \in 1 .. Len(_thumbs)
  BY <1>1 DEF Indices
<1> QED BY <1>2, <1>4, <1>6, <1>7 DEF Item

(***************************************************************************)
(* The invariant holds.                                                    *)
(***************************************************************************)
LEMMA Beginning == Init => IInv
<1> SUFFICES ASSUME Init PROVE IInv
  OBVIOUS
<1>1. dir \subseteq Names /\ IsFiniteSet(dir)
  BY FS_Subset DEF Init, Names
<1>2. Cardinality(dir) \in Nat /\ Bijection(1 .. Cardinality(dir), dir) # {}
  BY <1>1, FS_CardinalityType DEF ExistsBijection
<1>3. \E f \in [1 .. Cardinality(dir) -> dir] : IsInjective(f)
  BY <1>2 DEF Bijection, Injection
<1>4. SetToSeq(dir) \in [1 .. Cardinality(dir) -> dir] /\ IsInjective(SetToSeq(dir))
  BY <1>3 DEF SetToSeq
<1>5. SetToSeq(dir) \in Lists
  BY <1>1, <1>2, <1>4 DEF Lists
<1>6. _thumbs \in Lists
  BY <1>5, SortedFacts DEF Init
<1>7. _thumbs \in Seq(Names) /\ IsInjective(_thumbs)
  BY <1>6 DEF Lists
<1>8. _nSortOrder \in Orders /\ dir \subseteq Files /\ box \in Boxes /\ 0 \in 0 .. MaxOps
  BY DEF Init, Boxes
<1> QED BY <1>7, <1>8 DEF Init, IInv, TypeOK, DragOnly, In

LEMMA RefreshTypes ==
  ASSUME IInv, NEW full, RefreshList(full), ops' \in 0 .. MaxOps
  PROVE  IInv'
<1>1. PICK list \in Refreshed :
        /\ _thumbs' \in IF full THEN Sorted(list, _nSortOrder, _bAssending) ELSE {list}
        /\ OnFolderRefresh(_thumbs',
                           IF _nFocusItem = -1 THEN -1 ELSE Find(list, Item(_nFocusItem)),
                           selected \cap ToSet(list))
  BY DEF RefreshList
<1>2. list \in Lists
  BY RefreshedFacts DEF IInv
<1>3. _thumbs' \in Lists /\ ToSet(_thumbs') = ToSet(list)
  BY <1>1, <1>2, SortedFacts
<1>4. Len(_thumbs') = Len(list)
  BY <1>2, <1>3, LengthFacts
<1>5. Find(list, Item(_nFocusItem)) \in {-1} \cup 0 .. Len(_thumbs') - 1
  BY <1>2, <1>4, FindFacts
<1>6. /\ Find(_thumbs', _strNewCreation) \in {-1} \cup 0 .. Len(_thumbs') - 1
      /\ Find(_thumbs', _strNewCreation) # -1 => _strNewCreation \in ToSet(_thumbs')
  BY <1>3, FindFacts
<1>7. /\ _nFocusItem' \in {-1} \cup 0 .. Len(_thumbs') - 1 /\ selected' \subseteq ToSet(_thumbs')
      /\ _strNewCreation' \in Files \cup {None} /\ _nDragOverItem' = -1
  BY <1>1, <1>3, <1>5, <1>6 DEF OnFolderRefresh, IInv, TypeOK
<1> QED BY <1>3, <1>7 DEF RefreshList, SameOrder, IInv, TypeOK, DragOnly, In, Items, Indices, Lists, Boxes

\* The other commands and boxes, which change neither the disk nor the window.
LEMMA Step == IInv /\ [Next]_vars => IInv'
<1> SUFFICES ASSUME IInv, [Next]_vars PROVE IInv'
  OBVIOUS
<1> USE DEF SameList, SameOrder, SameDisk, IInv, DragOnly, In
<1>l. /\ _thumbs \in Lists /\ Items \subseteq Names /\ Len(_thumbs) \in Nat
      /\ \A n \in Indices : n + 1 \in 1 .. Len(_thumbs) /\ Item(n) \in Items
  BY ListOfItems
<1>o. Do => ops' \in 0 .. MaxOps
  BY DEF Do, TypeOK
<1>1. ASSUME NEW n \in Indices, NEW ctrl \in BOOLEAN, NEW shift \in BOOLEAN, SelectItem(n, ctrl, shift)
      PROVE  IInv'
  <2>1. _nFocusItem' \in {-1} \cup Indices /\ selected' \subseteq Items
    BY <1>1, SelectFacts DEF SelectItem
  <2> QED BY <1>1, <1>o, <2>1 DEF SelectItem, Command, TypeOK, Items, Indices
<1>2. ASSUME NEW n \in Indices, NEW ctrl \in BOOLEAN, NEW shift \in BOOLEAN, BeginDrag(n, ctrl, shift)
      PROVE  IInv'
  <2>1. _nFocusItem' \in {-1} \cup Indices /\ selected' \subseteq Items
    BY <1>2, SelectFacts DEF BeginDrag, TypeOK
  <2>2. /\ Do /\ box = None /\ UNCHANGED <<_thumbs, searching, _nDragOverItem>>
        /\ SameOrder /\ SameDisk
        /\ box' = [kind |-> "drag", n |-> n, select |-> Item(n) \in selected, ctrl |-> ctrl, shift |-> shift]
    BY <1>2 DEF BeginDrag, Open, Command
  <2>3. n \in Nat /\ (Item(n) \in selected) \in BOOLEAN
    BY <1>l DEF Indices
  <2>4. box' \in Boxes
    BY <2>2, <2>3 DEF Boxes
  <2>5. _nDragOverItem = -1
    BY <2>2
  <2> QED BY <1>o, <2>1, <2>2, <2>4, <2>5 DEF TypeOK, Items, Indices
<1>3. ASSUME NEW some \in SUBSET Items, SelectMany(some)
      PROVE  IInv'
  BY <1>3, <1>o DEF SelectMany, Command, TypeOK, Items, Indices
<1>4. ASSUME NEW order \in Orders, NEW up \in BOOLEAN, SetSortOrder(order, up)
      PROVE  IInv'
  <2>1. _thumbs' \in Lists /\ ToSet(_thumbs') = Items
    BY <1>4, <1>l, SortedFacts DEF SetSortOrder, Items
  <2>2. Len(_thumbs') = Len(_thumbs)
    BY <1>l, <2>1, LengthFacts DEF Items
  <2>3. _nFocusItem' \in {-1} \cup 0 .. Len(_thumbs') - 1
    BY <1>4, <2>1, FindFacts DEF SetSortOrder
  <2> QED BY <1>4, <1>o, <2>1, <2>2, <2>3 DEF SetSortOrder, Command, TypeOK, Items, Indices, Lists
<1>5. ASSUME NEW f \in Files, CreateNew(f)
      PROVE  IInv'
  BY <1>5, <1>o DEF CreateNew, Command, RefreshInOneSecond, TypeOK, Items, Indices
<1>6. CASE RefreshFolder
  BY <1>6, <1>o, RefreshTypes DEF RefreshFolder, Command
<1>7. CASE Search
  <2>1. <<>> \in Lists /\ ToSet(<<>>) = {} /\ Len(<<>>) = 0
    BY DEF Lists, IsInjective, ToSet
  <2> QED BY <1>7, <1>o, <2>1 DEF Search, Command, TypeOK, Items, Indices, Lists
<1>8. CASE Rename
  <2>1. /\ Do /\ box = None /\ UNCHANGED <<_thumbs, searching, _nDragOverItem, selected, _nFocusItem>>
        /\ SameOrder /\ SameDisk
        /\ box' = [kind |-> "rename", n |-> _nFocusItem, name |-> Item(_nFocusItem)]
        /\ _nFocusItem # -1
    BY <1>8 DEF Rename, Open, Command
  <2>2. _nFocusItem \in Nat /\ Item(_nFocusItem) \in Names
    BY <1>l, <2>1 DEF TypeOK, Indices
  <2>3. box' \in Boxes /\ box'.kind = "rename"
    BY <2>1, <2>2 DEF Boxes
  <2> QED BY <1>o, <2>1, <2>3 DEF TypeOK, Items, Indices
<1>9. CASE Delete
  <2>1. /\ Do /\ box = None /\ UNCHANGED <<_thumbs, searching, _nDragOverItem, selected, _nFocusItem>>
        /\ SameOrder /\ SameDisk
        /\ box' = [kind |-> "delete", files |-> selected]
    BY <1>9 DEF Delete, Open, Command
  <2>2. selected \subseteq Names
    BY <1>l DEF TypeOK
  <2>3. box' \in Boxes /\ box'.kind = "delete"
    BY <2>1, <2>2 DEF Boxes
  <2> QED BY <1>o, <2>1, <2>3 DEF TypeOK, Items, Indices
<1>10. ASSUME NEW f \in Files, RenameOK(f)
       PROVE  IInv'
  <2>1. /\ box # None /\ box.kind = "rename" /\ box.n \in Indices /\ box' = None /\ UNCHANGED ops
        /\ SameOrder /\ UNCHANGED <<searching, _nDragOverItem>>
    BY <1>10 DEF RenameOK, Answer
  <2>2. CASE SameList /\ SameDisk
    BY <2>1, <2>2 DEF TypeOK, Items, Indices, Boxes
  <2>3. CASE ~(SameList /\ SameDisk)
    <3> DEFINE old == Item(box.n)
    <3>1. /\ f \in Files \ (dir \cup Items)
          /\ dir' = (dir \ {old}) \cup {f}
          /\ _thumbs' = [_thumbs EXCEPT ![box.n + 1] = f]
          /\ selected' = IF old \in selected THEN (selected \ {old}) \cup {f} ELSE selected
          /\ RefreshInOneSecond
          /\ UNCHANGED <<_nFocusItem, _strNewCreation>>
      BY <1>10, <2>3 DEF RenameOK
    <3>2. /\ _thumbs' \in Lists /\ Len(_thumbs') = Len(_thumbs)
          /\ ToSet(_thumbs') = (Items \ {old}) \cup {f}
      BY <2>1, <3>1, RenamedFacts DEF Names
    <3> QED BY <2>1, <3>1, <3>2 DEF TypeOK, Items, Indices, Lists, Boxes, RefreshInOneSecond
  <2> QED BY <2>2, <2>3
<1>11. ASSUME NEW n \in {-1} \cup Indices, DragOver(n)
       PROVE  IInv'
  BY <1>11 DEF DragOver, Answer, TypeOK, Items, Indices
<1>12. CASE Cancel
  BY <1>12 DEF Cancel, Answer, TypeOK, Items, Indices, Boxes
<1>13. CASE Drop
  <2>1. _nDragOverItem \in Indices /\ DragSelection(_nDragOverItem)
    BY <1>13 DEF Drop, TypeOK
  <2>2. _thumbs' \in Lists /\ ToSet(_thumbs') = Items /\ Len(_thumbs') = Len(_thumbs)
    BY <2>1, DragFacts
  <2> QED BY <1>13, <2>2 DEF Drop, Answer, TypeOK, Items, Indices, Lists, Boxes
<1>14. CASE EndDrag
  <2>1. _nFocusItem' \in {-1} \cup Indices /\ selected' \subseteq Items
    BY <1>14, SelectFacts DEF EndDrag, TypeOK
  <2> QED BY <1>14, <2>1 DEF EndDrag, Answer, TypeOK, Items, Indices, Boxes
<1>15. CASE EndDelete
  <2>1. _nFocusItem' \in {-1} \cup Indices /\ selected' \subseteq Items
    BY <1>15, SelectFacts DEF EndDelete
  <2> QED BY <1>15, <2>1 DEF EndDelete, Answer, RefreshInOneSecond, TypeOK, Items, Indices, Boxes
<1>16. ASSUME NEW f \in Files, DiskChanges(f)
       PROVE  IInv'
  BY <1>16, <1>o DEF DiskChanges, RefreshInOneSecond, TypeOK, Items, Indices
<1>17. ASSUME NEW f \in Names, InsertThumb(f)
       PROVE  IInv'
  <2>1. _thumbs' \in Lists /\ Items \subseteq ToSet(_thumbs') /\ Len(_thumbs') = Len(_thumbs) + 1
    BY <1>17, AppendedFacts DEF InsertThumb
  <2>2. Indices \subseteq 0 .. Len(_thumbs') - 1
    BY <1>l, <2>1 DEF Indices
  <2> QED BY <1>17, <2>1, <2>2 DEF InsertThumb, TypeOK, Items, Indices, Lists
<1>18. CASE OnTimer
  BY <1>18, RefreshTypes DEF OnTimer, TypeOK
<1>19. CASE UNCHANGED vars
  BY <1>19 DEF vars, TypeOK, Items, Indices
<1> QED
  BY <1>1, <1>2, <1>3, <1>4, <1>5, <1>6, <1>7, <1>8, <1>9, <1>10, <1>11, <1>12, <1>13, <1>14, <1>15,
     <1>16, <1>17, <1>18, <1>19 DEF Next, Commands, InBox, Events

LEMMA Always == Spec => []IInv
  BY Beginning, Step, PTL DEF Spec

\* However the list is refreshed, sorted, reordered, filled or renamed, each name is in
\* it once, and the focus and the item under a drag are -1 or places of it.
THEOREM TypesHold == Spec => []TypeOK
<1>1. IInv => TypeOK
  BY DEF IInv
<1> QED BY <1>1, Always, PTL

(***************************************************************************)
(* What becomes of the items and of the focus.                             *)
(***************************************************************************)
\* The steps that change the list; all others leave it alone, and move the focus
\* only as the user asks.
LEMMA ListSteps ==
  ASSUME [Next]_vars
  PROVE  \/ UNCHANGED <<_thumbs, _nFocusItem>>
         \/ UNCHANGED _thumbs /\ TakesFocus
         \/ Search \/ RefreshFolder \/ Drop \/ OnTimer
         \/ \E order \in Orders, up \in BOOLEAN : SetSortOrder(order, up)
         \/ \E f \in Files : RenameOK(f)
         \/ \E f \in Names : InsertThumb(f)
<1>1. ASSUME NEW n \in Indices, NEW ctrl \in BOOLEAN, NEW shift \in BOOLEAN,
             SelectItem(n, ctrl, shift) \/ BeginDrag(n, ctrl, shift)
      PROVE  UNCHANGED _thumbs /\ TakesFocus
  <2>1. TakesFocus
    BY <1>1 DEF TakesFocus
  <2>2. UNCHANGED _thumbs
    BY <1>1 DEF SelectItem, BeginDrag, Open
  <2> QED BY <2>1, <2>2
<1>2. (\E some \in SUBSET Items : SelectMany(some)) => UNCHANGED <<_thumbs, _nFocusItem>>
  BY DEF SelectMany
<1>3. (\E f \in Files : CreateNew(f)) \/ Rename \/ Delete => UNCHANGED <<_thumbs, _nFocusItem>>
  BY DEF CreateNew, Rename, Delete, Open, SameList
<1>4. (\E n \in {-1} \cup Indices : DragOver(n)) \/ Cancel \/ (\E f \in Files : DiskChanges(f))
        => UNCHANGED <<_thumbs, _nFocusItem>>
  BY DEF DragOver, Cancel, DiskChanges, SameList
<1>5. EndDrag \/ EndDelete => UNCHANGED _thumbs /\ TakesFocus
  BY DEF EndDrag, EndDelete, TakesFocus
<1>6. UNCHANGED vars => UNCHANGED <<_thumbs, _nFocusItem>>
  BY DEF vars
<1> QED BY <1>1, <1>2, <1>3, <1>4, <1>5, <1>6 DEF Next, Commands, InBox, Events

\* RefreshList loses no file that is still there, sorted or not.
LEMMA RefreshKeeps ==
  ASSUME TypeOK, NEW full, RefreshList(full)
  PROVE  Items \cap dir' \subseteq ToSet(_thumbs')
<1>1. PICK list \in Refreshed :
        _thumbs' \in IF full THEN Sorted(list, _nSortOrder, _bAssending) ELSE {list}
  BY DEF RefreshList
<1>2. list \in Lists /\ Items \cap dir \subseteq ToSet(list)
  BY RefreshedFacts
<1>3. ToSet(_thumbs') = ToSet(list)
  BY <1>1, <1>2, SortedFacts
<1> QED BY <1>2, <1>3 DEF RefreshList

\* No file of the folder vanishes from the list: a drop has an item of the list under
\* it, because a refresh below the drag has made it forget the old one.
THEOREM ItemsAreKept == Spec => NothingVanishes
<1> DEFINE Keeps == \A f \in Items \cap dir' : f \in ToSet(_thumbs') \/ Search
<1>1. IInv /\ [Next]_vars => Keeps
  <2> SUFFICES ASSUME IInv, [Next]_vars, ~Search PROVE Items \cap dir' \subseteq ToSet(_thumbs')
    OBVIOUS
  <2>1. TypeOK /\ _thumbs \in Lists
    BY ListOfItems DEF IInv
  <2>2. CASE UNCHANGED _thumbs
    BY <2>2 DEF Items
  <2>3. CASE RefreshFolder \/ OnTimer
    BY <2>1, <2>3, RefreshKeeps DEF RefreshFolder, OnTimer
  <2>4. CASE Drop
    <3>1. _nDragOverItem \in Indices /\ DragSelection(_nDragOverItem)
      BY <2>1, <2>4 DEF Drop, TypeOK
    <3> QED BY <2>1, <3>1, DragFacts
  <2>5. ASSUME NEW order \in Orders, NEW up \in BOOLEAN, SetSortOrder(order, up)
        PROVE  Items \cap dir' \subseteq ToSet(_thumbs')
    <3>1. ToSet(_thumbs') = Items
      BY <2>1, <2>5, SortedFacts DEF SetSortOrder, Items
    <3> QED BY <3>1
  <2>6. ASSUME NEW f \in Files, RenameOK(f), ~UNCHANGED _thumbs
        PROVE  Items \cap dir' \subseteq ToSet(_thumbs')
    <3>1. /\ box.n \in Indices /\ f \in Names \ (dir \cup Items)
          /\ dir' = (dir \ {Item(box.n)}) \cup {f}
          /\ _thumbs' = [_thumbs EXCEPT ![box.n + 1] = f]
      BY <2>6 DEF RenameOK, SameList, Names
    <3>2. ToSet(_thumbs') = (Items \ {Item(box.n)}) \cup {f}
      BY <2>1, <3>1, RenamedFacts
    <3>3. Item(box.n) \in Items
      BY <2>1, <3>1, ListOfItems
    <3> QED BY <3>1, <3>2, <3>3
  <2>7. ASSUME NEW f \in Names, InsertThumb(f)
        PROVE  Items \cap dir' \subseteq ToSet(_thumbs')
    BY <2>1, <2>7, AppendedFacts DEF InsertThumb
  <2> QED BY <2>2, <2>3, <2>4, <2>5, <2>6, <2>7, ListSteps
<1>2. IInv /\ [Next]_vars => [Keeps]_vars
  BY <1>1
<1> QED BY <1>2, Always, PTL DEF Spec, NothingVanishes

\* The focused item keeps the focus: sorting and the refresh by the timer look it up
\* again, and its index means the same item when results arrive or an item is renamed.
THEOREM FocusIsKept == Spec => FocusStays
<1> DEFINE f == Focused(_thumbs, _nFocusItem)
           Stays == f # None /\ f \in ToSet(_thumbs') /\ Focused(_thumbs', _nFocusItem') # f
                      => TakesFocus \/ RefreshFolder \/ Drop
<1>1. IInv /\ [Next]_vars => Stays
  <2> SUFFICES ASSUME IInv, [Next]_vars, f # None, f \in ToSet(_thumbs'),
                      ~(TakesFocus \/ RefreshFolder \/ Drop)
               PROVE  Focused(_thumbs', _nFocusItem') = f
    OBVIOUS
  <2>1. TypeOK /\ _thumbs \in Lists /\ _nFocusItem \in Indices /\ f = Item(_nFocusItem) /\ f \in Items
    BY ListOfItems DEF IInv, TypeOK, Focused, Item
  <2>2. _nFocusItem # -1
    BY <2>1 DEF Indices
  <2>3. CASE UNCHANGED <<_thumbs, _nFocusItem>>
    BY <2>3
  <2>4. ASSUME NEW list \in Lists, list = _thumbs', _nFocusItem' = Find(list, f)
        PROVE  Focused(_thumbs', _nFocusItem') = f
    <3>1. _nFocusItem' # -1 /\ list[_nFocusItem' + 1] = f
      BY <2>4, FindFacts
    <3> QED BY <2>4, <3>1 DEF Focused
  <2>5. ASSUME NEW order \in Orders, NEW up \in BOOLEAN, SetSortOrder(order, up)
        PROVE  Focused(_thumbs', _nFocusItem') = f
    <3>1. _thumbs' \in Lists
      BY <2>1, <2>5, SortedFacts DEF SetSortOrder
    <3> QED BY <2>1, <2>2, <2>4, <2>5, <3>1 DEF SetSortOrder
  <2>6. CASE OnTimer
    <3>1. PICK list \in Refreshed :
            /\ _thumbs' = list
            /\ OnFolderRefresh(_thumbs', IF _nFocusItem = -1 THEN -1 ELSE Find(list, Item(_nFocusItem)),
                               selected \cap ToSet(list))
      BY <2>6 DEF OnTimer, RefreshList
    <3>2. list \in Lists
      BY <2>1, RefreshedFacts
    <3>3. Find(list, _strNewCreation) = -1
      <4> SUFFICES ASSUME Find(list, _strNewCreation) # -1 PROVE FALSE
        OBVIOUS
      <4>1. _strNewCreation \in Names
        BY <3>2, FindFacts, ListFacts
      <4>2. _strNewCreation # None /\ _strNewCreation' = None
        BY <3>1, <4>1 DEF OnFolderRefresh
      <4> QED BY <4>2 DEF TakesFocus
    <3>4. _nFocusItem' = Find(list, f)
      BY <2>1, <2>2, <3>1, <3>3 DEF OnFolderRefresh
    <3> QED BY <2>4, <3>1, <3>2, <3>4
  <2>7. ASSUME NEW g \in Files, RenameOK(g), ~UNCHANGED <<_thumbs, _nFocusItem>>
        PROVE  Focused(_thumbs', _nFocusItem') = f
    <3>1. /\ box.n \in Indices /\ g \in Names \ (dir \cup Items) /\ _nFocusItem' = _nFocusItem
          /\ _thumbs' = [_thumbs EXCEPT ![box.n + 1] = g]
      BY <2>7 DEF RenameOK, SameList, Names
    <3>2. /\ ToSet(_thumbs') = (Items \ {Item(box.n)}) \cup {g}
          /\ \A i \in Indices \ {box.n} : _thumbs'[i + 1] = Item(i)
      BY <2>1, <3>1, RenamedFacts
    <3>3. box.n # _nFocusItem
      BY <2>1, <3>1, <3>2
    <3> QED BY <2>1, <2>2, <3>1, <3>2, <3>3 DEF Focused
  <2>8. ASSUME NEW g \in Names, InsertThumb(g)
        PROVE  Focused(_thumbs', _nFocusItem') = f
    <3>1. \A i \in Indices : _thumbs'[i + 1] = Item(i)
      BY <2>1, <2>8, AppendedFacts DEF InsertThumb
    <3> QED BY <2>1, <2>2, <2>8, <3>1 DEF InsertThumb, Focused
  <2>9. ~Search
    BY DEF TakesFocus
  <2> HIDE DEF f
  <2> QED BY <2>3, <2>5, <2>6, <2>7, <2>8, <2>9, ListSteps
<1>2. IInv /\ [Next]_vars => [Stays]_vars
  BY <1>1
<1> QED BY <1>2, Always, PTL DEF Spec, FocusStays
=============================================================================
