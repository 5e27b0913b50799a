--------------------------- MODULE NavigationProof ---------------------------
(***************************************************************************)
(* Proofs about Navigation, for every tree of folders and every limit.     *)
(***************************************************************************)
EXTENDS Navigation, SequenceTheorems, TLAPS

USE NavigationAssumption

(***************************************************************************)
(* The favourites.                                                         *)
(***************************************************************************)
Distinct(s) == \A i, j \in 1 .. Len(s) : s[i] = s[j] => i = j

Favourites == {s \in Seq(Folders) : Distinct(s) /\ Len(s) <= MaxSize + 1}

\* Removing one place of a list keeps the order of the others.
LEMMA RemoveAtFacts ==
  ASSUME NEW s \in Seq(Folders), NEW n \in 1 .. Len(s)
  PROVE  /\ RemoveAt(s, n) \in Seq(Folders)
         /\ Len(RemoveAt(s, n)) = Len(s) - 1
         /\ \A i \in 1 .. Len(s) - 1 :
              RemoveAt(s, n)[i] = IF i < n THEN s[i] ELSE s[i + 1]
<1> DEFINE front == SubSeq(s, 1, n - 1)
           back  == SubSeq(s, n + 1, Len(s))
<1>1. /\ front \in Seq(Folders) /\ Len(front) = n - 1
      /\ \A i \in 1 .. n - 1 : front[i] = s[i]
  BY SubSeqProperties
<1>2. /\ back \in Seq(Folders) /\ Len(back) = Len(s) - n
      /\ \A i \in 1 .. Len(s) - n : back[i] = s[n + i]
  BY SubSeqProperties
<1> HIDE DEF front, back
<1>m. n - 1 + (Len(s) - n) = Len(s) - 1
  OBVIOUS
<1>c. /\ front \o back \in Seq(Folders)
      /\ Len(front \o back) = Len(front) + Len(back)
      /\ \A i \in 1 .. Len(front) + Len(back) :
           (front \o back)[i] = IF i <= Len(front) THEN front[i] ELSE back[i - Len(front)]
  BY <1>1, <1>2, ConcatProperties
<1>3. /\ front \o back \in Seq(Folders)
      /\ Len(front \o back) = Len(s) - 1
      /\ \A i \in 1 .. Len(s) - 1 :
           (front \o back)[i] = IF i <= n - 1 THEN front[i] ELSE back[i - (n - 1)]
  BY <1>1, <1>2, <1>m, <1>c
<1>4. RemoveAt(s, n) = front \o back
  BY DEF RemoveAt, front, back
<1>5. ASSUME NEW i \in 1 .. Len(s) - 1
      PROVE  RemoveAt(s, n)[i] = IF i < n THEN s[i] ELSE s[i + 1]
  <2>1. CASE i < n
    BY <2>1, <1>1, <1>3, <1>4
  <2>2. CASE ~(i < n)
    <3>1. i - (n - 1) \in 1 .. Len(s) - n
      BY <2>2
    <3>2. back[i - (n - 1)] = s[i + 1]
      BY <3>1, <1>2
    <3>3. ~(i <= n - 1)
      BY <2>2
    <3> QED BY <2>2, <3>2, <3>3, <1>3, <1>4
  <2> QED BY <2>1, <2>2
<1> QED BY <1>3, <1>4, <1>5

\* Appending a folder that is not there keeps the places distinct.
LEMMA AppendDistinct ==
  ASSUME NEW s \in Seq(Folders), Distinct(s), NEW f \in Folders,
         \A i \in 1 .. Len(s) : s[i] # f
  PROVE  /\ Append(s, f) \in Seq(Folders)
         /\ Distinct(Append(s, f))
         /\ Len(Append(s, f)) = Len(s) + 1
  BY AppendProperties DEF Distinct

LEMMA RemoveAtDistinct ==
  ASSUME NEW s \in Seq(Folders), Distinct(s), NEW n \in 1 .. Len(s)
  PROVE  /\ Distinct(RemoveAt(s, n))
         /\ \A i \in 1 .. Len(RemoveAt(s, n)) : RemoveAt(s, n)[i] # s[n]
<1> DEFINE r == RemoveAt(s, n)
           At(i) == IF i < n THEN i ELSE i + 1
<1>1. Len(r) = Len(s) - 1 /\ \A i \in 1 .. Len(s) - 1 : r[i] = s[At(i)]
  BY RemoveAtFacts
<1>2. \A i \in 1 .. Len(s) - 1 : At(i) \in 1 .. Len(s) /\ At(i) # n
  OBVIOUS
<1>3. \A i, j \in 1 .. Len(s) - 1 : At(i) = At(j) => i = j
  OBVIOUS
<1> HIDE DEF r, At
<1>4. Distinct(r) /\ \A i \in 1 .. Len(r) : r[i] # s[n]
  BY <1>1, <1>2, <1>3 DEF Distinct
<1> QED BY <1>4 DEF r

LEMMA TailDistinct ==
  ASSUME NEW s \in Seq(Folders), Distinct(s), Len(s) > 0
  PROVE  /\ Tail(s) \in Seq(Folders)
         /\ Len(Tail(s)) = Len(s) - 1
         /\ Distinct(Tail(s))
         /\ \A i \in 1 .. Len(Tail(s)) : Tail(s)[i] = s[i + 1]
  BY HeadTailProperties DEF Distinct

\* Whatever folder is added, the favourites stay distinct and few.
LEMMA AddedFacts ==
  ASSUME NEW items \in Favourites, NEW f \in Folders
  PROVE  Added(items, f) \in Favourites
<1> DEFINE others == Without(items, f)
           kept   == IF Len(others) > MaxSize THEN Tail(others) ELSE others
<1>1. /\ others \in Seq(Folders) /\ Distinct(others)
      /\ Len(others) <= MaxSize + 1
      /\ \A i \in 1 .. Len(others) : others[i] # f
  <2>1. CASE \E i \in 1 .. Len(items) : items[i] = f
    <3> DEFINE n == CHOOSE i \in 1 .. Len(items) :
                      items[i] = f /\ \A j \in 1 .. i - 1 : items[j] # f
    <3>1. PICK k \in 1 .. Len(items) : items[k] = f
      BY <2>1
    <3>2. \A j \in 1 .. k - 1 : items[j] # f
      BY <3>1 DEF Favourites, Distinct
    <3>3. n \in 1 .. Len(items) /\ items[n] = f
      BY <3>1, <3>2
    <3>4. others = RemoveAt(items, n)
      BY <2>1 DEF Without
    <3> HIDE DEF n, others
    <3>5. items \in Seq(Folders) /\ Distinct(items) /\ Len(items) <= MaxSize + 1
      BY DEF Favourites
    <3>6. others \in Seq(Folders) /\ Len(others) = Len(items) - 1
      BY <3>3, <3>4, <3>5, RemoveAtFacts
    <3>7. Distinct(others) /\ \A i \in 1 .. Len(others) : others[i] # items[n]
      BY <3>3, <3>4, <3>5, RemoveAtDistinct
    <3> QED BY <3>3, <3>5, <3>6, <3>7
  <2>2. CASE ~ \E i \in 1 .. Len(items) : items[i] = f
    BY <2>2 DEF Without, Favourites
  <2> QED BY <2>1, <2>2
<1> HIDE DEF others
<1>2. /\ kept \in Seq(Folders) /\ Distinct(kept)
      /\ Len(kept) <= MaxSize
      /\ \A i \in 1 .. Len(kept) : kept[i] # f
  BY <1>1, TailDistinct
<1>3. Added(items, f) = Append(kept, f)
  BY DEF Added, others
<1> HIDE DEF kept
<1> QED BY <1>2, <1>3, AppendDistinct DEF Favourites

LEMMA UsedFacts ==
  ASSUME NEW items \in Favourites, NEW n \in 1 .. Len(items)
  PROVE  Used(items, n) \in Favourites
<1> DEFINE others == RemoveAt(items, n)
<1>1. items \in Seq(Folders) /\ Distinct(items) /\ Len(items) <= MaxSize + 1
  BY DEF Favourites
<1>2. items[n] \in Folders
  BY <1>1
<1>3. others \in Seq(Folders) /\ Len(others) = Len(items) - 1
  BY <1>1, RemoveAtFacts
<1>4. Distinct(others) /\ \A i \in 1 .. Len(others) : others[i] # items[n]
  BY <1>1, RemoveAtDistinct
<1> HIDE DEF others
<1>5. /\ Append(others, items[n]) \in Seq(Folders)
      /\ Distinct(Append(others, items[n]))
      /\ Len(Append(others, items[n])) = Len(items)
  BY <1>1, <1>2, <1>3, <1>4, AppendDistinct
<1> QED BY <1>1, <1>5 DEF Favourites, Used, others

(***************************************************************************)
(* The history.  A move that opened nothing has forgotten what was left:   *)
(* without that HistoryAdd could find the open folder in place after one.  *)
(***************************************************************************)
StrayForgets == stray => left = Nowhere

\* Opening the open folder again adds nothing, so that no step through the history
\* stays where it is.
NeighboursDiffer == \A i \in 1 .. Len(m_history) - 1 : m_history[i] # m_history[i + 1]

Trail == HistoryShowsFolder /\ BackReturns /\ NeighboursDiffer /\ StrayForgets

HistoryOK ==
  /\ folder \in Folders
  /\ m_history \in Seq(Folders) /\ Len(m_history) <= MaxHistory
  /\ m_iHistoryPos \in 0 .. Len(m_history) - 1
  /\ stray \in BOOLEAN
  /\ left \in Folders \cup {Nowhere}
  /\ Trail

RestOK ==
  /\ present \subseteq Folders /\ Root \in present
  /\ _items \in Favourites
  /\ ops \in 0 .. MaxOps

\* The inductive invariant, in two halves: the history, and the rest.
IInv == HistoryOK /\ RestOK

\* The history after HistoryAdd has added f: what was behind, and f.
LEMMA LongerFacts ==
  ASSUME HistoryOK, NEW f \in Folders
  PROVE  LET longer == Append(SubSeq(m_history, 1, m_iHistoryPos + 1), f)
             trimmed == IF Len(longer) > MaxHistory THEN Tail(longer) ELSE longer
             gone == IF Len(longer) > MaxHistory THEN 1 ELSE 0
         IN  /\ longer \in Seq(Folders) /\ Len(longer) = m_iHistoryPos + 2
             /\ trimmed \in Seq(Folders)
             /\ Len(trimmed) = m_iHistoryPos + 2 - gone
             /\ Len(trimmed) \in 2 .. MaxHistory
             /\ \A i \in 1 .. Len(trimmed) - 1 : trimmed[i] = m_history[i + gone]
             /\ trimmed[Len(trimmed)] = f
<1> DEFINE behind == SubSeq(m_history, 1, m_iHistoryPos + 1)
           longer == Append(behind, f)
<1>1. /\ behind \in Seq(Folders) /\ Len(behind) = m_iHistoryPos + 1
      /\ \A i \in 1 .. m_iHistoryPos + 1 : behind[i] = m_history[i]
  BY SubSeqProperties DEF HistoryOK
<1> HIDE DEF behind
<1>2. /\ longer \in Seq(Folders) /\ Len(longer) = m_iHistoryPos + 2
      /\ \A i \in 1 .. m_iHistoryPos + 1 : longer[i] = m_history[i]
      /\ longer[m_iHistoryPos + 2] = f
  BY <1>1, AppendProperties DEF HistoryOK
<1> HIDE DEF longer
<1>3. /\ Tail(longer) \in Seq(Folders) /\ Len(Tail(longer)) = m_iHistoryPos + 1
      /\ \A i \in 1 .. m_iHistoryPos + 1 : Tail(longer)[i] = longer[i + 1]
  BY <1>2, HeadTailProperties DEF HistoryOK
<1>4. m_iHistoryPos \in Nat /\ m_iHistoryPos + 1 <= MaxHistory
  BY DEF HistoryOK
<1>5. longer = Append(SubSeq(m_history, 1, m_iHistoryPos + 1), f)
  BY DEF longer, behind
<1>6. CASE Len(longer) > MaxHistory
  <2>1. /\ Tail(longer) \in Seq(Folders)
        /\ Len(Tail(longer)) = m_iHistoryPos + 1
        /\ Len(Tail(longer)) \in 2 .. MaxHistory
        /\ \A i \in 1 .. Len(Tail(longer)) - 1 : Tail(longer)[i] = m_history[i + 1]
        /\ Tail(longer)[Len(Tail(longer))] = f
    BY <1>2, <1>3, <1>4, <1>6
  <2> DEFINE trimmed == IF Len(longer) > MaxHistory THEN Tail(longer) ELSE longer
             gone == IF Len(longer) > MaxHistory THEN 1 ELSE 0
  <2>2. trimmed = Tail(longer) /\ gone = 1
    BY <1>6
  <2> HIDE DEF trimmed, gone
  <2>3. /\ trimmed \in Seq(Folders) /\ Len(trimmed) = m_iHistoryPos + 2 - gone
        /\ Len(trimmed) \in 2 .. MaxHistory
        /\ \A i \in 1 .. Len(trimmed) - 1 : trimmed[i] = m_history[i + gone]
        /\ trimmed[Len(trimmed)] = f
    BY <1>4, <2>1, <2>2
  <2> QED BY <1>2, <2>3 DEF trimmed, gone, longer, behind
<1>7. CASE ~(Len(longer) > MaxHistory)
  BY <1>2, <1>4, <1>5, <1>7
<1> QED BY <1>6, <1>7

\* Every way to open a folder, when it succeeds and when it fails.
LEMMA OpenKeeps ==
  ASSUME HistoryOK, present \subseteq Folders, NEW f \in Folders, Open(f)
  PROVE  HistoryOK'
<1>1. CASE f \notin present
  BY <1>1 DEF Open, HistoryOK, Trail, HistoryShowsFolder, BackReturns, NeighboursDiffer,
              StrayForgets, Item, Nowhere
<1>2. CASE f \in present /\ Item(m_iHistoryPos) = f
  BY <1>2 DEF Open, HistoryAdd, HistoryOK, Trail, HistoryShowsFolder, BackReturns,
              NeighboursDiffer, StrayForgets, Item, Nowhere
<1>3. CASE f \in present /\ Item(m_iHistoryPos) # f
  <2> DEFINE longer == Append(SubSeq(m_history, 1, m_iHistoryPos + 1), f)
             gone == IF Len(longer) > MaxHistory THEN 1 ELSE 0
  <2>1. /\ m_history' = IF Len(longer) > MaxHistory THEN Tail(longer) ELSE longer
        /\ m_iHistoryPos' = Len(m_history') - 1
        /\ left' = IF stray THEN Nowhere ELSE folder
        /\ folder' = f /\ stray' = FALSE
    BY <1>3 DEF Open, HistoryAdd
  <2>2. /\ m_history' \in Seq(Folders)
        /\ Len(m_history') = m_iHistoryPos + 2 - gone
        /\ Len(m_history') \in 2 .. MaxHistory
        /\ \A i \in 1 .. Len(m_history') - 1 : m_history'[i] = m_history[i + gone]
        /\ m_history'[Len(m_history')] = f
    BY <2>1, LongerFacts
  <2>3. gone \in {0, 1}
    OBVIOUS
  <2> HIDE DEF gone, longer
  <2>4. NeighboursDiffer'
    <3> SUFFICES ASSUME NEW i \in 1 .. Len(m_history') - 1
                 PROVE  m_history'[i] # m_history'[i + 1]
      BY DEF NeighboursDiffer
    <3>1. CASE i = Len(m_history') - 1
      <4>1. m_history'[i] = m_history[m_iHistoryPos + 1]
        BY <3>1, <2>2, <2>3 DEF HistoryOK
      <4> QED BY <4>1, <3>1, <2>2, <1>3 DEF Item
    <3>2. CASE i # Len(m_history') - 1
      <4>1. i \in Nat /\ i >= 1 /\ i < Len(m_history') - 1 /\ Len(m_history') \in Nat
        BY <3>2, <2>2
      <4>2. m_history'[i] = m_history[i + gone] /\ m_history'[i + 1] = m_history[i + gone + 1]
        BY <4>1, <2>2, <2>3
      <4>3. i + gone \in 1 .. Len(m_history) - 1
        BY <4>1, <2>2, <2>3 DEF HistoryOK
      <4> QED BY <4>2, <4>3, <2>3 DEF HistoryOK, Trail, NeighboursDiffer
    <3> QED BY <3>1, <3>2
  <2>5. HistoryShowsFolder' /\ StrayForgets'
    BY <2>1, <2>2 DEF HistoryShowsFolder, StrayForgets, Item
  <2>6. BackReturns'
    <3>1. m_iHistoryPos' > 0
      BY <2>1, <2>2
    <3>2. m_history'[m_iHistoryPos'] = m_history[m_iHistoryPos + 1]
      BY <2>1, <2>2, <2>3 DEF HistoryOK
    <3>3. left' # Nowhere => left' = m_history[m_iHistoryPos + 1]
      BY <2>1 DEF HistoryOK, Trail, HistoryShowsFolder, Item, Nowhere
    <3>4. m_iHistoryPos' - 1 + 1 = m_iHistoryPos'
      BY <2>1, <2>2
    <3> QED BY <3>1, <3>2, <3>3, <3>4 DEF BackReturns, Item
  <2>7. folder' \in Folders /\ stray' \in BOOLEAN /\ left' \in Folders \cup {Nowhere}
    BY <2>1 DEF HistoryOK
  <2>8. m_iHistoryPos' \in 0 .. Len(m_history') - 1 /\ Len(m_history') <= MaxHistory
    BY <2>1, <2>2
  <2> QED
    BY <2>2, <2>4, <2>5, <2>6, <2>7, <2>8 DEF HistoryOK, Trail
<1> QED BY <1>1, <1>2, <1>3

LEMMA SameHistory ==
  ASSUME HistoryOK, UNCHANGED <<folder, m_history, m_iHistoryPos, stray, left>>
  PROVE  HistoryOK'
  BY DEF HistoryOK, Trail, HistoryShowsFolder, BackReturns, NeighboursDiffer, StrayForgets,
         Item, Nowhere

LEMMA Beginning == Init => IInv
<1> SUFFICES ASSUME Init PROVE HistoryOK /\ RestOK
  BY DEF IInv
<1>1. folder \in Folders /\ present \subseteq Folders /\ Root \in present
  BY DEF Init
<1>2. m_history \in Seq(Folders) /\ Len(m_history) = 1 /\ m_history[1] = folder
  BY <1>1 DEF Init
<1>3. Trail
  BY <1>1, <1>2 DEF Init, Trail, HistoryShowsFolder, BackReturns, NeighboursDiffer,
                    StrayForgets, Item
<1>l. Len(m_history) <= MaxHistory /\ m_iHistoryPos \in 0 .. Len(m_history) - 1
  BY <1>2 DEF Init
<1>s. stray \in BOOLEAN /\ left \in Folders \cup {Nowhere}
  BY Zenon DEF Init
<1>h. HistoryOK
  BY <1>1, <1>2, <1>3, <1>l, <1>s DEF HistoryOK
<1>4. RestOK
  BY <1>1 DEF Init, RestOK, Favourites, Distinct
<1> QED BY <1>h, <1>4

\* Every command, and every change of the disk, preserves the invariant.
LEMMA Step == IInv /\ [Next]_vars => IInv'
<1> SUFFICES ASSUME HistoryOK, RestOK, [Next]_vars
             PROVE  HistoryOK' /\ RestOK'
  BY DEF IInv
<1>p. present \subseteq Folders
  BY DEF RestOK
<1>i. \A n \in 1 .. Len(_items) : _items[n] \in Folders
  BY DEF RestOK, Favourites
<1>d. ASSUME Do PROVE ops' \in 0 .. MaxOps
  BY <1>d DEF Do, RestOK
<1>1. CASE UNCHANGED vars
  BY <1>1, SameHistory DEF vars, RestOK
<1>2. CASE \E f \in Folders : OpenFolder(f)
  BY <1>2, <1>p, <1>d, OpenKeeps DEF OpenFolder, RestOK
<1>3. CASE OpenParent
  BY <1>3, <1>p, <1>d, OpenKeeps DEF OpenParent, RestOK, HistoryOK
<1>4. CASE RefreshList
  BY <1>4, <1>p, <1>d, OpenKeeps DEF RefreshList, RestOK, HistoryOK
<1>5. CASE \E n \in 1 .. Len(_items) : OnGoTo(n)
  <2>1. PICK n \in 1 .. Len(_items) : OnGoTo(n)
    BY <1>5
  <2> QED BY <2>1, <1>p, <1>i, <1>d, OpenKeeps, UsedFacts DEF OnGoTo, RestOK
<1>6. CASE \E n \in 1 .. Len(_items) : OnCopyTo(n)
  BY <1>6, <1>d, SameHistory, UsedFacts DEF OnCopyTo, NoMove, RestOK
<1>7. CASE \E f \in Folders : GoToNewLocation(f)
  BY <1>7, <1>p, <1>d, OpenKeeps, AddedFacts DEF GoToNewLocation, RestOK
<1>8. CASE \E f \in Folders : CopyToNewLocation(f)
  BY <1>8, <1>d, SameHistory, AddedFacts DEF CopyToNewLocation, NoMove, RestOK
<1>9. CASE GoToAddCurrent
  BY <1>9, <1>d, SameHistory, AddedFacts DEF GoToAddCurrent, NoMove, RestOK, HistoryOK
<1>10. CASE MoveToClear
  BY <1>10, <1>d, SameHistory DEF MoveToClear, NoMove, RestOK, Favourites, Distinct
<1>11. CASE \E f \in Folders : DiskChanges(f)
  BY <1>11, <1>d, SameHistory DEF DiskChanges, NoMove, RestOK
<1>12. CASE Restart
  <2>1. folder' \in Folders /\ m_history' = <<folder'>> /\ m_iHistoryPos' = 0
        /\ stray' = FALSE /\ left' = Nowhere
    BY <1>12 DEF Restart, HistoryOK, RestOK
  <2>2. m_history' \in Seq(Folders) /\ Len(m_history') = 1 /\ m_history'[1] = folder'
    BY <2>1
  <2>4. Trail'
    BY <2>1, <2>2 DEF Trail, HistoryShowsFolder, BackReturns, NeighboursDiffer,
                      StrayForgets, Item
  <2>5. Len(m_history') <= MaxHistory /\ m_iHistoryPos' \in 0 .. Len(m_history') - 1
    BY <2>1, <2>2
  <2>6. stray' \in BOOLEAN /\ left' \in Folders \cup {Nowhere}
    BY <2>1, Zenon
  <2>3. HistoryOK'
    BY <2>1, <2>2, <2>4, <2>5, <2>6 DEF HistoryOK
  <2> QED BY <2>3, <1>12, <1>d DEF Restart, RestOK
<1>13. CASE \E n \in -MaxHistory .. MaxHistory : OnHistory(n)
  <2>1. /\ m_history' = m_history
        /\ m_iHistoryPos' \in 0 .. Len(m_history) - 1
        /\ folder' \in Folders
        /\ stray' = (Item(m_iHistoryPos') # folder')
        /\ left' = Nowhere
    <3>1. PICK n \in -MaxHistory .. MaxHistory : OnHistory(n)
      BY <1>13
    <3>2. m_iHistoryPos' \in 0 .. Len(m_history) - 1
      BY <3>1 DEF OnHistory
    <3>3. Item(m_iHistoryPos') \in Folders
      BY <3>2 DEF Item, HistoryOK
    <3> QED BY <3>1, <3>2, <3>3 DEF OnHistory, HistoryOK
  <2>2. HistoryOK'
    BY <2>1 DEF HistoryOK, Trail, HistoryShowsFolder, BackReturns, NeighboursDiffer,
                StrayForgets, Item, Nowhere
  <2> QED BY <2>2, <1>13, <1>d DEF OnHistory, RestOK
<1> QED
  BY <1>1, <1>2, <1>3, <1>4, <1>5, <1>6, <1>7, <1>8, <1>9, <1>10, <1>11, <1>12, <1>13 DEF Next

LEMMA Always == Spec => []IInv
  BY Beginning, Step, PTL DEF Spec

\* The position is always a place of the history, which is never too long and never
\* empty, although folders disappear and both ends of it are cut.
THEOREM TypesHold == Spec => []TypeOK
<1>1. IInv => TypeOK
  BY DEF IInv, HistoryOK, RestOK, Favourites, TypeOK
<1> QED BY <1>1, Always, PTL

\* The history stands at the open folder, unless the last move through it failed.
THEOREM HistoryFollows == Spec => []HistoryShowsFolder
<1>1. IInv => HistoryShowsFolder
  BY DEF IInv, HistoryOK, Trail
<1> QED BY <1>1, Always, PTL

\* Back leads to the folder that was left.
THEOREM BackLeadsBack == Spec => []BackReturns
<1>1. IInv => BackReturns
  BY DEF IInv, HistoryOK, Trail
<1> QED BY <1>1, Always, PTL

\* No favourite is listed twice, and there are MaxSize + 1 at most.
THEOREM FavouritesStayDistinct == Spec => []FavouritesDiffer
<1>1. IInv => FavouritesDiffer
  BY DEF IInv, RestOK, Favourites, Distinct, FavouritesDiffer
<1> QED BY <1>1, Always, PTL

(***************************************************************************)
(* The two buttons: the history implements BrowserHistory.  A history h    *)
(* that stands at p is cut into what is behind and what is ahead.          *)
(***************************************************************************)
Behind(h, p) == SubSeq(h, 1, p)
Ahead(h, p)  == SubSeq(h, p + 2, Len(h))

\* A piece of a list, place by place.
LEMMA Piece ==
  ASSUME NEW h \in Seq(Folders), NEW a \in 1 .. Len(h) + 1, NEW b \in a - 1 .. Len(h)
  PROVE  /\ SubSeq(h, a, b) \in Seq(Folders)
         /\ Len(SubSeq(h, a, b)) = b - a + 1
         /\ \A i \in 1 .. b - a + 1 : SubSeq(h, a, b)[i] = h[a + i - 1]
<1>1. a \in Int /\ b \in Int /\ \A i \in a .. b : h[i] \in Folders
  OBVIOUS
<1> QED BY <1>1, SubSeqProperties

LEMMA SameList ==
  ASSUME NEW s \in Seq(Folders), NEW t \in Seq(Folders),
         Len(s) = Len(t), \A i \in 1 .. Len(s) : s[i] = t[i]
  PROVE  s = t
  BY SeqEqual

\* The two halves, place by place.
LEMMA Halves ==
  ASSUME NEW h \in Seq(Folders), NEW p \in 0 .. Len(h) - 1
  PROVE  /\ Behind(h, p) \in Seq(Folders) /\ Len(Behind(h, p)) = p
         /\ \A i \in 1 .. p : Behind(h, p)[i] = h[i]
         /\ Ahead(h, p) \in Seq(Folders) /\ Len(Ahead(h, p)) = Len(h) - p - 1
         /\ \A i \in 1 .. Len(h) - p - 1 : Ahead(h, p)[i] = h[p + 1 + i]
         /\ h[p + 1] \in Folders
<1>1. /\ Behind(h, p) \in Seq(Folders) /\ Len(Behind(h, p)) = p - 1 + 1
      /\ \A i \in 1 .. p - 1 + 1 : Behind(h, p)[i] = h[1 + i - 1]
  BY Piece DEF Behind
<1>2. /\ Ahead(h, p) \in Seq(Folders) /\ Len(Ahead(h, p)) = Len(h) - (p + 2) + 1
      /\ \A i \in 1 .. Len(h) - (p + 2) + 1 : Ahead(h, p)[i] = h[p + 2 + i - 1]
  BY Piece DEF Ahead
<1>3. h[p + 1] \in Folders
  OBVIOUS
<1> QED BY <1>1, <1>2, <1>3

\* Around a place: what leads to it, the place, and what follows.
LEMMA Around ==
  ASSUME NEW s \in Seq(Folders), NEW x \in Folders, NEW t \in Seq(Folders)
  PROVE  /\ s \o <<x>> \o t \in Seq(Folders)
         /\ Len(s \o <<x>> \o t) = Len(s) + 1 + Len(t)
         /\ \A i \in 1 .. Len(s) + 1 + Len(t) :
              (s \o <<x>> \o t)[i] = IF i <= Len(s) THEN s[i]
                                     ELSE IF i = Len(s) + 1 THEN x
                                     ELSE t[i - Len(s) - 1]
<1> DEFINE u == s \o <<x>>
<1>1. /\ <<x>> \in Seq(Folders) /\ Len(<<x>>) = 1 /\ <<x>>[1] = x
  OBVIOUS
<1>2. /\ u \in Seq(Folders) /\ Len(u) = Len(s) + Len(<<x>>)
      /\ \A i \in 1 .. Len(s) + Len(<<x>>) :
           u[i] = IF i <= Len(s) THEN s[i] ELSE <<x>>[i - Len(s)]
  BY <1>1, ConcatProperties
<1> HIDE DEF u
<1>3. /\ u \o t \in Seq(Folders) /\ Len(u \o t) = Len(u) + Len(t)
      /\ \A i \in 1 .. Len(u) + Len(t) :
           (u \o t)[i] = IF i <= Len(u) THEN u[i] ELSE t[i - Len(u)]
  BY <1>2, ConcatProperties
<1>4. Len(s) \in Nat /\ Len(t) \in Nat /\ Len(u) = Len(s) + 1
  BY <1>1, <1>2
<1>5. ASSUME NEW i \in 1 .. Len(s) + 1 + Len(t)
      PROVE  (u \o t)[i] = IF i <= Len(s) THEN s[i]
                           ELSE IF i = Len(s) + 1 THEN x
                           ELSE t[i - Len(s) - 1]
  <2>1. CASE i <= Len(s)
    BY <2>1, <1>1, <1>2, <1>3, <1>4
  <2>2. CASE i = Len(s) + 1
    <3>1. u[i] = <<x>>[i - Len(s)] /\ i - Len(s) = 1
      BY <2>2, <1>1, <1>2, <1>4
    <3>2. (u \o t)[i] = u[i]
      BY <2>2, <1>3, <1>4
    <3> QED BY <2>2, <3>1, <3>2, <1>1, <1>4
  <2>3. CASE i > Len(s) + 1
    <3>1. i - Len(u) = i - Len(s) - 1
      BY <1>4
    <3> QED BY <2>3, <3>1, <1>3, <1>4
  <2> QED BY <2>1, <2>2, <2>3, <1>4
<1>6. u \o t \in Seq(Folders) /\ Len(u \o t) = Len(s) + 1 + Len(t)
  BY <1>3, <1>4
<1> QED BY <1>5, <1>6 DEF u

\* A move back by n is GoBack(n).
LEMMA MovedBack ==
  ASSUME NEW h \in Seq(Folders), NEW p \in 0 .. Len(h) - 1, NEW n \in 1 .. p
  PROVE  LET back == Behind(h, p)
         IN  /\ h[p - n + 1] = back[Len(back) - n + 1]
             /\ Behind(h, p - n) = SubSeq(back, 1, Len(back) - n)
             /\ Ahead(h, p - n) =
                  SubSeq(back, Len(back) - n + 2, Len(back)) \o <<h[p + 1]>> \o Ahead(h, p)
<1> DEFINE back == Behind(h, p)
           ahead == Ahead(h, p)
           skipped == SubSeq(back, p - n + 2, p)
           first == SubSeq(back, 1, p - n)
           new == Ahead(h, p - n)
           kept == Behind(h, p - n)
<1>0. p \in Nat /\ n \in Nat /\ p - n \in 0 .. Len(h) - 1 /\ Len(h) \in Nat
  OBVIOUS
<1>1. /\ back \in Seq(Folders) /\ Len(back) = p
      /\ \A i \in 1 .. p : back[i] = h[i]
      /\ ahead \in Seq(Folders) /\ Len(ahead) = Len(h) - p - 1
      /\ \A i \in 1 .. Len(h) - p - 1 : ahead[i] = h[p + 1 + i]
      /\ h[p + 1] \in Folders
  BY Halves
<1>2. /\ kept \in Seq(Folders) /\ Len(kept) = p - n
      /\ \A i \in 1 .. p - n : kept[i] = h[i]
      /\ new \in Seq(Folders) /\ Len(new) = Len(h) - (p - n) - 1
      /\ \A i \in 1 .. Len(h) - (p - n) - 1 : new[i] = h[p - n + 1 + i]
  BY <1>0, Halves
<1> HIDE DEF back, ahead, kept, new
<1>3. /\ skipped \in Seq(Folders) /\ Len(skipped) = n - 1
      /\ \A i \in 1 .. n - 1 : skipped[i] = h[p - n + 1 + i]
  <2>1. p - n + 2 \in 1 .. Len(back) + 1 /\ p \in (p - n + 2) - 1 .. Len(back)
    BY <1>0, <1>1
  <2>2. /\ skipped \in Seq(Folders) /\ Len(skipped) = p - (p - n + 2) + 1
        /\ \A i \in 1 .. p - (p - n + 2) + 1 : skipped[i] = back[p - n + 2 + i - 1]
    BY <2>1, <1>1, Piece
  <2> HIDE DEF skipped
  <2> QED BY <2>2, <1>0, <1>1
<1>4. /\ first \in Seq(Folders) /\ Len(first) = p - n
      /\ \A i \in 1 .. p - n : first[i] = h[i]
  <2>1. 1 \in 1 .. Len(back) + 1 /\ p - n \in 1 - 1 .. Len(back)
    BY <1>0, <1>1
  <2>2. /\ first \in Seq(Folders) /\ Len(first) = p - n - 1 + 1
        /\ \A i \in 1 .. p - n - 1 + 1 : first[i] = back[1 + i - 1]
    BY <2>1, <1>1, Piece
  <2> HIDE DEF first
  <2> QED BY <2>2, <1>0, <1>1
<1> HIDE DEF skipped, first
<1>5. kept = first
  <2>1. \A i \in 1 .. Len(kept) : kept[i] = first[i]
    BY <1>2, <1>4
  <2> QED BY <2>1, <1>2, <1>4, SameList
<1>6. new = skipped \o <<h[p + 1]>> \o ahead
  <2> DEFINE joined == skipped \o <<h[p + 1]>> \o ahead
  <2>1. /\ joined \in Seq(Folders) /\ Len(joined) = Len(skipped) + 1 + Len(ahead)
        /\ \A i \in 1 .. Len(skipped) + 1 + Len(ahead) :
             joined[i] = IF i <= Len(skipped) THEN skipped[i]
                         ELSE IF i = Len(skipped) + 1 THEN h[p + 1]
                         ELSE ahead[i - Len(skipped) - 1]
    <3>1. skipped \in Seq(Folders) /\ back \in Seq(Folders) /\ ahead \in Seq(Folders)
          /\ h[p + 1] \in Folders
      BY <1>1, <1>3
    <3> QED BY ONLY <3>1, Around DEF joined
  <2> HIDE DEF joined
  <2>2. Len(skipped) + 1 + Len(ahead) = Len(new) /\ Len(new) = Len(h) - (p - n) - 1
    BY <1>0, <1>1, <1>2, <1>3
  <2>3. ASSUME NEW i \in 1 .. Len(new)
        PROVE  joined[i] = new[i]
    <3>1. i \in Nat /\ new[i] = h[p - n + 1 + i]
      BY <1>2, <1>0
    <3>2. CASE i <= n - 1
      <4>1. joined[i] = skipped[i]
        BY <3>1, <3>2, <2>1, <2>2, <1>0, <1>3
      <4>2. i \in 1 .. n - 1 /\ p - n + 1 + i = p - n + 1 + i
        BY <3>2, <1>0
      <4> QED BY <4>1, <4>2, <3>1, <1>3
    <3>3. CASE i = n
      <4>1. joined[i] = h[p + 1]
        BY <3>3, <2>1, <2>2, <1>0, <1>3
      <4>2. p - n + 1 + i = p + 1
        BY <3>3, <1>0
      <4> QED BY <4>1, <4>2, <3>1
    <3>4. CASE i > n
      <4>1. joined[i] = ahead[i - n]
        <5>1. i - Len(skipped) - 1 = i - n
          BY <3>1, <1>0, <1>3
        <5> QED BY <3>4, <5>1, <2>1, <2>2, <1>0, <1>3
      <4>2. i - n \in 1 .. Len(h) - p - 1 /\ p + 1 + (i - n) = p - n + 1 + i
        BY <3>4, <3>1, <1>0, <2>2
      <4> QED BY <4>1, <4>2, <3>1, <1>1
    <3> QED BY <3>1, <3>2, <3>3, <3>4, <1>0
  <2>4. new = joined
    BY <2>1, <2>2, <2>3, <1>2, SameList
  <2> QED BY <2>4 DEF joined
<1>7. h[p - n + 1] = back[Len(back) - n + 1]
  BY <1>0, <1>1
<1> QED BY <1>1, <1>5, <1>6, <1>7 DEF back, ahead, skipped, first, new, kept

\* A move forward by n is GoForward(n).
LEMMA MovedForward ==
  ASSUME NEW h \in Seq(Folders), NEW p \in 0 .. Len(h) - 1, NEW n \in 1 .. Len(h) - p - 1
  PROVE  LET ahead == Ahead(h, p)
         IN  /\ h[p + n + 1] = ahead[n]
             /\ Behind(h, p + n) = Behind(h, p) \o <<h[p + 1]>> \o SubSeq(ahead, 1, n - 1)
             /\ Ahead(h, p + n) = SubSeq(ahead, n + 1, Len(ahead))
<1> DEFINE back == Behind(h, p)
           ahead == Ahead(h, p)
           skipped == SubSeq(ahead, 1, n - 1)
           last == SubSeq(ahead, n + 1, Len(ahead))
           new == Behind(h, p + n)
           kept == Ahead(h, p + n)
<1>0. p \in Nat /\ n \in Nat /\ p + n \in 0 .. Len(h) - 1 /\ Len(h) \in Nat /\ n >= 1
  OBVIOUS
<1>1. /\ back \in Seq(Folders) /\ Len(back) = p
      /\ \A i \in 1 .. p : back[i] = h[i]
      /\ ahead \in Seq(Folders) /\ Len(ahead) = Len(h) - p - 1
      /\ \A i \in 1 .. Len(h) - p - 1 : ahead[i] = h[p + 1 + i]
      /\ h[p + 1] \in Folders
  BY Halves
<1>2. /\ new \in Seq(Folders) /\ Len(new) = p + n
      /\ \A i \in 1 .. p + n : new[i] = h[i]
      /\ kept \in Seq(Folders) /\ Len(kept) = Len(h) - (p + n) - 1
      /\ \A i \in 1 .. Len(h) - (p + n) - 1 : kept[i] = h[p + n + 1 + i]
  BY <1>0, Halves
<1> HIDE DEF back, ahead, kept, new
<1>3. /\ skipped \in Seq(Folders) /\ Len(skipped) = n - 1
      /\ \A i \in 1 .. n - 1 : skipped[i] = h[p + 1 + i]
  <2>1. 1 \in 1 .. Len(ahead) + 1 /\ n - 1 \in 1 - 1 .. Len(ahead)
    BY <1>0, <1>1
  <2>2. /\ skipped \in Seq(Folders) /\ Len(skipped) = n - 1 - 1 + 1
        /\ \A i \in 1 .. n - 1 - 1 + 1 : skipped[i] = ahead[1 + i - 1]
    BY <2>1, <1>1, Piece
  <2> HIDE DEF skipped
  <2> QED BY <2>2, <1>0, <1>1
<1>4. /\ last \in Seq(Folders) /\ Len(last) = Len(h) - p - 1 - n
      /\ \A i \in 1 .. Len(h) - p - 1 - n : last[i] = h[p + n + 1 + i]
  <2>1. n + 1 \in 1 .. Len(ahead) + 1 /\ Len(ahead) \in n + 1 - 1 .. Len(ahead)
    BY <1>0, <1>1
  <2>2. /\ last \in Seq(Folders) /\ Len(last) = Len(ahead) - (n + 1) + 1
        /\ \A i \in 1 .. Len(ahead) - (n + 1) + 1 : last[i] = ahead[n + 1 + i - 1]
    <3> DEFINE a == n + 1
               b == Len(ahead)
    <3>1. ahead \in Seq(Folders) /\ a \in 1 .. Len(ahead) + 1 /\ b \in a - 1 .. Len(ahead)
      BY <2>1, <1>1
    <3>2. last = SubSeq(ahead, a, b)
      BY DEF last
    <3> HIDE DEF a, b, last
    <3>3. /\ last \in Seq(Folders) /\ Len(last) = b - a + 1
          /\ \A i \in 1 .. b - a + 1 : last[i] = ahead[a + i - 1]
      BY <3>1, <3>2, Piece
    <3> QED BY <3>3 DEF a, b
  <2> HIDE DEF last
  <2> QED BY <2>2, <1>0, <1>1
<1> HIDE DEF skipped, last
<1>5. kept = last
  <2>1. Len(kept) = Len(last) /\ \A i \in 1 .. Len(kept) : kept[i] = last[i]
    BY <1>0, <1>2, <1>4
  <2> QED BY <2>1, <1>2, <1>4, SameList
<1>6. new = back \o <<h[p + 1]>> \o skipped
  <2> DEFINE joined == back \o <<h[p + 1]>> \o skipped
  <2>1. /\ joined \in Seq(Folders) /\ Len(joined) = Len(back) + 1 + Len(skipped)
        /\ \A i \in 1 .. Len(back) + 1 + Len(skipped) :
             joined[i] = IF i <= Len(back) THEN back[i]
                         ELSE IF i = Len(back) + 1 THEN h[p + 1]
                         ELSE skipped[i - Len(back) - 1]
    <3>1. skipped \in Seq(Folders) /\ back \in Seq(Folders) /\ ahead \in Seq(Folders)
          /\ h[p + 1] \in Folders
      BY <1>1, <1>3
    <3> QED BY ONLY <3>1, Around DEF joined
  <2> HIDE DEF joined
  <2>2. Len(back) + 1 + Len(skipped) = Len(new) /\ Len(new) = p + n
    BY <1>0, <1>1, <1>2, <1>3
  <2>3. ASSUME NEW i \in 1 .. Len(new)
        PROVE  joined[i] = new[i]
    <3>1. i \in Nat /\ i >= 1 /\ new[i] = h[i]
      BY <1>2, <1>0
    <3>2. CASE i <= p
      BY <3>1, <3>2, <2>1, <2>2, <1>0, <1>1
    <3>3. CASE i = p + 1
      BY <3>1, <3>3, <2>1, <2>2, <1>0, <1>1
    <3>4. CASE i > p + 1
      <4>1. joined[i] = skipped[i - p - 1]
        <5>1. i - Len(back) - 1 = i - p - 1
          BY <3>1, <1>0, <1>1
        <5> QED BY <3>4, <5>1, <2>1, <2>2, <1>0, <1>1
      <4>2. i - p - 1 \in 1 .. n - 1 /\ p + 1 + (i - p - 1) = i
        BY <3>4, <3>1, <1>0, <2>2
      <4> QED BY <4>1, <4>2, <3>1, <1>3
    <3> QED BY <3>1, <3>2, <3>3, <3>4, <1>0
  <2>4. new = joined
    BY <2>1, <2>2, <2>3, <1>2, SameList
  <2> QED BY <2>4 DEF joined
<1>7. h[p + n + 1] = ahead[n]
  <2>1. ahead[n] = h[p + 1 + n]
    BY <1>0, <1>1
  <2> QED BY <2>1, <1>0
<1> QED BY <1>1, <1>5, <1>6, <1>7 DEF back, ahead, skipped, last, new, kept

(***************************************************************************)
(* The steps, seen through the two buttons.                                *)
(***************************************************************************)
\* Nothing the buttons show changes.
Still == m_history' = m_history /\ m_iHistoryPos' = m_iHistoryPos

LEMMA StillStutters ==
  ASSUME Still
  PROVE  UNCHANGED Buttons!placeVars
  BY DEF Still, Buttons!placeVars, Item

\* Adding a folder that is not the one the history stands at is a visit.
LEMMA AddingVisits ==
  ASSUME HistoryOK, NEW f \in Folders, HistoryAdd(f), Item(m_iHistoryPos) # f
  PROVE  Buttons!Visit(f)
<1> DEFINE longer == Append(SubSeq(m_history, 1, m_iHistoryPos + 1), f)
           gone == IF Len(longer) > MaxHistory THEN 1 ELSE 0
           p == m_iHistoryPos
           here == Item(m_iHistoryPos)
           old == Append(Behind(m_history, p), here)
           newest == Buttons!Newest(old, MaxHistory - 1)
<1>1. /\ m_history' = IF Len(longer) > MaxHistory THEN Tail(longer) ELSE longer
      /\ m_iHistoryPos' = Len(m_history') - 1
  BY DEF HistoryAdd
<1>2. /\ Len(longer) = p + 2
      /\ m_history' \in Seq(Folders)
      /\ Len(m_history') = p + 2 - gone
      /\ \A i \in 1 .. Len(m_history') - 1 : m_history'[i] = m_history[i + gone]
      /\ m_history'[Len(m_history')] = f
  BY <1>1, LongerFacts
<1>3. /\ gone = (IF p + 2 > MaxHistory THEN 1 ELSE 0)
      /\ gone \in {0, 1}
  BY <1>2
<1>4. /\ m_history \in Seq(Folders) /\ p \in 0 .. Len(m_history) - 1
      /\ p \in Nat /\ p + 1 <= MaxHistory /\ MaxHistory \in Nat
  BY DEF HistoryOK
<1>5. /\ old \in Seq(Folders) /\ Len(old) = p + 1
      /\ \A i \in 1 .. p + 1 : old[i] = m_history[i]
  <2> DEFINE back == Behind(m_history, p)
  <2>1. /\ back \in Seq(Folders) /\ Len(back) = p
        /\ \A i \in 1 .. p : back[i] = m_history[i]
        /\ here \in Folders /\ here = m_history[p + 1]
    BY <1>4, Halves DEF Item
  <2> HIDE DEF back, here, p
  <2>2. /\ Append(back, here) \in Seq(Folders)
        /\ Len(Append(back, here)) = Len(back) + 1
        /\ \A i \in 1 .. Len(back) : Append(back, here)[i] = back[i]
        /\ Append(back, here)[Len(back) + 1] = here
    BY <2>1, AppendProperties
  <2>3. /\ Append(back, here) \in Seq(Folders)
        /\ Len(Append(back, here)) = p + 1
        /\ \A i \in 1 .. p + 1 : Append(back, here)[i] = m_history[i]
    BY <2>1, <2>2, <1>4
  <2> QED BY <2>3 DEF back
<1> HIDE DEF longer, gone, old, p, here
<1>6. /\ newest \in Seq(Folders) /\ Len(newest) = p + 1 - gone
      /\ \A i \in 1 .. p + 1 - gone : newest[i] = m_history[i + gone]
  <2>1. CASE p + 2 > MaxHistory
    <3>1. gone = 1 /\ MaxHistory - 1 = p
      BY <2>1, <1>3, <1>4
    <3>2. Len(old) > MaxHistory - 1 /\ Len(old) - (MaxHistory - 1) + 1 = 2
      BY <3>1, <1>4, <1>5
    <3>3. newest = SubSeq(old, 2, Len(old))
      BY <3>2 DEF Buttons!Newest
    <3> HIDE DEF newest
    <3>4. 2 \in 1 .. Len(old) + 1 /\ Len(old) \in 2 - 1 .. Len(old)
      BY <1>4, <1>5
    <3>5. /\ newest \in Seq(Folders) /\ Len(newest) = Len(old) - 2 + 1
          /\ \A i \in 1 .. Len(old) - 2 + 1 : newest[i] = old[2 + i - 1]
      BY <3>3, <3>4, <1>5, Piece
    <3> QED BY <3>1, <3>5, <1>4, <1>5
  <2>2. CASE ~(p + 2 > MaxHistory)
    <3>1. gone = 0 /\ ~(Len(old) > MaxHistory - 1)
      BY <2>2, <1>3, <1>4, <1>5
    <3>2. newest = old
      BY <3>1 DEF Buttons!Newest
    <3> HIDE DEF newest
    <3> QED BY <3>1, <3>2, <1>4, <1>5
  <2> QED BY <2>1, <2>2
<1>7. /\ m_iHistoryPos' = p + 1 - gone
      /\ m_iHistoryPos' \in 0 .. Len(m_history') - 1
      /\ m_iHistoryPos' + 1 = Len(m_history')
  BY <1>1, <1>2, <1>3, <1>4
<1>8. Behind(m_history', m_iHistoryPos') = newest
  <2> DEFINE back == Behind(m_history', m_iHistoryPos')
  <2>1. /\ back \in Seq(Folders) /\ Len(back) = m_iHistoryPos'
        /\ \A i \in 1 .. m_iHistoryPos' : back[i] = m_history'[i]
    BY <1>2, <1>7, Halves
  <2> HIDE DEF newest, back
  <2>2. /\ Len(back) = Len(newest)
        /\ \A i \in 1 .. Len(back) : back[i] = newest[i]
    BY <2>1, <1>2, <1>3, <1>4, <1>6, <1>7
  <2>3. back = newest
    BY <2>1, <2>2, <1>6, SameList
  <2> QED BY <2>3 DEF back
<1>9. Ahead(m_history', m_iHistoryPos') = <<>>
  <2>1. m_iHistoryPos' + 2 \in Int /\ Len(m_history') \in Int /\ Len(m_history') < m_iHistoryPos' + 2
    BY <1>2, <1>7
  <2> QED BY <2>1, SubSeqEmpty DEF Ahead
<1>10. m_history'[m_iHistoryPos' + 1] = f
  BY <1>2, <1>7
<1> QED
  BY <1>8, <1>9, <1>10 DEF Buttons!Visit, Behind, Ahead, old, here, p, Item

\* Opening a folder, by whatever command, is a visit or nothing.
LEMMA OpeningVisits ==
  ASSUME HistoryOK, NEW f \in Folders, Open(f)
  PROVE  Buttons!Step \/ UNCHANGED Buttons!placeVars
<1>1. CASE f \notin present \/ Item(m_iHistoryPos) = f
  <2>1. Still
    BY <1>1 DEF Open, HistoryAdd, Still
  <2> QED BY <2>1, StillStutters
<1>2. CASE f \in present /\ Item(m_iHistoryPos) # f
  <2>1. HistoryAdd(f)
    BY <1>2 DEF Open
  <2>2. Buttons!Visit(f)
    BY <1>2, <2>1, AddingVisits
  <2> QED BY <2>2 DEF Buttons!Step
<1> QED BY <1>1, <1>2

\* The Back and Forward commands move the position, and only that.
LEMMA MovesMove ==
  ASSUME HistoryOK, NEW n \in Int, OnHistory(n)
  PROVE  Buttons!Step \/ UNCHANGED Buttons!placeVars
<1> DEFINE h == m_history
           p == m_iHistoryPos
<1>1. /\ h \in Seq(Folders) /\ p \in 0 .. Len(h) - 1 /\ p \in Nat /\ Len(h) \in Nat
  BY DEF HistoryOK
<1>2. /\ h' = h /\ p' = p + n /\ p + n \in 0 .. Len(h) - 1
  BY DEF OnHistory
<1>3. Len(Behind(h, p)) = p /\ Len(Ahead(h, p)) = Len(h) - p - 1
  BY <1>1, Halves
<1>4. CASE n = 0
  <2>1. Still
    BY <1>1, <1>2, <1>4 DEF Still
  <2> QED BY <2>1, StillStutters
<1>5. CASE n < 0
  <2> DEFINE k == -n
  <2>1. k \in 1 .. p /\ p - k = p + n /\ k \in 1 .. Len(Behind(h, p))
    BY <1>1, <1>2, <1>3, <1>5
  <2> HIDE DEF k
  <2>2. /\ h[p - k + 1] = Behind(h, p)[Len(Behind(h, p)) - k + 1]
        /\ Behind(h, p - k) = SubSeq(Behind(h, p), 1, Len(Behind(h, p)) - k)
        /\ Ahead(h, p - k) =
             SubSeq(Behind(h, p), Len(Behind(h, p)) - k + 2, Len(Behind(h, p)))
               \o <<h[p + 1]>> \o Ahead(h, p)
    BY <1>1, <2>1, MovedBack
  <2>3. Buttons!GoBack(k)
    BY <2>1, <2>2, <1>2 DEF Buttons!GoBack, Behind, Ahead, Item
  <2> QED BY <2>1, <2>3 DEF Buttons!Step, Behind
<1>6. CASE n > 0
  <2>1. n \in 1 .. Len(h) - p - 1 /\ n \in 1 .. Len(Ahead(h, p))
    BY <1>1, <1>2, <1>3, <1>6
  <2>2. /\ h[p + n + 1] = Ahead(h, p)[n]
        /\ Behind(h, p + n) = Behind(h, p) \o <<h[p + 1]>> \o SubSeq(Ahead(h, p), 1, n - 1)
        /\ Ahead(h, p + n) = SubSeq(Ahead(h, p), n + 1, Len(Ahead(h, p)))
    BY <1>1, <2>1, MovedForward
  <2>3. Buttons!GoForward(n)
    BY <2>1, <2>2, <1>2 DEF Buttons!GoForward, Behind, Ahead, Item
  <2> QED BY <2>1, <2>3 DEF Buttons!Step, Ahead
<1> QED BY <1>4, <1>5, <1>6

\* A history of one folder has nothing behind and nothing ahead.
LEMMA Alone ==
  ASSUME NEW f \in Folders
  PROVE  SubSeq(<<f>>, 1, 0) = <<>> /\ SubSeq(<<f>>, 0 + 2, Len(<<f>>)) = <<>>
<1>1. Len(<<f>>) = 1
  OBVIOUS
<1> QED BY <1>1, SubSeqEmpty

LEMMA Starts == Init => Buttons!Start
<1> SUFFICES ASSUME Init PROVE Buttons!Start
  OBVIOUS
<1>1. folder \in Folders /\ m_history = <<folder>> /\ m_iHistoryPos = 0
  BY DEF Init
<1>2. m_history[m_iHistoryPos + 1] = folder
  BY <1>1
<1> QED BY <1>1, <1>2, Alone DEF Buttons!Start, Item

\* Every command is a visit, a move, a restart or nothing.
LEMMA StepsBrowse == IInv /\ [Next]_vars => [Buttons!Step]_(Buttons!placeVars)
<1> SUFFICES ASSUME HistoryOK, RestOK, [Next]_vars
             PROVE  Buttons!Step \/ UNCHANGED Buttons!placeVars
  BY DEF IInv
<1>i. \A n \in 1 .. Len(_items) : _items[n] \in Folders
  BY DEF RestOK, Favourites
<1>1. CASE UNCHANGED vars
  BY <1>1, StillStutters DEF vars, Still
<1>2. CASE \E f \in Folders : OpenFolder(f) \/ GoToNewLocation(f)
  BY <1>2, OpeningVisits DEF OpenFolder, GoToNewLocation
<1>3. CASE OpenParent \/ RefreshList
  BY <1>3, OpeningVisits DEF OpenParent, RefreshList, HistoryOK
<1>4. CASE \E n \in 1 .. Len(_items) : OnGoTo(n)
  BY <1>4, <1>i, OpeningVisits DEF OnGoTo
<1>5. CASE (\E f \in Folders : CopyToNewLocation(f) \/ DiskChanges(f))
             \/ (\E n \in 1 .. Len(_items) : OnCopyTo(n)) \/ GoToAddCurrent \/ MoveToClear
  <2>1. Still
    BY <1>5 DEF CopyToNewLocation, DiskChanges, OnCopyTo, GoToAddCurrent, MoveToClear, NoMove, Still
  <2> QED BY <2>1, StillStutters
<1>6. CASE Restart
  <2>1. folder' \in Folders /\ m_history' = <<folder'>> /\ m_iHistoryPos' = 0
    BY <1>6 DEF Restart, HistoryOK, RestOK
  <2>2. m_history'[m_iHistoryPos' + 1] = folder'
    BY <2>1
  <2>3. Buttons!Restart
    BY <2>1, <2>2, Alone DEF Buttons!Restart, Item
  <2> QED BY <2>3 DEF Buttons!Step
<1>7. CASE \E n \in -MaxHistory .. MaxHistory : OnHistory(n)
  BY <1>7, MovesMove
<1> QED BY <1>1, <1>2, <1>3, <1>4, <1>5, <1>6, <1>7 DEF Next

\* The list with a position keeps what the two buttons promise, for every limit and
\* every tree: no visit forgets a folder it should keep, no move loses its place.
THEOREM HistoryIsTwoStacks == Spec => ImplementsBrowserHistory
  BY Starts, StepsBrowse, Always, PTL DEF Spec, ImplementsBrowserHistory, Buttons!Browsing
=============================================================================
