-------------------------- MODULE DecodeThumbsProof --------------------------
(***************************************************************************)
(* Proofs about DecodeThumbs, for all files, folders, searches and bounds. *)
(***************************************************************************)
EXTENDS DecodeThumbs, SequenceTheorems, FiniteSetTheorems, TLAPS

USE ThumbsAssumption

(***************************************************************************)
(* The invariant.                                                          *)
(***************************************************************************)
\* What the UI thread may have left to do.
Plans ==
  { <<>>, <<"stop">>,
    <<"leave", "delete", "mode", "searching", "start">>, <<"delete", "mode", "searching", "start">>,
    <<"mode", "searching", "start">>, <<"searching", "start">>, <<"start">>,
    <<"leave", "set", "reset">>, <<"set", "reset">>, <<"reset">>,
    <<"abort", "leave", "undue", "refresh", "reset">>, <<"leave", "undue", "refresh", "reset">>,
    <<"undue", "refresh", "reset">>, <<"refresh", "reset">>,
    <<"leave", "abort", "leave", "undue", "refresh", "strip", "reset">>,
    <<"abort", "leave", "undue", "refresh", "strip", "reset">>,
    <<"leave", "undue", "refresh", "strip", "reset">>,
    <<"undue", "refresh", "strip", "reset">>, <<"refresh", "strip", "reset">>, <<"strip", "reset">> }

FlagTypes ==
  /\ searched \in BOOLEAN
  /\ IsSearchMode \in BOOLEAN /\ IsSearching \in BOOLEAN /\ IsThumbnailing \in BOOLEAN
  /\ refreshDue \in BOOLEAN /\ _searchSpec \in Specs \cup {NoSpec}
  /\ _bAbort \in BOOLEAN /\ _bPause \in BOOLEAN /\ _bExit \in BOOLEAN /\ _eventExit \in BOOLEAN
  /\ _eventFolderChange \in BOOLEAN /\ _eventWatch \in BOOLEAN
  /\ isCurrent \in BOOLEAN /\ changed \in BOOLEAN
  /\ watched \in Dirs \cup {NoDir}
  /\ ops \in 0 .. MaxOps
  /\ ui \in Plans

ThreadTypes ==
  /\ pc \in {"top", "clear", "choose", "enum", "match", "insert", "next", "load",
             "jobend", "wait", "done"}
  /\ todo \in SUBSET Files /\ missed \in SUBSET Files
  /\ IF pc \in {"match", "insert"}
       THEN found \in [file : Files, time : Versions]
       ELSE found = NotFound
  /\ IF pc \in {"load", "jobend"}
       THEN job \in [file : Files, n : Nat, live : BOOLEAN]
       ELSE job = NoJob

\* A folder holds finitely many thumbnails.
ThumbSets == {thumbs \in SUBSET Thumbs : IsFiniteSet(thumbs)}

DataTypes ==
  /\ disk \in [Files -> Versions]
  /\ folder \in [dir : Dirs, thumbs : ThumbSets]
  /\ old \in ThumbSets

\* Closing: the event is set before the flag.
ExitOK == _bExit \/ pc = "done" \/ ui = <<"stop">> => _eventExit

\* Only a folder that was searched in is in search mode, or is being filled with results.
SearchOK ==
  /\ IsSearchMode => searched
  /\ ui # <<>> /\ Head(ui) = "mode" => searched
  /\ ui # <<>> /\ Head(ui) = "set" => ~IsSearchMode
  /\ isCurrent /\ pc \in {"enum", "match", "insert"} => searched

InHand(t) == pc \in {"load", "jobend"} /\ job.live /\ t.file = job.file /\ t.n = job.n

\* A thumbnail marked as loading is the one the thread has in hand, so the mark is
\* always taken away again.
LoadingOK ==
  /\ \A t \in folder.thumbs : t.loading => isCurrent /\ InHand(t)
  /\ \A t \in old : t.loading => ~isCurrent /\ InHand(t)

\* Nobody has asked the thread for anything since it last woke up.
Quiet == ui = <<>> /\ ~_eventFolderChange /\ ~_eventExit

Wanted == (Tree[folder.dir] \cap Matching[_searchSpec]) \ missed
Has(f) == \E t \in folder.thumbs : t.file = f

\* Then its round is about the folder and the search of now, and nothing stops it: what
\* it has still to do is in todo, in its hand or among the thumbnails not loaded; what
\* it has left out, because the shell failed, is in missed.
Round ==
  /\ pc # "top" => isCurrent
  /\ pc \notin {"top", "clear"} => ~_bAbort
  /\ pc \in {"enum", "match", "insert"} =>
       /\ IsSearchMode
       /\ \A f \in Wanted : f \in todo \/ Has(f) \/ (pc # "enum" /\ f = found.file)
  /\ pc \in {"next", "load", "jobend"} => ~IsSearchMode
  /\ pc = "wait" =>
       IF IsSearchMode THEN \A f \in Wanted : Has(f) ELSE \A t \in folder.thumbs : t.loaded

RoundOK == Quiet => Round

\* One thumbnail of a file.
Single(f, thumbs) == \E t \in Thumbs : OfFile(f, thumbs) = {t}

FilesOK ==
  ~searched => /\ \A t \in folder.thumbs : t.file \in Listing[folder.dir]
               /\ \A f \in Listing[folder.dir] : Single(f, folder.thumbs)

IInv ==
  /\ FlagTypes /\ ThreadTypes /\ DataTypes
  /\ ExitOK /\ SearchOK /\ LoadingOK /\ RoundOK /\ FilesOK

(***************************************************************************)
(* What the UI thread has left to do.                                      *)
(***************************************************************************)
\* A step of a plan leaves a plan.  Search mode is left before a folder is opened, the
\* thumbnails are deleted before search mode is set, and the last step of a plan
\* wakes the thread or closes it.
LEMMA PlanStep ==
  ASSUME ui \in Plans, NEW step, Do(step)
  PROVE  /\ ui # <<>> /\ ui' \in Plans /\ ui' # <<"stop">>
         /\ step = "stop" => ui = <<"stop">>
         /\ ui' # <<>> /\ Head(ui') = "set" => step = "leave"
         /\ ui' # <<>> /\ Head(ui') = "mode" => step = "delete"
         /\ ui' = <<>> => step \in {"start", "reset", "stop"}
         /\ step = "mode" => ui # <<>> /\ Head(ui) = "mode"
<1>1. CASE ui = <<>>
  BY <1>1 DEF Plans, Do
<1>2. CASE ui = <<"stop">>
  BY <1>2 DEF Plans, Do
<1>3. CASE ui = <<"leave", "delete", "mode", "searching", "start">>
  BY <1>3 DEF Plans, Do
<1>4. CASE ui = <<"delete", "mode", "searching", "start">>
  BY <1>4 DEF Plans, Do
<1>5. CASE ui = <<"mode", "searching", "start">>
  BY <1>5 DEF Plans, Do
<1>6. CASE ui = <<"searching", "start">>
  BY <1>6 DEF Plans, Do
<1>7. CASE ui = <<"start">>
  BY <1>7 DEF Plans, Do
<1>8. CASE ui = <<"leave", "set", "reset">>
  BY <1>8 DEF Plans, Do
<1>9. CASE ui = <<"set", "reset">>
  BY <1>9 DEF Plans, Do
<1>10. CASE ui = <<"reset">>
  BY <1>10 DEF Plans, Do
<1>11. CASE ui = <<"abort", "leave", "undue", "refresh", "reset">>
  BY <1>11 DEF Plans, Do
<1>12. CASE ui = <<"leave", "undue", "refresh", "reset">>
  BY <1>12 DEF Plans, Do
<1>13. CASE ui = <<"undue", "refresh", "reset">>
  BY <1>13 DEF Plans, Do
<1>14. CASE ui = <<"refresh", "reset">>
  BY <1>14 DEF Plans, Do
<1>15. CASE ui = <<"leave", "abort", "leave", "undue", "refresh", "strip", "reset">>
  BY <1>15 DEF Plans, Do
<1>16. CASE ui = <<"abort", "leave", "undue", "refresh", "strip", "reset">>
  BY <1>16 DEF Plans, Do
<1>17. CASE ui = <<"leave", "undue", "refresh", "strip", "reset">>
  BY <1>17 DEF Plans, Do
<1>18. CASE ui = <<"undue", "refresh", "strip", "reset">>
  BY <1>18 DEF Plans, Do
<1>19. CASE ui = <<"refresh", "strip", "reset">>
  BY <1>19 DEF Plans, Do
<1>20. CASE ui = <<"strip", "reset">>
  BY <1>20 DEF Plans, Do
<1> QED
  BY <1>1, <1>2, <1>3, <1>4, <1>5, <1>6, <1>7, <1>8, <1>9, <1>10, <1>11,
     <1>12, <1>13, <1>14, <1>15, <1>16, <1>17, <1>18, <1>19, <1>20 DEF Plans

LEMMA PlanBegun ==
  /\ <<>> \in Plans /\ <<"stop">> \in Plans
  /\ <<"leave", "delete", "mode", "searching", "start">> \in Plans
  /\ <<"leave", "set", "reset">> \in Plans
  /\ <<"abort", "leave", "undue", "refresh", "reset">> \in Plans
  /\ <<"leave", "abort", "leave", "undue", "refresh", "strip", "reset">> \in Plans
BY DEF Plans

(***************************************************************************)
(* Finite sets and numbers.                                                *)
(***************************************************************************)
LEMMA ImageFinite ==
  ASSUME NEW S, IsFiniteSet(S), NEW g, DOMAIN g = S
  PROVE  IsFiniteSet({g[x] : x \in S})
<1> DEFINE T == {g[x] : x \in S}
<1>1. [x \in S |-> g[x]] \in Surjection(S, T)
  BY DEF Surjection
<1> QED BY <1>1, FS_Surjection

LEMMA Smallest ==
  ASSUME NEW S \in SUBSET Nat, S # {}
  PROVE  \E n \in S : \A m \in S : n <= m
<1>1. PICK n \in S : \A m \in S : <<m, n>> \notin OpToRel(<, Nat)
  BY WFMin, NatLessThanWellFounded
<1>2. \A m \in S : ~(m < n)
  BY <1>1 DEF OpToRel
<1> QED BY <1>2

LEMMA Largest ==
  ASSUME NEW b \in Nat, NEW S \in SUBSET (0 .. b), S # {}
  PROVE  \E n \in S : \A m \in S : n >= m
<1> DEFINE T == {b - n : n \in S}
<1>1. T \in SUBSET Nat /\ T # {}
  <2>1. \A n \in S : b - n \in Nat
    OBVIOUS
  <2>2. PICK n \in S : TRUE
    OBVIOUS
  <2>3. b - n \in T
    BY <2>2
  <2> QED BY <2>1, <2>3
<1>2. PICK d \in T : \A e \in T : d <= e
  BY <1>1, Smallest
<1>3. PICK n \in S : d = b - n
  BY <1>2
<1>4. \A m \in S : b - n <= b - m
  BY <1>2, <1>3
<1> QED BY <1>4

\* The time of a write lies within the bound.
LEMMA NewTime ==
  ASSUME disk \in [Files -> Versions], NEW f \in Files, Max(Written) < MaxWrites
  PROVE  Max(Written) + 1 \in Versions
<1>1. Written \in SUBSET (0 .. MaxWrites) /\ Written # {} /\ MaxWrites \in Nat
  BY DEF Written, Versions
<1>2. \E n \in Written : \A m \in Written : n >= m
  BY <1>1, Largest
<1>3. Max(Written) \in Written
  BY <1>2 DEF Max
<1>4. Max(Written) \in 0 .. MaxWrites
  BY <1>1, <1>3
<1> HIDE DEF Written
<1> QED BY <1>1, <1>4 DEF Versions

(***************************************************************************)
(* Thumbnails.                                                             *)
(***************************************************************************)
LEMMA ThumbFacts ==
  ASSUME NEW thumbs \in ThumbSets, NEW f
  PROVE  /\ thumbs \subseteq Thumbs
         /\ OfFile(f, thumbs) \subseteq thumbs /\ IsFiniteSet(OfFile(f, thumbs))
<1>1. thumbs \subseteq Thumbs /\ IsFiniteSet(thumbs) /\ OfFile(f, thumbs) \subseteq thumbs
  BY DEF ThumbSets, OfFile
<1> QED BY <1>1, FS_Subset

LEMMA NewThumbFacts ==
  ASSUME disk \in [Files -> Versions], NEW f \in Files, NEW n \in Nat
  PROVE  /\ NewThumb(f, n) \in Thumbs /\ NewThumb(f, n).file = f /\ NewThumb(f, n).n = n
         /\ ~NewThumb(f, n).loading
BY DEF NewThumb, Thumbs, Versions

\* There is always a number left for one more thumbnail of the same file.
LEMMA SerialFacts ==
  ASSUME NEW thumbs \in ThumbSets, NEW f
  PROVE  Serial(f, thumbs) \in Nat
<1> DEFINE same == OfFile(f, thumbs)
           c == Cardinality(same)
<1>1. IsFiniteSet(same) /\ c \in Nat
  BY ThumbFacts, FS_CardinalityType
<1> HIDE DEF same
<1>2. \E n \in 0 .. c : \A t \in same : t.n # n
  <2> SUFFICES ASSUME \A n \in 0 .. c : \E t \in same : t.n = n PROVE FALSE
    OBVIOUS
  <2> DEFINE g == [n \in 0 .. c |-> CHOOSE t \in same : t.n = n]
  <2>1. g \in [0 .. c -> same] /\ \A n \in 0 .. c : g[n].n = n
    OBVIOUS
  <2>2. IsFiniteSet(0 .. c) /\ Cardinality(0 .. c) = c + 1
    BY <1>1, FS_Interval
  <2>3. c < c + 1
    BY <1>1
  <2> HIDE DEF g
  <2>4. \E x, y \in 0 .. c : x # y /\ g[x] = g[y]
    BY <1>1, <2>1, <2>2, <2>3, FS_PigeonHole
  <2> QED BY <2>1, <2>4
<1>3. Serial(f, thumbs) \in 0 .. c
  BY <1>2 DEF Serial, same
<1> QED BY <1>1, <1>3

\* The thumbnails a new Folder is filled with.
LEMMA FilledFacts ==
  ASSUME disk \in [Files -> Versions], NEW d \in Dirs, NEW thumbs, thumbs = {NewThumb(f, 0) : f \in Listing[d]}
  PROVE  /\ thumbs \in ThumbSets
         /\ \A t \in thumbs : t.file \in Listing[d] /\ ~t.loading
         /\ \A f \in Listing[d] : Single(f, thumbs)
<1>1. Listing[d] \subseteq Files /\ IsFiniteSet(Listing[d])
  BY FS_Subset
<1>2. \A f \in Listing[d] : /\ NewThumb(f, 0) \in Thumbs /\ NewThumb(f, 0).file = f
                            /\ ~NewThumb(f, 0).loading
  BY <1>1, NewThumbFacts
<1> DEFINE g == [f \in Listing[d] |-> NewThumb(f, 0)]
<1>3. IsFiniteSet({g[f] : f \in Listing[d]})
  <2>1. DOMAIN g = Listing[d]
    OBVIOUS
  <2> HIDE DEF g
  <2> QED BY <2>1, <1>1, ImageFinite
<1>4. thumbs = {g[f] : f \in Listing[d]}
  OBVIOUS
<1>5. thumbs \in ThumbSets
  BY <1>2, <1>3, <1>4 DEF ThumbSets
<1>6. \A f \in Listing[d] : OfFile(f, thumbs) = {NewThumb(f, 0)}
  BY <1>2 DEF OfFile
<1> QED BY <1>2, <1>5, <1>6 DEF Single

\* What Refresh makes of the thumbnails: one for each file, and none is marked as
\* loading that was not.
LEMMA RefreshedFacts ==
  ASSUME DataTypes, NEW d \in Dirs, NEW thumbs \in ThumbSets
  PROVE  /\ Refreshed(d, thumbs) \in ThumbSets
         /\ \A t \in Refreshed(d, thumbs) :
              /\ t.file \in Listing[d]
              /\ t.loading => \E u \in thumbs : u.loading /\ u.file = t.file /\ u.n = t.n
         /\ \A f \in Listing[d] : Single(f, Refreshed(d, thumbs))
<1> DEFINE g == [f \in Listing[d] |-> RefreshedThumb(f, thumbs)]
<1>1. Listing[d] \subseteq Files /\ IsFiniteSet(Listing[d])
  BY FS_Subset
<1>2. Refreshed(d, thumbs) = {g[f] : f \in Listing[d]}
  BY DEF Refreshed
<1>3. ASSUME NEW f \in Listing[d]
      PROVE  /\ g[f] \in Thumbs /\ g[f].file = f
             /\ g[f].loading => \E u \in thumbs : u.loading /\ u.file = f /\ u.n = g[f].n
  <2>1. CASE OfFile(f, thumbs) = {}
    BY <2>1, <1>1, NewThumbFacts DEF RefreshedThumb, DataTypes
  <2>2. CASE OfFile(f, thumbs) # {}
    <3>1. OfFile(f, thumbs) \subseteq thumbs /\ thumbs \subseteq Thumbs
      BY ThumbFacts
    <3> DEFINE t == CHOOSE t \in OfFile(f, thumbs) : TRUE
    <3>5. t \in OfFile(f, thumbs)
      BY <2>2
    <3>6. t \in Thumbs /\ t \in thumbs /\ t.file = f
      BY <3>1, <3>5 DEF OfFile
    <3>7. g[f] = Compared(t)
      BY <2>2 DEF RefreshedThumb
    <3> HIDE DEF g, t
    <3>8. disk[f] \in Versions
      BY <1>1 DEF DataTypes
    <3>9. Compared(t) \in Thumbs /\ Compared(t).file = f /\ Compared(t).loading = t.loading /\ Compared(t).n = t.n
      BY <3>6, <3>8 DEF Compared, Thumbs
    <3> QED BY <3>6, <3>7, <3>9
  <2> QED BY <2>1, <2>2
<1> HIDE DEF g
<1>4. DOMAIN g = Listing[d]
  BY DEF g
<1>5. Refreshed(d, thumbs) \in ThumbSets
  BY <1>1, <1>2, <1>3, <1>4, ImageFinite DEF ThumbSets
<1>6. ASSUME NEW f \in Listing[d] PROVE OfFile(f, Refreshed(d, thumbs)) = {g[f]}
  BY <1>2, <1>3 DEF OfFile
<1>7. ASSUME NEW t \in Refreshed(d, thumbs)
      PROVE  t.file \in Listing[d] /\ (t.loading => \E u \in thumbs : u.loading /\ u.file = t.file /\ u.n = t.n)
  <2>1. PICK f \in Listing[d] : t = g[f]
    BY <1>2
  <2> QED BY <2>1, <1>3
<1> QED BY <1>3, <1>5, <1>6, <1>7 DEF Single

\* A change of the thumbnails that keeps the file of each.
LEMMA ChangedFacts ==
  ASSUME NEW thumbs \in ThumbSets, NEW g \in [thumbs -> Thumbs],
         \A t \in thumbs : g[t].file = t.file
  PROVE  /\ {g[t] : t \in thumbs} \in ThumbSets
         /\ \A f : Single(f, thumbs) => Single(f, {g[u] : u \in thumbs})
<1>1. IsFiniteSet({g[t] : t \in thumbs})
  BY ImageFinite DEF ThumbSets
<1>2. ASSUME NEW f, NEW t \in Thumbs, OfFile(f, thumbs) = {t}
      PROVE  g[t] \in Thumbs /\ OfFile(f, {g[u] : u \in thumbs}) = {g[t]}
  <2>1. t \in thumbs /\ t.file = f /\ \A u \in thumbs : u.file = f => u = t
    BY <1>2 DEF OfFile
  <2>2. g[t] \in Thumbs /\ g[t].file = f /\ \A u \in thumbs : g[u].file = f => g[u] = g[t]
    BY <2>1
  <2>3. g[t] \in {g[u] : u \in thumbs} /\ \A s \in {g[u] : u \in thumbs} : s.file = f => s = g[t]
    BY <2>1, <2>2
  <2> QED BY <2>2, <2>3 DEF OfFile
<1> QED BY <1>1, <1>2 DEF ThumbSets, Single

(***************************************************************************)
(* The first state.                                                        *)
(***************************************************************************)
LEMMA Beginning == Init => IInv
<1> SUFFICES ASSUME Init PROVE IInv
  OBVIOUS
<1>1. disk \in [Files -> Versions] /\ IsFiniteSet({}) /\ {} \in ThumbSets
  BY FS_EmptySet DEF Init, Versions, ThumbSets
<1>2. \A f \in Files, n \in Nat : /\ NewThumb(f, n) \in Thumbs /\ NewThumb(f, n).file = f
                                  /\ ~NewThumb(f, n).loading
  BY <1>1 DEF NewThumb, Thumbs, Versions
<1>3. PICK d \in Dirs : folder = [dir |-> d, thumbs |-> {NewThumb(f, 0) : f \in Listing[d]}]
  BY DEF Init
<1>4. /\ folder.thumbs \in ThumbSets
      /\ \A t \in folder.thumbs : t.file \in Listing[d] /\ ~t.loading
      /\ \A f \in Listing[d] : Single(f, folder.thumbs)
  <2> DEFINE thumbs == {NewThumb(f, 0) : f \in Listing[d]}
  <2>1. folder.thumbs = thumbs
    BY <1>3
  <2> HIDE DEF thumbs
  <2>2. /\ thumbs \in ThumbSets
        /\ \A t \in thumbs : t.file \in Listing[d] /\ ~t.loading
        /\ \A f \in Listing[d] : Single(f, thumbs)
    BY <1>1, FilledFacts DEF thumbs
  <2> QED BY <2>1, <2>2
<1>5. DataTypes
  <2>1. folder = [dir |-> d, thumbs |-> folder.thumbs]
    BY <1>3
  <2> QED BY <1>1, <1>4, <2>1 DEF DataTypes, Init
<1>6. FlagTypes
  <2>1. ui \in Plans /\ _searchSpec \in Specs \cup {NoSpec} /\ ops \in 0 .. MaxOps
    BY PlanBegun DEF Init
  <2> QED BY <2>1 DEF Init, FlagTypes
<1>t. ThreadTypes
  BY DEF Init, ThreadTypes
<1>7. ExitOK /\ SearchOK /\ RoundOK
  BY DEF Init, ExitOK, SearchOK, RoundOK, Quiet
<1>8. LoadingOK /\ FilesOK
  BY <1>3, <1>4 DEF Init, LoadingOK, FilesOK
<1> QED BY <1>5, <1>6, <1>t, <1>7, <1>8 DEF IInv

(***************************************************************************)
(* Each step keeps the flags, and what the UI thread has left to do.       *)
(***************************************************************************)
LEMMA UserKeepsFlags ==
  ASSUME FlagTypes, User
  PROVE  FlagTypes'
<1> USE PlanBegun DEF place, modes, asks, events, ends, notice
<1>1. ASSUME NEW steps \in Plans, Begin(steps), UNCHANGED notice
      PROVE  FlagTypes'
  BY <1>1 DEF Begin, UserTurn, FlagTypes
<1>2. CASE BeginSearch \/ BeginOpenFolder \/ RefreshFolder
  BY <1>1, <1>2 DEF User, BeginSearch, BeginOpenFolder, RefreshFolder
<1>3. CASE SetPause
  BY <1>3 DEF User, SetPause, UserTurn, FlagTypes
<1>4. CASE SignalExit
  BY <1>4 DEF User, SignalExit, UserTurn, FlagTypes
<1> QED BY <1>2, <1>3, <1>4 DEF User

LEMMA UIKeepsFlags ==
  ASSUME FlagTypes, UIContinues
  PROVE  FlagTypes'
<1> USE DEF place, modes, asks, events, ends, notice
<1>p. ASSUME NEW step, Do(step) PROVE ui' \in Plans
  BY <1>p, PlanStep DEF FlagTypes
<1>1. CASE Abort
  BY <1>1, <1>p DEF UIContinues, Abort, FlagTypes
<1>2. CASE LeaveSearchMode
  <2>1. IsSearchMode' = FALSE
    BY <1>2 DEF LeaveSearchMode
  <2>2. IsSearchMode' \in BOOLEAN
    BY <2>1, Zenon
  <2> QED BY <1>2, <1>p, <2>2 DEF UIContinues, LeaveSearchMode, FlagTypes
<1>3. CASE DeleteAllThumbs
  BY <1>3, <1>p DEF UIContinues, DeleteAllThumbs, FlagTypes
<1>4. CASE SetSearchMode
  BY <1>4, <1>p DEF UIContinues, SetSearchMode, FlagTypes
<1>5. CASE SetSearching
  BY <1>5, <1>p DEF UIContinues, SetSearching, FlagTypes
<1>6. CASE StartSearch
  BY <1>6, <1>p DEF UIContinues, StartSearch, FlagTypes
<1>7. CASE SetFolder
  <2>1. searched' = FALSE /\ isCurrent' = FALSE
    BY <1>7 DEF SetFolder
  <2>2. searched' \in BOOLEAN /\ isCurrent' \in BOOLEAN
    BY <2>1, Zenon
  <2>3. ui' \in Plans
    BY <1>7, <1>p DEF SetFolder
  <2>4. UNCHANGED <<modes, asks, _bAbort, events, ends, ops, notice>>
    BY <1>7 DEF UIContinues, SetFolder
  <2> QED BY <2>2, <2>3, <2>4 DEF FlagTypes
<1>8. CASE SetRefreshFolder
  <2>1. refreshDue' = FALSE
    BY <1>8 DEF SetRefreshFolder
  <2>2. refreshDue' \in BOOLEAN
    BY <2>1, Zenon
  <2> QED BY <1>8, <1>p, <2>2 DEF UIContinues, SetRefreshFolder, FlagTypes
<1>9. CASE Refresh
  BY <1>9, <1>p DEF UIContinues, Refresh, FlagTypes
<1>10. CASE ResetLoadedFlag
  BY <1>10, <1>p DEF UIContinues, ResetLoadedFlag, FlagTypes
<1>11. CASE ResetThreads
  BY <1>11, <1>p DEF UIContinues, ResetThreads, FlagTypes
<1>12. CASE StopThread
  BY <1>12, <1>p DEF UIContinues, StopThread, FlagTypes
<1>13. CASE OnTimer
  BY <1>13, PlanBegun DEF UIContinues, OnTimer, FlagTypes
<1> QED
  BY <1>1, <1>2, <1>3, <1>4, <1>5, <1>6, <1>7, <1>8, <1>9, <1>10, <1>11, <1>12, <1>13 DEF UIContinues

LEMMA FlagsStep ==
  ASSUME FlagTypes, DataTypes, [Next]_vars
  PROVE  FlagTypes'
<1> USE DEF place, modes, asks, events, ends, notice
<1>1. CASE Worker
  <2>1. TestExit \/ GetFolder \/ LeaveOut \/ ClearAbort \/ ChooseSearch \/ ChooseThumbs \/ EnumNext \/ DoMatch => FlagTypes'
    BY <1>1 DEF Worker, TestExit, GetFolder, LeaveOut, ClearAbort, ChooseSearch, ChooseThumbs, EnumNext, DoMatch, FlagTypes
  <2>2. InsertThumb \/ EndSearch \/ LoadJobBegin \/ LoadImage \/ LoadJobEnd => FlagTypes'
    BY <1>1 DEF Worker, InsertThumb, EndSearch, LoadJobBegin, LoadImage, LoadJobEnd, FlagTypes
  <2>3. EndThumbs \/ WakeForChange \/ WakeForExit => FlagTypes'
    BY <1>1 DEF Worker, EndThumbs, WakeForChange, WakeForExit, FlagTypes
  <2> QED BY <1>1, <2>1, <2>2, <2>3 DEF Worker
<1>2. CASE Waiter
  <2>1. folder.dir \in Dirs
    BY DEF DataTypes
  <2>2. watched' \in Dirs \cup {NoDir} /\ changed' \in BOOLEAN /\ refreshDue' \in BOOLEAN /\ _eventWatch' \in BOOLEAN
    BY <1>2, <2>1 DEF Waiter, WatchFolder, FolderHasChanged, FlagTypes
  <2>3. UNCHANGED <<searched, isCurrent, modes, _searchSpec, _bAbort, _eventFolderChange, ends, ui, ops>>
    BY <1>2 DEF Waiter, WatchFolder, FolderHasChanged
  <2> QED BY <2>2, <2>3 DEF FlagTypes
<1>3. CASE WriteFile
  BY <1>3 DEF WriteFile, FlagTypes
<1>4. CASE UNCHANGED vars
  BY <1>4 DEF vars, FlagTypes
<1> QED BY <1>1, <1>2, <1>3, <1>4, UserKeepsFlags, UIKeepsFlags DEF Next

(***************************************************************************)
(* Each step keeps the types of the thread and of the thumbnails.          *)
(***************************************************************************)
\* Only these steps touch the thumbnails or the thread.
LEMMA StepCases ==
  ASSUME [Next]_vars
  PROVE  \/ UNCHANGED <<place, scan>>
         \/ (DeleteAllThumbs \/ Refresh \/ ResetLoadedFlag \/ SetFolder) /\ UNCHANGED <<disk, scan>>
         \/ Worker /\ UNCHANGED disk
<1>1. User => UNCHANGED <<place, scan>>
  BY DEF User, BeginSearch, BeginOpenFolder, RefreshFolder, Begin, SetPause, SignalExit, scan
<1>2. ASSUME UIContinues, ~(DeleteAllThumbs \/ Refresh \/ ResetLoadedFlag \/ SetFolder)
      PROVE  UNCHANGED <<place, scan>>
  BY <1>2 DEF UIContinues, Abort, LeaveSearchMode, SetSearchMode, SetSearching, StartSearch, SetRefreshFolder,
     ResetThreads, StopThread, OnTimer, scan
<1>3. Waiter \/ WriteFile \/ UNCHANGED vars => UNCHANGED <<place, scan>>
  BY DEF Waiter, WriteFile, vars, scan
<1>4. UIContinues => UNCHANGED <<disk, scan>>
  BY DEF UIContinues, scan
<1>5. Worker => UNCHANGED disk
  BY DEF Worker
<1> QED BY <1>1, <1>2, <1>3, <1>4, <1>5 DEF Next

LEMMA SetThumbsFacts ==
  ASSUME ThreadTypes, DataTypes, NEW thumbs \in ThumbSets, SetThumbs(thumbs), UNCHANGED scan
  PROVE  /\ ThreadTypes'
         /\ folder' = [dir |-> folder.dir, thumbs |-> thumbs]
         /\ job' = job \/ job' = [job EXCEPT !.live = FALSE]
         /\ ~isCurrent \/ (\E t \in thumbs : t.file = job.file /\ t.n = job.n) => job' = job
<1>1. job' = job \/ job' = [job EXCEPT !.live = FALSE]
  BY DEF SetThumbs
<1>2. ThreadTypes'
  <2>1. UNCHANGED <<pc, todo, found, missed>>
    BY DEF scan
  <2>2. CASE pc \in {"load", "jobend"}
    <3>1. job' \in [file : Files, n : Nat, live : BOOLEAN]
      BY <1>1, <2>2 DEF ThreadTypes
    <3> QED BY <2>1, <2>2, <3>1 DEF ThreadTypes
  <2>3. CASE pc \notin {"load", "jobend"}
    <3>1. job' = NoJob
      BY <1>1, <2>3 DEF ThreadTypes, NoJob
    <3> QED BY <2>1, <2>3, <3>1 DEF ThreadTypes
  <2> QED BY <2>2, <2>3
<1>3. folder' = [dir |-> folder.dir, thumbs |-> thumbs]
  BY DEF SetThumbs, DataTypes
<1> QED BY <1>1, <1>2, <1>3 DEF SetThumbs

Stripped(thumbs) == {[t EXCEPT !.loaded = FALSE] : t \in thumbs}

LEMMA StrippedFacts ==
  ASSUME NEW thumbs \in ThumbSets
  PROVE  /\ Stripped(thumbs) \in ThumbSets
         /\ \A t \in Stripped(thumbs) :
              \E u \in thumbs : u.file = t.file /\ u.n = t.n /\ u.loading = t.loading
         /\ \A f : Single(f, thumbs) => Single(f, Stripped(thumbs))
<1> DEFINE g == [t \in thumbs |-> [t EXCEPT !.loaded = FALSE]]
<1>1. \A t \in thumbs : [t EXCEPT !.loaded = FALSE] \in Thumbs
  BY DEF ThumbSets, Thumbs
<1>2. \A t \in thumbs : LET s == [t EXCEPT !.loaded = FALSE]
                        IN  s.file = t.file /\ s.n = t.n /\ s.loading = t.loading
  BY DEF ThumbSets, Thumbs
<1>3. /\ g \in [thumbs -> Thumbs]
      /\ \A t \in thumbs : g[t].file = t.file /\ g[t].n = t.n /\ g[t].loading = t.loading
  BY <1>1, <1>2
<1>4. Stripped(thumbs) = {g[t] : t \in thumbs}
  BY DEF Stripped
<1> HIDE DEF g
<1>5. /\ {g[t] : t \in thumbs} \in ThumbSets
      /\ \A f : Single(f, thumbs) => Single(f, {g[t] : t \in thumbs})
  BY <1>3, ChangedFacts
<1>6. \A t \in Stripped(thumbs) : \E u \in thumbs : u.file = t.file /\ u.n = t.n /\ u.loading = t.loading
  BY <1>3, <1>4
<1> QED BY <1>4, <1>5, <1>6

\* The thread marks a thumbnail as loading.
Begun(t, thumbs) == (thumbs \ {t}) \cup {[t EXCEPT !.loading = TRUE]}

LEMMA BegunFacts ==
  ASSUME NEW thumbs \in ThumbSets, NEW t \in thumbs
  PROVE  /\ Begun(t, thumbs) \in ThumbSets /\ t.file \in Files /\ t.n \in Nat
         /\ \A s \in Begun(t, thumbs) : /\ \E u \in thumbs : u.file = s.file
                                        /\ s \in thumbs \/ (s.file = t.file /\ s.n = t.n)
         /\ \A f : Single(f, thumbs) => Single(f, Begun(t, thumbs))
<1> DEFINE new == [t EXCEPT !.loading = TRUE]
           g == [u \in thumbs |-> IF u = t THEN new ELSE u]
<1>1. t \in Thumbs /\ thumbs \subseteq Thumbs
  BY DEF ThumbSets
<1>2. new \in Thumbs /\ new.file = t.file /\ new.n = t.n /\ t.file \in Files /\ t.n \in Nat
  BY <1>1 DEF Thumbs
<1> HIDE DEF new
<1>3. g \in [thumbs -> Thumbs] /\ \A u \in thumbs : g[u].file = u.file
  BY <1>1, <1>2
<1>4. Begun(t, thumbs) = {g[u] : u \in thumbs}
  BY DEF new, Begun
<1> HIDE DEF g
<1>5. /\ {g[u] : u \in thumbs} \in ThumbSets
      /\ \A f : Single(f, thumbs) => Single(f, {g[u] : u \in thumbs})
  BY <1>3, ChangedFacts
<1>6. \A s \in Begun(t, thumbs) : s \in thumbs \/ s = new
  BY DEF new, Begun
<1> QED BY <1>2, <1>4, <1>5, <1>6

\* The thread puts its result into the thumbnail it has in hand.
Ended(thumbs) == {IF job.live /\ t.file = job.file /\ t.n = job.n
                    THEN [t EXCEPT !.loaded = TRUE, !.loading = FALSE]
                    ELSE t : t \in thumbs}

LEMMA EndedFacts ==
  ASSUME NEW thumbs \in ThumbSets
  PROVE  /\ Ended(thumbs) \in ThumbSets
         /\ \A s \in Ended(thumbs) :
              /\ \E u \in thumbs : u.file = s.file
              /\ s.loading => s \in thumbs /\ ~(job.live /\ s.file = job.file /\ s.n = job.n)
         /\ \A f : Single(f, thumbs) => Single(f, Ended(thumbs))
<1> DEFINE hit(t) == job.live /\ t.file = job.file /\ t.n = job.n
           new(t) == [t EXCEPT !.loaded = TRUE, !.loading = FALSE]
           g == [t \in thumbs |-> IF hit(t) THEN new(t) ELSE t]
<1>1. thumbs \subseteq Thumbs
  BY DEF ThumbSets
<1>2. \A t \in thumbs : new(t) \in Thumbs /\ new(t).file = t.file /\ ~new(t).loading
  BY <1>1 DEF Thumbs
<1>4. Ended(thumbs) = {g[t] : t \in thumbs}
  BY DEF Ended
<1> HIDE DEF new, hit
<1>3. /\ g \in [thumbs -> Thumbs] /\ \A t \in thumbs : g[t].file = t.file
      /\ \A t \in thumbs : g[t].loading => g[t] = t /\ ~hit(t)
  BY <1>1, <1>2
<1> HIDE DEF g
<1>5. /\ {g[u] : u \in thumbs} \in ThumbSets
      /\ \A f : Single(f, thumbs) => Single(f, {g[u] : u \in thumbs})
  BY <1>3, ChangedFacts
<1>6. ASSUME NEW s \in Ended(thumbs)
      PROVE  /\ \E u \in thumbs : u.file = s.file
             /\ s.loading => s \in thumbs /\ ~hit(s)
  <2>1. PICK u \in thumbs : s = g[u]
    BY <1>4
  <2> QED BY <2>1, <1>3
<1> QED BY <1>4, <1>5, <1>6 DEF hit

LEMMA MineFacts ==
  ASSUME DataTypes
  PROVE  /\ Mine \in ThumbSets /\ folder.dir \in Dirs /\ folder.thumbs \in ThumbSets
         /\ folder = [dir |-> folder.dir, thumbs |-> folder.thumbs]
BY DEF DataTypes, Mine

LEMMA SetMineFacts ==
  ASSUME DataTypes, NEW thumbs \in ThumbSets, SetMine(thumbs), UNCHANGED disk
  PROVE  /\ DataTypes' /\ folder'.dir = folder.dir
         /\ isCurrent => folder'.thumbs = thumbs /\ old' = old
         /\ ~isCurrent => folder' = folder /\ old' = thumbs
<1>1. CASE isCurrent
  <2>1. folder' = [dir |-> folder.dir, thumbs |-> thumbs] /\ old' = old
    BY <1>1, MineFacts DEF SetMine
  <2> QED BY <1>1, <2>1 DEF DataTypes
<1>2. CASE ~isCurrent
  BY <1>2 DEF SetMine, DataTypes
<1> QED BY <1>1, <1>2

\* A result of the search joins the thumbnails of the folder it was found in.
LEMMA InsertedFacts ==
  ASSUME ThreadTypes, DataTypes, InsertThumb, UNCHANGED disk
  PROVE  /\ DataTypes' /\ folder'.dir = folder.dir
         /\ \E new \in Thumbs :
              /\ new.file = found.file /\ ~new.loading
              /\ isCurrent => folder'.thumbs = folder.thumbs \cup {new} /\ old' = old
              /\ ~isCurrent => folder' = folder /\ old' = old \cup {new}
<1> DEFINE new == [file |-> found.file, n |-> Serial(found.file, Mine),
                   time |-> found.time, loaded |-> TRUE, loading |-> FALSE]
<1>1. Mine \in ThumbSets
  BY MineFacts
<1>2. found \in [file : Files, time : Versions]
  BY DEF ThreadTypes, InsertThumb, Goto
<1>3. new \in Thumbs /\ new.file = found.file /\ ~new.loading
  BY <1>1, <1>2, SerialFacts DEF Thumbs
<1>4. SetMine(Mine \cup {new})
  BY DEF InsertThumb
<1> HIDE DEF new
<1>5. Mine \cup {new} \in ThumbSets
  BY <1>1, <1>3, FS_AddElement DEF ThumbSets
<1> QED BY <1>3, <1>4, <1>5, SetMineFacts DEF Mine

\* The steps of the UI thread that change the thumbnails of the open folder.
LEMMA UIThumbsFacts ==
  ASSUME FlagTypes, ThreadTypes, DataTypes, DeleteAllThumbs \/ Refresh \/ ResetLoadedFlag, UNCHANGED <<disk, scan>>
  PROVE  /\ ThreadTypes' /\ DataTypes' /\ folder'.dir = folder.dir /\ UNCHANGED <<old, isCurrent>>
         /\ job' = job \/ job' = [job EXCEPT !.live = FALSE]
         /\ ~isCurrent \/ (\E t \in folder'.thumbs : t.file = job.file /\ t.n = job.n) => job' = job
         /\ \A t \in folder'.thumbs : t.loading =>
              \E u \in folder.thumbs : u.loading /\ u.file = t.file /\ u.n = t.n
<1>1. folder.dir \in Dirs /\ folder.thumbs \in ThumbSets
  BY MineFacts
<1>2. PICK thumbs \in ThumbSets :
        /\ SetThumbs(thumbs) /\ UNCHANGED <<old, isCurrent>>
        /\ \A t \in thumbs : t.loading => \E u \in folder.thumbs : u.loading /\ u.file = t.file /\ u.n = t.n
  <2>1. CASE DeleteAllThumbs
    <3>1. {} \in ThumbSets
      BY FS_EmptySet DEF ThumbSets
    <3> QED BY <2>1, <3>1 DEF DeleteAllThumbs
  <2>2. CASE Refresh
    <3>1. PICK kept \in SUBSET folder.thumbs :
            SetThumbs(Refreshed(folder.dir, kept)) /\ UNCHANGED <<old, isCurrent>>
      BY <2>2 DEF Refresh
    <3>2. kept \in ThumbSets
      BY <1>1, FS_Subset DEF ThumbSets
    <3> QED BY <1>1, <3>1, <3>2, RefreshedFacts
  <2>3. CASE ResetLoadedFlag
    <3>1. SetThumbs(Stripped(folder.thumbs)) /\ UNCHANGED <<old, isCurrent>>
      BY <2>3 DEF ResetLoadedFlag, Stripped
    <3>2. /\ Stripped(folder.thumbs) \in ThumbSets
          /\ \A t \in Stripped(folder.thumbs) :
               \E u \in folder.thumbs : u.file = t.file /\ u.n = t.n /\ u.loading = t.loading
      BY <1>1, StrippedFacts
    <3> QED BY <3>1, <3>2
  <2> QED BY <2>1, <2>2, <2>3
<1>3. /\ ThreadTypes' /\ folder' = [dir |-> folder.dir, thumbs |-> thumbs]
      /\ job' = job \/ job' = [job EXCEPT !.live = FALSE]
      /\ ~isCurrent \/ (\E t \in thumbs : t.file = job.file /\ t.n = job.n) => job' = job
  BY <1>2, SetThumbsFacts
<1>4. folder'.dir = folder.dir /\ folder'.thumbs = thumbs
  BY <1>3
<1>5. DataTypes'
  BY <1>1, <1>2, <1>3 DEF DataTypes
<1> QED BY <1>2, <1>3, <1>4, <1>5

\* Another folder is opened.
LEMMA SetFolderFacts ==
  ASSUME FlagTypes, DataTypes, SetFolder, UNCHANGED disk
  PROVE  /\ DataTypes' /\ job' = job /\ ~isCurrent'
         /\ old' = IF isCurrent THEN folder.thumbs ELSE old
         /\ \A t \in folder'.thumbs : t.file \in Listing[folder'.dir] /\ ~t.loading
         /\ \A f \in Listing[folder'.dir] : Single(f, folder'.thumbs)
<1>1. PICK d \in Dirs : folder' = [dir |-> d, thumbs |-> {NewThumb(f, 0) : f \in Listing[d]}]
  BY DEF SetFolder
<1> DEFINE thumbs == {NewThumb(f, 0) : f \in Listing[d]}
<1>2. folder'.dir = d /\ folder'.thumbs = thumbs /\ folder' = [dir |-> d, thumbs |-> thumbs]
  BY <1>1
<1>3. disk \in [Files -> Versions]
  BY DEF DataTypes
<1> HIDE DEF thumbs
<1>4. /\ thumbs \in ThumbSets
      /\ \A t \in thumbs : t.file \in Listing[d] /\ ~t.loading
      /\ \A f \in Listing[d] : Single(f, thumbs)
  BY <1>3, FilledFacts DEF thumbs
<1>5. old' = (IF isCurrent THEN folder.thumbs ELSE old) /\ job' = job /\ isCurrent' = FALSE
  BY DEF SetFolder
<1>6. old' \in ThumbSets
  BY <1>5, MineFacts DEF DataTypes
<1>7. DataTypes'
  BY <1>2, <1>3, <1>4, <1>6 DEF DataTypes
<1> QED BY <1>2, <1>4, <1>5, <1>7

LEMMA DataStep ==
  ASSUME FlagTypes, ThreadTypes, DataTypes, [Next]_vars
  PROVE  ThreadTypes' /\ DataTypes'
<1>1. CASE UNCHANGED <<place, scan>>
  <2>1. ThreadTypes' /\ UNCHANGED <<folder, old>>
    BY <1>1 DEF place, scan, ThreadTypes
  <2>2. disk' \in [Files -> Versions]
    <3>1. CASE WriteFile
      <4>1. PICK f \in Files : disk' = [disk EXCEPT ![f] = Max(Written) + 1]
        BY <3>1 DEF WriteFile
      <4>2. Max(Written) + 1 \in Versions
        BY <3>1, NewTime DEF WriteFile, DataTypes
      <4> QED BY <4>1, <4>2 DEF DataTypes
    <3>2. CASE ~WriteFile
      <4>1. UNCHANGED disk
        BY <3>2 DEF Next, User, UIContinues, Worker, Waiter, vars
      <4> QED BY <4>1 DEF DataTypes
    <3> QED BY <3>1, <3>2
  <2> QED BY <2>1, <2>2 DEF DataTypes
<1>2. CASE (DeleteAllThumbs \/ Refresh \/ ResetLoadedFlag) /\ UNCHANGED <<disk, scan>>
  BY <1>2, UIThumbsFacts
<1>3. CASE SetFolder /\ UNCHANGED <<disk, scan>>
  <2>1. DataTypes' /\ job' = job
    BY <1>3, SetFolderFacts
  <2> QED BY <1>3, <2>1 DEF ThreadTypes, scan
<1>4. CASE Worker /\ UNCHANGED disk
  <2>m. missed' \in SUBSET Files
    BY <1>4 DEF Worker, GetFolder, LeaveOut, ThreadTypes
  <2>1. CASE TestExit \/ ClearAbort \/ ChooseThumbs \/ EndThumbs \/ WakeForChange \/ WakeForExit
    BY <1>4, <2>1, <2>m DEF TestExit, ClearAbort, ChooseThumbs, EndThumbs, WakeForChange, WakeForExit, Goto, place,
       ThreadTypes, DataTypes
  <2>2. CASE GetFolder
    <3>1. {} \in ThumbSets
      BY FS_EmptySet DEF ThumbSets
    <3> QED BY <1>4, <2>2, <2>m, <3>1 DEF GetFolder, Goto, ThreadTypes, DataTypes
  <2>3. CASE ChooseSearch
    <3>1. todo' \in SUBSET Files
      BY <2>3 DEF ChooseSearch
    <3> QED BY <1>4, <2>3, <2>m, <3>1 DEF ChooseSearch, Goto, place, ThreadTypes, DataTypes
  <2>4. CASE EnumNext
    <3>1. PICK f \in todo : found' = [file |-> f, time |-> disk[f]] /\ todo' = todo \ {f}
      BY <2>4 DEF EnumNext
    <3>2. found' \in [file : Files, time : Versions]
      BY <3>1 DEF ThreadTypes, DataTypes, Versions
    <3> QED BY <1>4, <2>4, <2>m, <3>1, <3>2 DEF EnumNext, Goto, place, ThreadTypes, DataTypes
  <2>5. CASE DoMatch
    <3>1. found \in [file : Files, time : Versions]
      BY <2>5 DEF DoMatch, Goto, ThreadTypes, DataTypes
    <3> QED BY <1>4, <2>5, <2>m, <3>1 DEF DoMatch, Goto, place, ThreadTypes, DataTypes
  <2>6. CASE InsertThumb
    <3>1. DataTypes'
      BY <1>4, <2>6, InsertedFacts
    <3> QED BY <2>6, <2>m, <3>1 DEF InsertThumb, Goto, ThreadTypes
  <2>7. CASE EndSearch
    BY <1>4, <2>7, <2>m DEF EndSearch, Goto, place, ThreadTypes, DataTypes
  <2>8. CASE LoadJobBegin
    <3>1. PICK t \in Mine : /\ SetMine(Begun(t, Mine))
                            /\ job' = [file |-> t.file, n |-> t.n, live |-> TRUE]
      BY <2>8 DEF LoadJobBegin, Begun
    <3>2. Begun(t, Mine) \in ThumbSets /\ t.file \in Files /\ t.n \in Nat
      BY MineFacts, BegunFacts
    <3>3. DataTypes'
      BY <1>4, <3>1, <3>2, SetMineFacts
    <3>4. job' \in [file : Files, n : Nat, live : BOOLEAN]
      BY <3>1, <3>2 DEF Versions
    <3> QED BY <2>8, <2>m, <3>3, <3>4 DEF LoadJobBegin, Goto, ThreadTypes
  <2>9. CASE LoadImage
    BY <1>4, <2>9, <2>m DEF LoadImage, Goto, place, ThreadTypes, DataTypes
  <2>10. CASE LoadJobEnd
    <3>1. SetMine(Ended(Mine))
      BY <2>10 DEF LoadJobEnd, Goto, ThreadTypes, Ended
    <3>2. Ended(Mine) \in ThumbSets
      BY <3>1, MineFacts, EndedFacts
    <3>3. DataTypes'
      BY <1>4, <3>1, <3>2, SetMineFacts
    <3> QED BY <2>10, <2>m, <3>3 DEF LoadJobEnd, Goto, ThreadTypes
  <2>11. CASE LeaveOut
    <3>1. todo' \in SUBSET Files
      BY <2>11 DEF LeaveOut, ThreadTypes
    <3> QED BY <1>4, <2>11, <2>m, <3>1 DEF LeaveOut, place, ThreadTypes, DataTypes
  <2> QED BY <1>4, <2>1, <2>2, <2>3, <2>4, <2>5, <2>6, <2>7, <2>8, <2>9, <2>10, <2>11 DEF Worker
<1> QED BY <1>1, <1>2, <1>3, <1>4, StepCases

(***************************************************************************)
(* Closing, and search mode.                                               *)
(***************************************************************************)
LEMMA UserTurnFacts ==
  ASSUME User
  PROVE  /\ ui = <<>> /\ UNCHANGED <<place, scan, IsSearchMode, _bExit>>
         /\ _eventExit' = _eventExit \/ _eventExit' = TRUE
         /\ ui' = <<"stop">> => _eventExit' = TRUE
         /\ ui' # <<>> => Head(ui') \in {"leave", "stop"}
         /\ ui' = <<>> => _eventExit' = _eventExit
         /\ UNCHANGED <<_eventFolderChange, _searchSpec>>
         /\ ui' = <<>> => UNCHANGED _bAbort
<1> USE DEF modes, events, asks, ends
<1>1. UNCHANGED <<disk, scan>>
  BY DEF User, scan
<1>2. CASE BeginSearch
  BY <1>1, <1>2 DEF BeginSearch, Begin, UserTurn
<1>3. CASE BeginOpenFolder
  BY <1>1, <1>3 DEF BeginOpenFolder, Begin, UserTurn
<1>4. CASE RefreshFolder
  BY <1>1, <1>4 DEF RefreshFolder, Begin, UserTurn
<1>5. CASE SetPause
  BY <1>1, <1>5 DEF SetPause, UserTurn
<1>6. CASE SignalExit
  BY <1>1, <1>6 DEF SignalExit, UserTurn
<1> QED BY <1>2, <1>3, <1>4, <1>5, <1>6 DEF User

\* What a step of the UI thread in its operation may do.
LEMMA UIFacts ==
  ASSUME FlagTypes, UIContinues
  PROVE  /\ UNCHANGED <<_eventExit, scan>>
         /\ ui' # <<"stop">>
         /\ _bExit' = _bExit \/ ui = <<"stop">>
         /\ ui' = <<>> => ui # <<>> /\ (_eventFolderChange' = TRUE \/ ui = <<"stop">>)
         /\ ui' # <<>> /\ Head(ui') = "mode" => searched' = TRUE
         /\ ui' # <<>> /\ Head(ui') = "set" => IsSearchMode' = FALSE
         /\ IsSearchMode' = IsSearchMode \/ IsSearchMode' = FALSE
              \/ (IsSearchMode' = TRUE /\ Head(ui) = "mode" /\ ui # <<>> /\ searched' = searched)
         /\ searched' = searched \/ searched' = TRUE
              \/ (searched' = FALSE /\ ui # <<>> /\ Head(ui) = "set" /\ isCurrent' = FALSE /\ IsSearchMode' = IsSearchMode)
         /\ isCurrent' = isCurrent \/ isCurrent' = FALSE
<1> USE DEF place, modes, asks, events, ends
<1>1. UNCHANGED <<disk, scan>> /\ ui \in Plans
  BY DEF UIContinues, scan, FlagTypes
<1>2. CASE Abort
  <2>1. Do("abort")
    BY <1>2 DEF Abort
  <2> QED BY <1>1, <1>2, <2>1, PlanStep DEF Abort
<1>3. CASE LeaveSearchMode
  <2>1. Do("leave")
    BY <1>3 DEF LeaveSearchMode
  <2> QED BY <1>1, <1>3, <2>1, PlanStep DEF LeaveSearchMode
<1>4. CASE DeleteAllThumbs
  <2>1. Do("delete")
    BY <1>4 DEF DeleteAllThumbs
  <2> QED BY <1>1, <1>4, <2>1, PlanStep DEF DeleteAllThumbs
<1>5. CASE SetSearchMode
  <2>1. Do("mode")
    BY <1>5 DEF SetSearchMode
  <2> QED BY <1>1, <1>5, <2>1, PlanStep DEF SetSearchMode
<1>6. CASE SetSearching
  <2>1. Do("searching")
    BY <1>6 DEF SetSearching
  <2> QED BY <1>1, <1>6, <2>1, PlanStep DEF SetSearching
<1>7. CASE StartSearch
  <2>1. Do("start")
    BY <1>7 DEF StartSearch
  <2> QED BY <1>1, <1>7, <2>1, PlanStep DEF StartSearch
<1>8. CASE SetFolder
  <2>1. Do("set") /\ Head(ui) = "set"
    BY <1>8 DEF SetFolder, Do
  <2> QED BY <1>1, <1>8, <2>1, PlanStep DEF SetFolder
<1>9. CASE SetRefreshFolder
  <2>1. Do("undue")
    BY <1>9 DEF SetRefreshFolder
  <2> QED BY <1>1, <1>9, <2>1, PlanStep DEF SetRefreshFolder
<1>10. CASE Refresh
  <2>1. Do("refresh")
    BY <1>10 DEF Refresh
  <2> QED BY <1>1, <1>10, <2>1, PlanStep DEF Refresh
<1>11. CASE ResetLoadedFlag
  <2>1. Do("strip")
    BY <1>11 DEF ResetLoadedFlag
  <2> QED BY <1>1, <1>11, <2>1, PlanStep DEF ResetLoadedFlag
<1>12. CASE ResetThreads
  <2>1. Do("reset")
    BY <1>12 DEF ResetThreads
  <2> QED BY <1>1, <1>12, <2>1, PlanStep DEF ResetThreads
<1>13. CASE StopThread
  <2>1. Do("stop")
    BY <1>13 DEF StopThread
  <2>2. ui = <<"stop">> /\ ui' # <<"stop">> /\ (ui' # <<>> => Head(ui') # "set" /\ Head(ui') # "mode")
    BY <1>1, <2>1, PlanStep
  <2>3. UNCHANGED <<_eventExit, scan, IsSearchMode, searched, isCurrent>>
    BY <1>1, <1>13 DEF StopThread
  <2> QED BY <2>2, <2>3
<1>14. CASE OnTimer
  <2>1. ui' = <<"abort", "leave", "undue", "refresh", "reset">>
    BY <1>14 DEF OnTimer
  <2>2. ui' # <<>> /\ ui' # <<"stop">> /\ Head(ui') = "abort"
    BY <2>1
  <2> QED BY <1>1, <1>14, <2>2 DEF OnTimer
<1> QED
  BY <1>2, <1>3, <1>4, <1>5, <1>6, <1>7, <1>8, <1>9, <1>10, <1>11, <1>12, <1>13, <1>14 DEF UIContinues

\* The threads leave these alone.
LEMMA OthersFacts ==
  ASSUME Worker \/ Waiter \/ WriteFile \/ UNCHANGED vars
  PROVE  UNCHANGED <<ui, _bExit, _eventExit, IsSearchMode, searched, _searchSpec>>
<1> USE DEF place, modes, asks, events, ends, notice
<1>1. CASE Worker
  <2>1. UNCHANGED <<ui, _bExit, _eventExit, _searchSpec>>
    BY <1>1 DEF Worker
  <2>2. UNCHANGED <<IsSearchMode, searched>>
    BY <1>1 DEF Worker, TestExit, GetFolder, LeaveOut, ClearAbort, ChooseSearch, ChooseThumbs, EnumNext, DoMatch,
       InsertThumb, EndSearch, LoadJobBegin, LoadImage, LoadJobEnd, EndThumbs, WakeForChange, WakeForExit
  <2> QED BY <2>1, <2>2
<1>2. CASE Waiter
  BY <1>2 DEF Waiter, WatchFolder, FolderHasChanged
<1>3. CASE WriteFile \/ UNCHANGED vars
  BY <1>3 DEF WriteFile, vars
<1> QED BY <1>1, <1>2, <1>3

LEMMA ExitStep ==
  ASSUME FlagTypes, ExitOK, [Next]_vars
  PROVE  ExitOK'
<1>1. CASE User
  BY <1>1, UserTurnFacts DEF ExitOK, scan, FlagTypes
<1>2. CASE UIContinues
  BY <1>2, UIFacts DEF ExitOK, scan
<1>3. CASE Worker
  <2>1. UNCHANGED <<ui, _bExit, _eventExit>>
    BY <1>3, OthersFacts
  <2>2. pc' = "done" => pc = "done" \/ _bExit \/ _eventExit
    BY <1>3 DEF Worker, TestExit, GetFolder, LeaveOut, ClearAbort, ChooseSearch, ChooseThumbs, EnumNext, DoMatch,
       InsertThumb, EndSearch, LoadJobBegin, LoadImage, LoadJobEnd, EndThumbs, WakeForChange, WakeForExit, Goto
  <2> QED BY <2>1, <2>2 DEF ExitOK
<1>4. CASE Waiter \/ WriteFile \/ UNCHANGED vars
  <2>1. UNCHANGED pc
    BY <1>4 DEF Waiter, WriteFile, vars, scan
  <2> QED BY <1>4, <2>1, OthersFacts DEF ExitOK
<1> QED BY <1>1, <1>2, <1>3, <1>4 DEF Next

LEMMA SearchStep ==
  ASSUME FlagTypes, SearchOK, [Next]_vars
  PROVE  SearchOK'
<1>1. CASE User
  BY <1>1, UserTurnFacts DEF SearchOK, scan, place
<1>2. CASE UIContinues
  <2>1. UNCHANGED pc
    BY <1>2, UIFacts DEF scan
  <2>2. IsSearchMode' => searched'
    BY <1>2, UIFacts DEF SearchOK
  <2>3. isCurrent' /\ pc' \in {"enum", "match", "insert"} => searched'
    BY <1>2, <2>1, UIFacts DEF SearchOK
  <2>4. /\ ui' # <<>> /\ Head(ui') = "mode" => searched'
        /\ ui' # <<>> /\ Head(ui') = "set" => ~IsSearchMode'
    BY <1>2, UIFacts
  <2> QED BY <2>2, <2>3, <2>4 DEF SearchOK
<1>3. CASE Worker
  <2>1. UNCHANGED <<ui, IsSearchMode, searched>>
    BY <1>3, OthersFacts
  <2>2. isCurrent' /\ pc' \in {"enum", "match", "insert"} =>
          isCurrent /\ (pc \in {"enum", "match", "insert"} \/ IsSearchMode)
    BY <1>3 DEF Worker, TestExit, GetFolder, LeaveOut, ClearAbort, ChooseSearch, ChooseThumbs, EnumNext, DoMatch,
       InsertThumb, EndSearch, LoadJobBegin, LoadImage, LoadJobEnd, EndThumbs, WakeForChange, WakeForExit,
       Goto, place
  <2> QED BY <2>1, <2>2 DEF SearchOK
<1>4. CASE Waiter \/ WriteFile \/ UNCHANGED vars
  <2>1. UNCHANGED <<pc, isCurrent>>
    BY <1>4 DEF Waiter, WriteFile, vars, scan, place
  <2> QED BY <1>4, <2>1, OthersFacts DEF SearchOK
<1> QED BY <1>1, <1>2, <1>3, <1>4 DEF Next

(***************************************************************************)
(* Thumbnails marked as loading.                                           *)
(***************************************************************************)
LEMMA LoadingStep ==
  ASSUME FlagTypes, ThreadTypes, DataTypes, LoadingOK, [Next]_vars
  PROVE  LoadingOK'
<1>1. CASE UNCHANGED <<place, scan>>
  BY <1>1 DEF place, scan, LoadingOK, InHand
<1>2. CASE (DeleteAllThumbs \/ Refresh \/ ResetLoadedFlag) /\ UNCHANGED <<disk, scan>>
  <2>1. /\ UNCHANGED <<old, isCurrent, pc>>
        /\ job' = job \/ job' = [job EXCEPT !.live = FALSE]
        /\ ~isCurrent \/ (\E t \in folder'.thumbs : t.file = job.file /\ t.n = job.n) => job' = job
        /\ \A t \in folder'.thumbs : t.loading =>
             \E u \in folder.thumbs : u.loading /\ u.file = t.file /\ u.n = t.n
    BY <1>2, UIThumbsFacts DEF scan
  <2>2. ASSUME NEW t \in folder'.thumbs, t.loading PROVE isCurrent' /\ InHand(t)'
    <3>1. PICK u \in folder.thumbs : u.loading /\ u.file = t.file /\ u.n = t.n
      BY <2>1, <2>2
    <3>2. isCurrent /\ InHand(u)
      BY <3>1 DEF LoadingOK
    <3>3. job' = job
      BY <2>1, <3>1, <3>2 DEF InHand
    <3> QED BY <2>1, <3>1, <3>2, <3>3 DEF InHand
  <2>3. ASSUME NEW t \in old', t.loading PROVE ~isCurrent' /\ InHand(t)'
    <3>1. ~isCurrent /\ InHand(t)
      BY <2>1, <2>3 DEF LoadingOK
    <3> QED BY <2>1, <3>1 DEF InHand
  <2> QED BY <2>2, <2>3 DEF LoadingOK
<1>3. CASE SetFolder /\ UNCHANGED <<disk, scan>>
  <2>1. /\ job' = job /\ ~isCurrent' /\ pc' = pc
        /\ old' = IF isCurrent THEN folder.thumbs ELSE old
        /\ \A t \in folder'.thumbs : ~t.loading
    BY <1>3, SetFolderFacts DEF scan
  <2> QED BY <2>1 DEF LoadingOK, InHand
<1>4. CASE Worker /\ UNCHANGED disk /\ pc \notin {"load", "jobend"}
  <2>1. \A t \in folder.thumbs \cup old : ~t.loading
    BY <1>4 DEF LoadingOK, InHand
  <2>2. CASE LoadJobBegin
    <3>1. PICK t \in Mine : /\ SetMine(Begun(t, Mine))
                            /\ job' = [file |-> t.file, n |-> t.n, live |-> TRUE]
      BY <2>2 DEF LoadJobBegin, Begun
    <3>2. /\ Begun(t, Mine) \in ThumbSets
          /\ \A s \in Begun(t, Mine) : s \in Mine \/ (s.file = t.file /\ s.n = t.n)
      BY MineFacts, BegunFacts
    <3>4. \A s \in Begun(t, Mine) : s.loading => InHand(s)'
      <4>1. pc' = "load" /\ job'.live /\ job'.file = t.file /\ job'.n = t.n
        BY <2>2, <3>1 DEF LoadJobBegin, Goto
      <4> QED BY <2>1, <3>2, <4>1 DEF InHand, Mine
    <3>5. /\ isCurrent => folder'.thumbs = Begun(t, Mine) /\ old' = old
          /\ ~isCurrent => folder' = folder /\ old' = Begun(t, Mine)
      BY <1>4, <3>1, <3>2, SetMineFacts
    <3>6. isCurrent' = isCurrent
      BY <2>2 DEF LoadJobBegin
    <3> QED BY <2>1, <3>4, <3>5, <3>6 DEF LoadingOK
  <2>3. CASE InsertThumb
    <3>1. \E new \in Thumbs :
            /\ new.file = found.file /\ ~new.loading
            /\ isCurrent => folder'.thumbs = folder.thumbs \cup {new} /\ old' = old
            /\ ~isCurrent => folder' = folder /\ old' = old \cup {new}
      BY <1>4, <2>3, InsertedFacts
    <3> QED BY <2>1, <3>1 DEF LoadingOK
  <2>4. CASE ~LoadJobBegin /\ ~InsertThumb
    <3>1. folder' = folder /\ (old' = old \/ old' = {})
      BY <1>4, <2>4 DEF Worker, TestExit, GetFolder, LeaveOut, ClearAbort, ChooseSearch, ChooseThumbs, EnumNext, DoMatch,
         EndSearch, LoadImage, LoadJobEnd, EndThumbs, WakeForChange, WakeForExit, Goto, place
    <3> QED BY <2>1, <3>1 DEF LoadingOK
  <2> QED BY <2>2, <2>3, <2>4
<1>5. CASE Worker /\ UNCHANGED disk /\ pc = "load"
  <2>1. LoadImage
    BY <1>5 DEF Worker, TestExit, GetFolder, LeaveOut, ClearAbort, ChooseSearch, ChooseThumbs, EnumNext, DoMatch,
       InsertThumb, EndSearch, LoadJobBegin, LoadJobEnd, EndThumbs, WakeForChange, WakeForExit, Goto
  <2>2. UNCHANGED <<folder, old, isCurrent, job>> /\ pc' = "jobend"
    BY <2>1 DEF LoadImage, Goto, place
  <2> QED BY <1>5, <2>2 DEF LoadingOK, InHand
<1>6. CASE Worker /\ UNCHANGED disk /\ pc = "jobend"
  <2>1. LoadJobEnd
    BY <1>6 DEF Worker, TestExit, GetFolder, LeaveOut, ClearAbort, ChooseSearch, ChooseThumbs, EnumNext, DoMatch,
       InsertThumb, EndSearch, LoadJobBegin, LoadImage, EndThumbs, WakeForChange, WakeForExit, Goto
  <2>2. SetMine(Ended(Mine)) /\ isCurrent' = isCurrent
    BY <2>1 DEF LoadJobEnd, Goto, ThreadTypes, Ended
  <2>3. /\ Ended(Mine) \in ThumbSets
        /\ \A s \in Ended(Mine) : s.loading => s \in Mine /\ ~(job.live /\ s.file = job.file /\ s.n = job.n)
    BY <2>2, MineFacts, EndedFacts
  <2>4. \A s \in Ended(Mine) : ~s.loading
    BY <2>3 DEF Mine, LoadingOK, InHand
  <2>5. /\ isCurrent => folder'.thumbs = Ended(Mine) /\ old' = old
        /\ ~isCurrent => folder' = folder /\ old' = Ended(Mine)
    BY <1>6, <2>2, <2>3, SetMineFacts
  <2> QED BY <2>2, <2>4, <2>5 DEF LoadingOK
<1> QED BY <1>1, <1>2, <1>3, <1>4, <1>5, <1>6, StepCases

(***************************************************************************)
(* The files of a folder.                                                  *)
(***************************************************************************)
Shown(d, thumbs) ==
  /\ \A t \in thumbs : t.file \in Listing[d]
  /\ \A f \in Listing[d] : Single(f, thumbs)

LEMMA FilesStep ==
  ASSUME FlagTypes, ThreadTypes, DataTypes, SearchOK, FilesOK, [Next]_vars
  PROVE  FilesOK'
<1>s. FilesOK <=> (~searched => Shown(folder.dir, folder.thumbs))
  BY DEF FilesOK, Shown
<1>t. FilesOK' <=> (~searched' => Shown(folder'.dir, folder'.thumbs))
  BY DEF FilesOK, Shown
<1>m. folder.dir \in Dirs /\ folder.thumbs \in ThumbSets
  BY MineFacts
<1>1. CASE UNCHANGED <<place, scan>>
  BY <1>1, <1>s, <1>t DEF place
<1>2. CASE DeleteAllThumbs
  BY <1>2, <1>t DEF DeleteAllThumbs
<1>3. CASE Refresh /\ UNCHANGED <<disk, scan>>
  <2>k. PICK kept \in SUBSET folder.thumbs : SetThumbs(Refreshed(folder.dir, kept))
    BY <1>3 DEF Refresh
  <2>l. kept \in ThumbSets
    BY <1>m, FS_Subset DEF ThumbSets
  <2> DEFINE after == Refreshed(folder.dir, kept)
  <2>1. after \in ThumbSets /\ Shown(folder.dir, after)
    BY <1>m, <2>l, RefreshedFacts DEF Shown
  <2>2. SetThumbs(after)
    BY <2>k
  <2> HIDE DEF after
  <2>3. folder' = [dir |-> folder.dir, thumbs |-> after]
    BY <1>3, <2>1, <2>2, SetThumbsFacts
  <2>4. folder'.dir = folder.dir /\ folder'.thumbs = after
    BY <2>3
  <2> QED BY <1>t, <2>1, <2>4
<1>4. CASE ResetLoadedFlag /\ UNCHANGED <<disk, scan>>
  <2>2. SetThumbs(Stripped(folder.thumbs)) /\ searched' = searched
    BY <1>4 DEF ResetLoadedFlag, Stripped
  <2>1. /\ Stripped(folder.thumbs) \in ThumbSets
        /\ \A t \in Stripped(folder.thumbs) :
             \E u \in folder.thumbs : u.file = t.file /\ u.n = t.n /\ u.loading = t.loading
        /\ \A f : Single(f, folder.thumbs) => Single(f, Stripped(folder.thumbs))
    BY <1>m, StrippedFacts
  <2>3. folder' = [dir |-> folder.dir, thumbs |-> Stripped(folder.thumbs)]
    BY <1>4, <2>1, <2>2, SetThumbsFacts
  <2>4. folder'.dir = folder.dir /\ folder'.thumbs = Stripped(folder.thumbs)
    BY <2>3
  <2>5. Shown(folder.dir, folder.thumbs) => Shown(folder.dir, Stripped(folder.thumbs))
    BY <2>1 DEF Shown
  <2> QED BY <1>s, <1>t, <2>2, <2>4, <2>5
<1>5. CASE SetFolder /\ UNCHANGED <<disk, scan>>
  BY <1>5, <1>t, SetFolderFacts DEF Shown
<1>6. CASE Worker /\ UNCHANGED disk
  <2>1. searched' = searched
    BY <1>6, OthersFacts
  <2>2. CASE InsertThumb
    <3>1. isCurrent => searched
      BY <2>2 DEF InsertThumb, Goto, SearchOK
    <3>2. ~isCurrent => folder' = folder
      BY <1>6, <2>2, InsertedFacts
    <3> QED BY <1>s, <1>t, <2>1, <3>1, <3>2
  <2>3. CASE LoadJobBegin
    <3>1. PICK t \in Mine : SetMine(Begun(t, Mine))
      BY <2>3 DEF LoadJobBegin, Begun
    <3>2. /\ Begun(t, Mine) \in ThumbSets
          /\ \A s \in Begun(t, Mine) : \E u \in Mine : u.file = s.file
          /\ \A f : Single(f, Mine) => Single(f, Begun(t, Mine))
      BY MineFacts, BegunFacts
    <3>3. /\ folder'.dir = folder.dir
          /\ isCurrent => folder'.thumbs = Begun(t, Mine)
          /\ ~isCurrent => folder' = folder
      BY <1>6, <3>1, <3>2, SetMineFacts
    <3>4. isCurrent /\ Shown(folder.dir, folder.thumbs) => Shown(folder.dir, Begun(t, Mine))
      BY <3>2 DEF Shown, Mine
    <3> QED BY <1>s, <1>t, <2>1, <3>3, <3>4
  <2>4. CASE LoadJobEnd
    <3>1. SetMine(Ended(Mine))
      BY <2>4 DEF LoadJobEnd, Goto, ThreadTypes, Ended
    <3>2. /\ Ended(Mine) \in ThumbSets
          /\ \A s \in Ended(Mine) : \E u \in Mine : u.file = s.file
          /\ \A f : Single(f, Mine) => Single(f, Ended(Mine))
      BY <3>1, MineFacts, EndedFacts
    <3>3. /\ folder'.dir = folder.dir
          /\ isCurrent => folder'.thumbs = Ended(Mine)
          /\ ~isCurrent => folder' = folder
      BY <1>6, <3>1, <3>2, SetMineFacts
    <3>4. isCurrent /\ Shown(folder.dir, folder.thumbs) => Shown(folder.dir, Ended(Mine))
      BY <3>2 DEF Shown, Mine
    <3> QED BY <1>s, <1>t, <2>1, <3>3, <3>4
  <2>5. CASE ~InsertThumb /\ ~LoadJobBegin /\ ~LoadJobEnd
    <3>1. folder' = folder
      BY <1>6, <2>5 DEF Worker, TestExit, GetFolder, LeaveOut, ClearAbort, ChooseSearch, ChooseThumbs, EnumNext, DoMatch,
         EndSearch, LoadImage, EndThumbs, WakeForChange, WakeForExit, place
    <3> QED BY <1>s, <1>t, <2>1, <3>1
  <2> QED BY <2>2, <2>3, <2>4, <2>5
<1> QED BY <1>1, <1>2, <1>3, <1>4, <1>5, <1>6, StepCases

(***************************************************************************)
(* The round of the thread, when nobody asks it for anything else.         *)
(***************************************************************************)
LEMMA WorkerRound ==
  ASSUME FlagTypes, ThreadTypes, DataTypes, ExitOK, LoadingOK, Round, Worker, ~_eventExit
  PROVE  Round'
<1>1. UNCHANGED <<IsSearchMode, _searchSpec>> /\ ~_bExit
  BY OthersFacts DEF ExitOK
<1>2. ~TestExit /\ ~WakeForExit
  BY <1>1 DEF TestExit, WakeForExit
<1>3. CASE GetFolder
  BY <1>3 DEF GetFolder, Goto, Round
<1>4. CASE ClearAbort /\ UNCHANGED missed
  BY <1>4 DEF ClearAbort, Goto, place, Round
<1>5. CASE ChooseSearch /\ UNCHANGED missed
  <2>1. /\ pc = "choose" /\ pc' = "enum" /\ IsSearchMode
        /\ UNCHANGED <<folder, isCurrent, _bAbort>>
    BY <1>5 DEF ChooseSearch, Goto, place
  <2>2. isCurrent /\ ~_bAbort
    BY <2>1 DEF Round
  <2>3. todo' = Tree[folder.dir]
    BY <1>5, <2>2 DEF ChooseSearch
  <2>4. \A f \in Wanted' : f \in todo'
    BY <1>5, <2>1, <2>3 DEF Wanted
  <2> QED BY <1>1, <2>1, <2>2, <2>4 DEF Round
<1>6. CASE ChooseThumbs /\ UNCHANGED missed
  BY <1>1, <1>6 DEF ChooseThumbs, Goto, place, Round
<1>7. CASE EnumNext /\ UNCHANGED missed
  <2>1. /\ pc = "enum" /\ pc' = "match"
        /\ UNCHANGED <<folder, isCurrent, _bAbort>>
    BY <1>7 DEF EnumNext, Goto, place
  <2>2. PICK g \in todo : found' = [file |-> g, time |-> disk[g]] /\ todo' = todo \ {g}
    BY <1>7 DEF EnumNext
  <2>3. \A f \in Wanted : f \in todo \/ Has(f)
    BY <2>1 DEF Round
  <2>4. Wanted' = Wanted /\ \A f : Has(f)' <=> Has(f)
    BY <1>1, <1>7, <2>1 DEF Wanted, Has
  <2>5. \A f \in Wanted' : f \in todo' \/ Has(f)' \/ f = found'.file
    BY <2>2, <2>3, <2>4
  <2> QED BY <1>1, <2>1, <2>5 DEF Round
<1>8. CASE DoMatch /\ UNCHANGED missed
  <2>1. /\ pc = "match" /\ UNCHANGED <<folder, isCurrent, _bAbort, todo>>
        /\ pc' = IF found.file \in Matching[_searchSpec] THEN "insert" ELSE "enum"
        /\ found.file \in Matching[_searchSpec] => found' = found
    BY <1>8 DEF DoMatch, Goto, place
  <2>2. \A f \in Wanted : f \in todo \/ Has(f) \/ f = found.file
    BY <2>1 DEF Round
  <2>3. Wanted' = Wanted /\ \A f : Has(f)' <=> Has(f)
    BY <1>1, <1>8, <2>1 DEF Wanted, Has
  <2>4. \A f \in Wanted' : f \in todo' \/ Has(f)' \/ (pc' # "enum" /\ f = found'.file)
    BY <2>1, <2>2, <2>3 DEF Wanted
  <2> QED BY <1>1, <2>1, <2>4 DEF Round
<1>9. CASE InsertThumb /\ UNCHANGED missed
  <2>1. pc = "insert" /\ pc' = "enum" /\ UNCHANGED <<isCurrent, _bAbort, todo, disk>>
    BY <1>9 DEF InsertThumb, Goto, Worker
  <2>2. isCurrent /\ \A f \in Wanted : f \in todo \/ Has(f) \/ f = found.file
    BY <2>1 DEF Round
  <2>3. /\ folder'.dir = folder.dir
        /\ \E new \in Thumbs :
             /\ new.file = found.file /\ ~new.loading
             /\ isCurrent => folder'.thumbs = folder.thumbs \cup {new} /\ old' = old
             /\ ~isCurrent => folder' = folder /\ old' = old \cup {new}
    BY <1>9, <2>1, InsertedFacts
  <2>4. Wanted' = Wanted /\ \A f : Has(f) \/ f = found.file => Has(f)'
    BY <1>1, <1>9, <2>2, <2>3 DEF Wanted, Has
  <2>5. \A f \in Wanted' : f \in todo' \/ Has(f)'
    BY <2>1, <2>2, <2>4
  <2> QED BY <1>1, <2>1, <2>5 DEF Round
<1>10. CASE EndSearch /\ UNCHANGED missed
  <2>1. pc = "enum" /\ pc' = "wait" /\ UNCHANGED <<folder, isCurrent, _bAbort>>
    BY <1>10 DEF EndSearch, Goto, place
  <2>2. IsSearchMode /\ isCurrent /\ ~_bAbort
    BY <2>1 DEF Round
  <2>3. \A f \in Wanted : Has(f)
    BY <1>1, <1>10, <2>1, <2>2 DEF EndSearch, GoesOn, Round
  <2>4. Wanted' = Wanted /\ \A f : Has(f)' <=> Has(f)
    BY <1>1, <1>10, <2>1 DEF Wanted, Has
  <2>5. \A f \in Wanted' : Has(f)'
    BY <2>3, <2>4
  <2>6. IsSearchMode' /\ isCurrent' /\ ~_bAbort' /\ pc' = "wait"
    BY <1>1, <2>1, <2>2
  <2> QED BY <2>5, <2>6 DEF Round
<1>11. CASE LoadJobBegin \/ LoadImage \/ LoadJobEnd
  <2>1. /\ pc \in {"next", "load", "jobend"} /\ pc' \in {"next", "load", "jobend"}
        /\ UNCHANGED <<isCurrent, _bAbort>>
    BY <1>11 DEF LoadJobBegin, LoadImage, LoadJobEnd, Goto, place
  <2> QED BY <1>1, <2>1 DEF Round
<1>12. CASE EndThumbs /\ UNCHANGED missed
  <2>1. pc = "next" /\ pc' = "wait" /\ UNCHANGED <<folder, isCurrent, _bAbort>>
    BY <1>12 DEF EndThumbs, Goto, place
  <2>2. isCurrent /\ ~_bAbort /\ ~IsSearchMode
    BY <2>1 DEF Round
  <2>3. \A t \in folder.thumbs : t.loaded \/ t.loading
    BY <1>1, <1>12, <2>2 DEF EndThumbs, Mine
  <2>4. \A t \in folder.thumbs : t.loaded
    BY <2>1, <2>3 DEF LoadingOK, InHand
  <2> QED BY <1>1, <2>1, <2>2, <2>4 DEF Round
<1>13. CASE LeaveOut
  <2>1. pc = "enum" /\ pc' = "enum" /\ UNCHANGED <<folder, isCurrent, _bAbort>>
    BY <1>13 DEF LeaveOut, place
  <2>2. isCurrent /\ GoesOn /\ \A f \in Wanted : f \in todo \/ Has(f)
    BY <1>1, <2>1 DEF GoesOn, Round
  <2>3. PICK portion :
          todo' = todo \ portion /\ missed' = missed \cup (portion \cap todo)
    BY <1>13, <2>2 DEF LeaveOut
  <2>4. /\ \A f \in Wanted' : f \in Wanted /\ (f \in todo => f \in todo')
        /\ \A f : Has(f)' <=> Has(f)
    BY <1>1, <2>1, <2>3 DEF Wanted, Has
  <2>5. \A f \in Wanted' : f \in todo' \/ Has(f)'
    BY <2>2, <2>4
  <2> QED BY <1>1, <2>1, <2>2, <2>5 DEF Round, GoesOn
<1>14. CASE WakeForChange
  BY <1>14 DEF WakeForChange, Goto, Round
<1> QED
  BY <1>2, <1>3, <1>4, <1>5, <1>6, <1>7, <1>8, <1>9, <1>10, <1>11, <1>12, <1>13, <1>14 DEF Worker

LEMMA RoundStep ==
  ASSUME FlagTypes, ThreadTypes, DataTypes, ExitOK, LoadingOK, RoundOK, [Next]_vars
  PROVE  RoundOK'
<1> SUFFICES ASSUME Quiet' PROVE Round'
  BY DEF RoundOK
<1>1. ASSUME UNCHANGED <<place, scan, IsSearchMode, _searchSpec, _bAbort>>, Round PROVE Round'
  BY <1>1 DEF Round, Wanted, Has, place, scan
<1>2. CASE User
  <2>1. ui = <<>> /\ ui' = <<>>
    BY <1>2, UserTurnFacts DEF Quiet
  <2>2. UNCHANGED <<place, scan, IsSearchMode, _searchSpec, _bAbort, _eventFolderChange, _eventExit>>
    BY <1>2, <2>1, UserTurnFacts
  <2>3. Quiet
    BY <2>1, <2>2 DEF Quiet
  <2> QED BY <1>1, <2>2, <2>3 DEF RoundOK
<1>3. CASE UIContinues
  <2>1. ui' = <<>> /\ ~_eventFolderChange' /\ ~_eventExit'
    BY DEF Quiet
  <2>2. ui = <<"stop">> /\ UNCHANGED _eventExit
    BY <1>3, <2>1, UIFacts
  <2> QED BY <2>1, <2>2 DEF ExitOK
<1>4. CASE Worker
  <2>1. UNCHANGED <<ui, _eventExit>>
    BY <1>4, OthersFacts
  <2>2. CASE WakeForChange
    BY <2>2 DEF WakeForChange, Goto, Round
  <2>3. CASE ~WakeForChange
    <3>1. UNCHANGED _eventFolderChange
      BY <1>4, <2>3 DEF Worker, TestExit, GetFolder, LeaveOut, ClearAbort, ChooseSearch, ChooseThumbs, EnumNext, DoMatch,
         InsertThumb, EndSearch, LoadJobBegin, LoadImage, LoadJobEnd, EndThumbs, WakeForExit
    <3>2. Quiet /\ ~_eventExit
      BY <2>1, <3>1 DEF Quiet
    <3> QED BY <1>4, <3>2, WorkerRound DEF RoundOK
  <2> QED BY <2>2, <2>3
<1>5. CASE Waiter \/ WriteFile \/ UNCHANGED vars
  <2>1. UNCHANGED <<place, scan, IsSearchMode, _searchSpec, _bAbort, ui, _eventFolderChange, _eventExit>>
    <3>1. UNCHANGED <<ui, _eventExit, IsSearchMode, _searchSpec>>
      BY <1>5, OthersFacts
    <3>2. UNCHANGED <<place, scan, _bAbort, _eventFolderChange>>
      BY <1>5 DEF Waiter, WriteFile, vars, events
    <3> QED BY <3>1, <3>2
  <2>2. Quiet
    BY <2>1 DEF Quiet
  <2> QED BY <1>1, <2>1, <2>2 DEF RoundOK
<1> QED BY <1>2, <1>3, <1>4, <1>5 DEF Next

(***************************************************************************)
(* The theorems.                                                           *)
(***************************************************************************)
LEMMA Step == IInv /\ [Next]_vars => IInv'
<1> SUFFICES ASSUME IInv, [Next]_vars PROVE IInv'
  OBVIOUS
<1> USE DEF IInv
<1>1. FlagTypes' /\ ThreadTypes' /\ DataTypes'
  BY FlagsStep, DataStep
<1>2. ExitOK' /\ SearchOK'
  BY ExitStep, SearchStep
<1>3. LoadingOK' /\ RoundOK' /\ FilesOK'
  BY LoadingStep, RoundStep, FilesStep
<1> QED BY <1>1, <1>2, <1>3

\* A round of the thread is always about the folder and the search of now unless it has
\* been asked to begin again, no thumbnail stays marked as loading, and results are
\* inserted only in folders that were searched in.
THEOREM InductiveInvariant == Spec => []IInv
BY Beginning, Step, PTL DEF Spec

\* Every variable keeps its type: the thread ends every search with nothing in hand,
\* and whatever happens to a folder its thumbnails are those of files.
THEOREM TypesHold == Spec => []TypeOK
<1>1. Plans \subseteq Seq({"abort", "leave", "delete", "mode", "searching", "start", "set", "undue",
                           "refresh", "strip", "reset", "stop"})
  BY DEF Plans
<1>2. ASSUME IInv PROVE TypeOK
  <2>1. /\ disk \in [Files -> Versions] /\ folder.dir \in Dirs
        /\ folder.thumbs \in SUBSET Thumbs /\ old \in SUBSET Thumbs
    BY <1>2 DEF IInv, DataTypes, ThumbSets
  <2>2. found = NotFound \/ (found.file \in Files /\ found.time \in Versions)
    BY <1>2 DEF IInv, ThreadTypes
  <2>3. job = NoJob \/ job.file \in Files
    BY <1>2 DEF IInv, ThreadTypes
  <2>4. /\ todo \in SUBSET Files /\ missed \in SUBSET Files
        /\ pc \in {"top", "clear", "choose", "enum", "match", "insert", "next", "load",
                   "jobend", "wait", "done"}
    BY <1>2 DEF IInv, ThreadTypes
  <2>5. {searched, IsSearchMode, IsSearching, IsThumbnailing, refreshDue, _bAbort, _bPause, _bExit,
         _eventExit, _eventFolderChange, _eventWatch, isCurrent, changed} \subseteq BOOLEAN
    BY <1>2 DEF IInv, FlagTypes
  <2>6. _searchSpec \in Specs \cup {NoSpec} /\ watched \in Dirs \cup {NoDir} /\ ops \in 0 .. MaxOps /\ ui \in Plans
    BY <1>2 DEF IInv, FlagTypes
  <2> QED BY <1>1, <2>1, <2>2, <2>3, <2>4, <2>5, <2>6 DEF TypeOK
<1> QED BY <1>2, InductiveInvariant, PTL

\* When the thread comes to rest outside search mode, every thumbnail of the open folder
\* has its image, however the steps of the two threads interleave: a thumbnail marked as
\* loading is always in the thread's hand, and an abort that `_bAbort = false` forgets
\* comes with an event that wakes the thread again.
THEOREM ThumbsAreLoaded == Spec => []EveryThumbIsLoaded
<1>1. IInv => EveryThumbIsLoaded
  BY DEF IInv, EveryThumbIsLoaded, Rest, RoundOK, Quiet, Round
<1> QED BY <1>1, InductiveInvariant, PTL

\* When the thread comes to rest in search mode, the folder holds everything that matches
\* what was last searched for, although the criteria are read without a lock, except what
\* this search has left out at an item or a directory that the shell failed to read.
THEOREM SearchesAreComplete == Spec => []SearchIsComplete
<1>1. IInv => SearchIsComplete
  BY DEF IInv, SearchIsComplete, Rest, RoundOK, Quiet, Round, Wanted, Has
<1> QED BY <1>1, InductiveInvariant, PTL

\* A folder that was never searched in shows each of its files once and nothing else:
\* the results of a search go to the folder they were found in, and a refresh keeps one
\* thumbnail for each file.
THEOREM FilesAreShown == Spec => []ShowsItsFiles
<1>1. ASSUME IInv PROVE ShowsItsFiles
  <2>1. \A f, t : OfFile(f, folder.thumbs) = {t} => Cardinality(OfFile(f, folder.thumbs)) = 1
    BY FS_Singleton
  <2> QED BY <1>1, <2>1 DEF IInv, FilesOK, Single, ShowsItsFiles
<1> QED BY <1>1, InductiveInvariant, PTL
=============================================================================
