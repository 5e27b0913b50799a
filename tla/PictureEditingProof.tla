------------------------ MODULE PictureEditingProof ------------------------
(***************************************************************************)
(* Proofs about PictureEditing, for every set of files and every bound.    *)
(***************************************************************************)
EXTENDS PictureEditing, SequenceTheorems, FiniteSetTheorems, TLAPS

(***************************************************************************)
(* The inductive invariant.                                                *)
(***************************************************************************)
Editors == {"edit", "undo", "sheet"}
Callers == {"query", "format", "saveas", "failed", "changed", "metadata"}

\* The undo list of a view: few versions, each older than the next.
Chain(v) ==
  /\ Len(v._arUndo) <= MaxUndo + 1
  /\ \A i, j \in 1 .. Len(v._arUndo) : i < j => v._arUndo[i].image.n < v._arUndo[j].image.n
  /\ \A i \in 1 .. Len(v._arUndo) :
       v._image # NoPicture /\ v._arUndo[i].image.n < v._image.n

\* Only a picture that came from no file has no plug-in, and so have its versions.
KeyOK(v) ==
  v._path = NoPath =>
    /\ v._image # NoPicture => ~v._image.key
    /\ \A i \in 1 .. Len(v._arUndo) : ~v._arUndo[i].image.key

\* The pictures a view knows have numbers up to m; without a picture there is
\* nothing to save and nothing to undo.
ViewOK(v, m) ==
  /\ v \in ImageState
  /\ Chain(v)
  /\ KeyOK(v)
  /\ v._image # NoPicture => v._image.n <= m
  /\ v._image = NoPicture => v._path = NoPath /\ ~v._bDirty
  /\ v._path = NoPath => ~v.touched

ThenOK(then, m) ==
  /\ then \in Then
  /\ then.do = "show" => then.info._image # NoPicture /\ then.info._image.n <= m

\* What a box remembers was a view.
OpenedOK(o, m) == o \in Opened /\ Chain(o) /\ o._image.n <= m

BoxOK(box, m) ==
  /\ box \in Boxes
  /\ box.kind \in Callers => ThenOK(box.then, m)
  /\ box.kind = "metadata" => box.path \in Paths
  /\ box.kind \in Editors => OpenedOK(box.opened, m)
  /\ box.kind = "undo" => box.opened._arUndo # <<>>

\* An editor is opened by a command, that is before any other box.
StackOK(bs, m) ==
  /\ bs \in Seq(Boxes)
  /\ \A i \in 1 .. Len(bs) : BoxOK(bs[i], m)
  /\ \A i \in 2 .. Len(bs) : bs[i].kind \in Callers

Edits(bs) == bs # <<>> /\ bs[1].kind \in Editors

\* No version has a plug-in.
Unnamed(o) == \A i \in 1 .. Len(o._arUndo) : ~o._arUndo[i].image.key

\* Boxes are about a picture, and the box of the timer about one with a file.  Under
\* the undo box the undo list stays or is emptied, and then the picture is that of a
\* file.
Fits(v, bs) ==
  /\ bs # <<>> => v._image # NoPicture
  /\ \A i \in 1 .. Len(bs) : bs[i].kind = "changed" => v._path # NoPath
  /\ bs # <<>> /\ bs[1].kind = "undo" =>
       /\ v._arUndo \in {bs[1].opened._arUndo, <<>>}
       /\ v._path = NoPath => Unnamed(bs[1].opened)

\* Until the user asks for another picture an editor has only refreshes above it,
\* and the loader is stopped.
Stays(v, bs, r) ==
  Edits(bs) /\ ~r =>
    /\ v._bStopped
    /\ v._image = bs[1].opened._image
    /\ v._arUndo = bs[1].opened._arUndo
    /\ \A i \in 2 .. Len(bs) : bs[i].kind = "changed"

\* The pictures on the disk and in the message queue have numbers up to m.
DiskOK(d, m) ==
  /\ d \in [Paths -> Picture \cup {NoPicture}]
  /\ \A p \in Paths : d[p] # NoPicture => d[p].n <= m

AnswersOK(a, m) ==
  /\ a \in Seq(CImageLoad)
  /\ \A i \in 1 .. Len(a) : a[i]._image # NoPicture => a[i]._image.n <= m

RestOK ==
  /\ m_bAutoSave \in BOOLEAN
  /\ request \in NoName
  /\ running \in BOOLEAN
  /\ made \in 0 .. MaxPictures
  /\ ops \in 0 .. MaxOps
  /\ replaced \in BOOLEAN

ShownOK == ViewOK(Image, made)
StackedOK == StackOK(boxes, made)

IInv ==
  /\ RestOK
  /\ DiskOK(disk, made)
  /\ AnswersOK(answers, made)
  /\ ShownOK
  /\ StackedOK
  /\ Fits(Image, boxes)
  /\ Stays(Image, boxes, replaced)

(***************************************************************************)
(* What the operations on a view keep.                                     *)
(***************************************************************************)
LEMMA PictureFacts ==
  /\ NoPicture \notin Picture
  /\ NoPath \notin Paths
  /\ MaxUndo \in Nat /\ MaxPictures \in Nat /\ MaxOps \in Nat
  /\ \A picture \in Picture : picture.n \in 1 .. MaxPictures /\ picture.key \in BOOLEAN
<1>1. \A picture \in Picture : picture.n \in 1 .. MaxPictures /\ picture.key \in BOOLEAN
  BY DEF Picture
<1>2. Picture \subseteq [n : Nat, key : BOOLEAN]
  BY EditingAssumption DEF Picture
<1> QED BY <1>1, <1>2, EditingAssumption

LEMMA ViewFields ==
  ASSUME NEW v \in ImageState
  PROVE  /\ v._image \in Picture \cup {NoPicture}
         /\ v._path \in NoName
         /\ v._bDirty \in BOOLEAN /\ v._bStopped \in BOOLEAN /\ v.touched \in BOOLEAN
         /\ v._arUndo \in Seq(CUndo)
         /\ v.onFile \in Picture \cup {NoPicture}
  BY DEF ImageState

LEMMA EntryFields ==
  ASSUME NEW e \in CUndo
  PROVE  e.image \in Picture /\ e._bDirty \in BOOLEAN
  BY DEF CUndo

\* Two views with the same pictures, file and undo list.
SameMemory(w, v) == w._image = v._image /\ w._path = v._path /\ w._arUndo = v._arUndo

LEMMA SameMemoryOK ==
  ASSUME NEW v, NEW m \in Nat, ViewOK(v, m), NEW w \in ImageState, SameMemory(w, v),
         w._image = NoPicture => ~w._bDirty, w._path = NoPath => ~w.touched
  PROVE  ViewOK(w, m)
  BY DEF ViewOK, Chain, KeyOK, SameMemory

\* A view that shows a picture of a file anew.
LEMMA SetImageOK ==
  ASSUME NEW v \in ImageState, NEW m \in Nat,
         NEW picture \in Picture \cup {NoPicture}, NEW path \in NoName,
         picture # NoPicture => picture.n <= m,
         path = NoPath => picture = NoPicture \/ ~picture.key,
         picture = NoPicture => path = NoPath
  PROVE  /\ ViewOK(SetImage(v, picture, path), m)
         /\ SetImage(v, picture, path)._image = picture
         /\ SetImage(v, picture, path)._path = path
         /\ SetImage(v, picture, path)._arUndo = <<>>
         /\ ~SetImage(v, picture, path)._bDirty
         /\ SetImage(v, picture, path).onFile = picture
<1> DEFINE w == SetImage(v, picture, path)
<1>1. /\ w._image = picture /\ w._path = path /\ w._bDirty = FALSE /\ w._arUndo = <<>>
      /\ w.touched = FALSE /\ w.onFile = picture
  BY DEF SetImage, ImageState
<1>2. <<>> \in Seq(CUndo) /\ Len(<<>>) = 0
  OBVIOUS
<1>3. w \in ImageState
  BY <1>2 DEF SetImage, ImageState
<1> HIDE DEF w
<1>4. Chain(w)
  BY <1>1, <1>2, PictureFacts DEF Chain
<1>5. KeyOK(w)
  BY <1>1, <1>2, PictureFacts DEF KeyOK
<1>6. ViewOK(w, m)
  BY <1>1, <1>3, <1>4, <1>5 DEF ViewOK
<1> QED BY <1>1, <1>6 DEF w

\* Paused, Listening, and a file that has changed.
LEMMA PausedOK ==
  ASSUME NEW v, NEW m \in Nat, ViewOK(v, m)
  PROVE  /\ ViewOK(Paused(v), m)
         /\ SameMemory(Paused(v), v)
         /\ Paused(v)._bDirty = v._bDirty /\ Paused(v).onFile = v.onFile
         /\ Paused(v)._bStopped
<1> DEFINE w == Paused(v)
<1>1. v \in ImageState
  BY DEF ViewOK
<1>2. /\ SameMemory(w, v) /\ w._bDirty = v._bDirty /\ w.onFile = v.onFile
      /\ w.touched = v.touched /\ w._bStopped = TRUE
  BY <1>1 DEF Paused, ImageState, SameMemory
<1>3. w \in ImageState
  BY <1>1 DEF Paused, ImageState
<1> HIDE DEF w
<1>4. (w._image = NoPicture => ~w._bDirty) /\ (w._path = NoPath => ~w.touched)
  BY <1>2 DEF ViewOK, SameMemory
<1>5. ViewOK(w, m)
  BY <1>2, <1>3, <1>4, SameMemoryOK
<1> QED BY <1>2, <1>5 DEF w

LEMMA ListeningOK ==
  ASSUME NEW v, NEW m \in Nat, ViewOK(v, m)
  PROVE  /\ ViewOK(Listening(v), m)
         /\ SameMemory(Listening(v), v)
         /\ Listening(v)._bDirty = v._bDirty /\ Listening(v).onFile = v.onFile
<1> DEFINE w == Listening(v)
<1>1. v \in ImageState
  BY DEF ViewOK
<1>2. /\ SameMemory(w, v) /\ w._bDirty = v._bDirty /\ w.onFile = v.onFile
      /\ w.touched = v.touched
  BY <1>1 DEF Listening, ImageState, SameMemory
<1>3. w \in ImageState
  BY <1>1 DEF Listening, ImageState
<1> HIDE DEF w
<1>4. (w._image = NoPicture => ~w._bDirty) /\ (w._path = NoPath => ~w.touched)
  BY <1>2 DEF ViewOK, SameMemory
<1>5. ViewOK(w, m)
  BY <1>2, <1>3, <1>4, SameMemoryOK
<1> QED BY <1>2, <1>5 DEF w

LEMMA TouchedOK ==
  ASSUME NEW v, NEW m \in Nat, ViewOK(v, m), NEW t \in BOOLEAN, t => v._path # NoPath
  PROVE  /\ ViewOK([v EXCEPT !.touched = t], m)
         /\ SameMemory([v EXCEPT !.touched = t], v)
         /\ [v EXCEPT !.touched = t]._bDirty = v._bDirty
         /\ [v EXCEPT !.touched = t]._bStopped = v._bStopped
         /\ [v EXCEPT !.touched = t].onFile = v.onFile
<1> DEFINE w == [v EXCEPT !.touched = t]
<1>1. v \in ImageState
  BY DEF ViewOK
<1>2. /\ SameMemory(w, v) /\ w._bDirty = v._bDirty /\ w.onFile = v.onFile
      /\ w.touched = t /\ w._bStopped = v._bStopped
  BY <1>1 DEF ImageState, SameMemory
<1>3. w \in ImageState
  BY <1>1 DEF ImageState
<1> HIDE DEF w
<1>4. (w._image = NoPicture => ~w._bDirty) /\ (w._path = NoPath => ~w.touched)
  BY <1>2 DEF ViewOK, SameMemory
<1>5. ViewOK(w, m)
  BY <1>2, <1>3, <1>4, SameMemoryOK
<1> QED BY <1>2, <1>5 DEF w

\* A view whose file has been destroyed.
LEMMA SpoiltOK ==
  ASSUME NEW v, NEW m \in Nat, ViewOK(v, m), NEW path \in Paths
  PROVE  /\ ViewOK(Spoilt(v, path), m)
         /\ SameMemory(Spoilt(v, path), v)
         /\ Spoilt(v, path)._bDirty = v._bDirty
         /\ path # v._path => Spoilt(v, path) = v
<1> DEFINE w == [v EXCEPT !.touched = TRUE, !.onFile = NoPicture]
<1>1. v \in ImageState
  BY DEF ViewOK
<1>2. /\ SameMemory(w, v) /\ w._bDirty = v._bDirty
      /\ w.touched = TRUE
  BY <1>1 DEF ImageState, SameMemory
<1>3. w \in ImageState
  BY <1>1 DEF ImageState
<1> HIDE DEF w
<1>4. CASE path = v._path
  <2>1. w._path # NoPath
    BY <1>2, <1>4, PictureFacts DEF SameMemory
  <2>2. w._image = NoPicture => ~w._bDirty
    BY <1>2 DEF ViewOK, SameMemory
  <2>3. ViewOK(w, m)
    BY <1>2, <1>3, <2>1, <2>2, SameMemoryOK
  <2> QED BY <1>2, <1>4, <2>3 DEF Spoilt, w
<1>5. CASE path # v._path
  BY <1>5 DEF Spoilt, SameMemory
<1> QED BY <1>4, <1>5

\* A view whose picture has been written to path.
LEMMA SavedOK ==
  ASSUME NEW v, NEW m \in Nat, ViewOK(v, m), NEW path \in Paths, v._image # NoPicture
  PROVE  /\ ViewOK(Saved(v, path), m)
         /\ Saved(v, path)._image = v._image /\ Saved(v, path)._path = path
         /\ Saved(v, path)._arUndo = v._arUndo /\ Saved(v, path)._bStopped = v._bStopped
         /\ ~Saved(v, path)._bDirty /\ Saved(v, path).onFile = v._image
<1> DEFINE w == Saved(v, path)
<1>1. v \in ImageState
  BY DEF ViewOK
<1>2. /\ w._image = v._image /\ w._path = path /\ w._bDirty = FALSE /\ w._arUndo = v._arUndo
      /\ w._bStopped = v._bStopped /\ w.touched = FALSE /\ w.onFile = v._image
  BY <1>1 DEF Saved, ImageState
<1>3. w \in ImageState
  BY <1>1, ViewFields DEF Saved, ImageState, NoName
<1> HIDE DEF w
<1>4. KeyOK(w)
  BY <1>2, PictureFacts DEF KeyOK
<1>5. Chain(w)
  BY <1>2 DEF ViewOK, Chain
<1>6. ViewOK(w, m)
  BY <1>2, <1>3, <1>4, <1>5 DEF ViewOK
<1> QED BY <1>2, <1>6 DEF w

\* An edit: the picture that is replaced joins the versions, of which the oldest may
\* go.
LEMMA EditedOK ==
  ASSUME NEW v, NEW m \in Nat, ViewOK(v, m), v._image # NoPicture, m + 1 <= MaxPictures,
         NEW picture, picture = [n |-> m + 1, key |-> v._image.key]
  PROVE  /\ ViewOK(SetImageWithHistory(v, picture), m + 1)
         /\ SetImageWithHistory(v, picture)._image = picture
         /\ picture \in Picture
         /\ SetImageWithHistory(v, picture)._bDirty
         /\ \E i \in 1 .. Len(SetImageWithHistory(v, picture)._arUndo) :
              SetImageWithHistory(v, picture)._arUndo[i].image = v._image
         /\ SetImageWithHistory(v, picture)._path = v._path
<1> DEFINE kept  == IF Len(v._arUndo) > MaxUndo THEN Tail(v._arUndo) ELSE v._arUndo
           entry == [image |-> v._image, _bDirty |-> v._bDirty]
           list  == Append(kept, entry)
           w     == SetImageWithHistory(v, picture)
<1>v. v \in ImageState /\ Chain(v) /\ KeyOK(v) /\ v._image.n <= m
  BY DEF ViewOK
<1>f. /\ v._image \in Picture /\ v._arUndo \in Seq(CUndo) /\ v._bDirty \in BOOLEAN
      /\ Len(v._arUndo) <= MaxUndo + 1
  BY <1>v, ViewFields DEF Chain
<1>n. v._image.n \in Nat /\ v._image.key \in BOOLEAN /\ MaxUndo \in Nat
  BY <1>f, PictureFacts
<1>1. /\ w._image = picture /\ w._path = v._path /\ w._bDirty = TRUE /\ w._arUndo = list
      /\ w.touched = v.touched
  BY <1>v DEF SetImageWithHistory, ImageState
<1>2. picture \in Picture /\ picture.n = m + 1 /\ picture.key = v._image.key
  BY <1>n DEF Picture
<1>3. entry \in CUndo /\ entry.image = v._image
  BY <1>f DEF CUndo
<1>4. \A i \in 1 .. Len(v._arUndo) :
        /\ v._arUndo[i].image \in Picture
        /\ v._arUndo[i].image.n \in Nat
  BY <1>f, EntryFields, PictureFacts
<1>5. PICK d \in {0, 1} :
        /\ kept \in Seq(CUndo)
        /\ Len(kept) = Len(v._arUndo) - d
        /\ Len(kept) <= MaxUndo
        /\ \A i \in 1 .. Len(kept) : i + d \in 1 .. Len(v._arUndo) /\ kept[i] = v._arUndo[i + d]
  <2>1. CASE Len(v._arUndo) > MaxUndo
    <3>1. v._arUndo # <<>>
      BY <2>1, <1>n
    <3>2. /\ Tail(v._arUndo) \in Seq(CUndo)
          /\ Len(Tail(v._arUndo)) = Len(v._arUndo) - 1
          /\ \A i \in 1 .. Len(v._arUndo) - 1 : Tail(v._arUndo)[i] = v._arUndo[i + 1]
      BY <3>1, <1>f, HeadTailProperties
    <3>3. \A i \in 1 .. Len(v._arUndo) - 1 : i + 1 \in 1 .. Len(v._arUndo)
      BY <1>f
    <3> QED BY <3>2, <3>3, <2>1, <1>f, <1>n
  <2>2. CASE ~(Len(v._arUndo) > MaxUndo)
    BY <2>2, <1>f, <1>n
  <2> QED BY <2>1, <2>2
<1> HIDE DEF kept
<1>6. /\ list \in Seq(CUndo)
      /\ Len(list) = Len(kept) + 1
      /\ list[Len(list)] = entry
      /\ \A i \in 1 .. Len(kept) : list[i] = kept[i]
  BY <1>3, <1>5, AppendProperties
<1> HIDE DEF list, entry
<1>7. w \in ImageState
  <2>1. w = [v EXCEPT !._image = picture, !._bDirty = TRUE, !._arUndo = list]
    BY <1>f, PictureFacts DEF SetImageWithHistory, list, kept, entry
  <2> QED BY <2>1, <1>v, <1>2, <1>6 DEF ImageState
<1> HIDE DEF w
<1>e. ASSUME NEW i \in 1 .. Len(list), i # Len(list)
      PROVE  i \in 1 .. Len(kept) /\ i + d \in 1 .. Len(v._arUndo) /\ list[i] = v._arUndo[i + d]
  <2>1. Len(kept) \in Nat
    BY <1>5
  <2>2. i \in 1 .. Len(kept)
    BY <2>1, <1>6, <1>e
  <2> QED BY <2>2, <1>5, <1>6
<1>8. Chain(w)
  <2>1. ASSUME NEW i \in 1 .. Len(list)
        PROVE  /\ list[i].image.n \in Nat
               /\ list[i].image.n <= v._image.n
               /\ i # Len(list) => list[i].image.n < v._image.n
    <3>1. CASE i = Len(list)
      BY <3>1, <1>6, <1>3, <1>n
    <3>2. CASE i # Len(list)
      <4>1. i + d \in 1 .. Len(v._arUndo) /\ list[i] = v._arUndo[i + d]
        BY <3>2, <1>e
      <4>2. v._arUndo[i + d].image.n < v._image.n
        BY <4>1, <1>v DEF Chain
      <4> QED BY <4>1, <4>2, <1>4, <1>n
    <3> QED BY <3>1, <3>2
  <2>2. ASSUME NEW i \in 1 .. Len(list), NEW j \in 1 .. Len(list), i < j
        PROVE  list[i].image.n < list[j].image.n
    <3>0. Len(list) \in Nat
      BY <1>5, <1>6
    <3>1. i # Len(list)
      BY <2>2, <3>0
    <3>2. CASE j = Len(list)
      BY <3>1, <3>2, <2>1, <1>3, <1>6
    <3>3. CASE j # Len(list)
      <4>1. i + d < j + d
        BY <2>2
      <4>2. /\ i + d \in 1 .. Len(v._arUndo) /\ list[i] = v._arUndo[i + d]
            /\ j + d \in 1 .. Len(v._arUndo) /\ list[j] = v._arUndo[j + d]
        BY <3>1, <3>3, <1>e
      <4> QED BY <4>1, <4>2, <1>v DEF Chain
    <3> QED BY <3>2, <3>3
  <2>3. picture # NoPicture
    BY <1>2, PictureFacts
  <2>4. Len(list) <= MaxUndo + 1
    BY <1>5, <1>6, <1>n
  <2>5. \A i \in 1 .. Len(list) : list[i].image.n < picture.n
    BY <2>1, <1>2, <1>v, <1>n
  <2> QED BY <2>2, <2>3, <2>4, <2>5, <1>1 DEF Chain
<1>9. KeyOK(w)
  <2>1. ASSUME NEW i \in 1 .. Len(list), v._path = NoPath
        PROVE  ~list[i].image.key
    <3>1. CASE i = Len(list)
      BY <3>1, <2>1, <1>3, <1>6, <1>v, PictureFacts, <1>f DEF KeyOK
    <3>2. CASE i # Len(list)
      <4>1. i + d \in 1 .. Len(v._arUndo) /\ list[i] = v._arUndo[i + d]
        BY <3>2, <1>e
      <4> QED BY <4>1, <2>1, <1>v DEF KeyOK
    <3> QED BY <3>1, <3>2
  <2>2. v._path = NoPath => ~picture.key
    BY <1>2, <1>v, <1>f, PictureFacts DEF KeyOK
  <2> QED BY <2>1, <2>2, <1>1 DEF KeyOK
<1>10. ViewOK(w, m + 1)
  BY <1>1, <1>2, <1>7, <1>8, <1>9, PictureFacts DEF ViewOK
<1>11. \E i \in 1 .. Len(list) : list[i].image = v._image
  BY <1>3, <1>5, <1>6
<1> QED BY <1>1, <1>2, <1>10, <1>11 DEF w


(***************************************************************************)
(* Boxes, callers and stacks of boxes.                                     *)
(***************************************************************************)
LEMMA ThenFields ==
  ASSUME NEW then \in Then
  PROVE  /\ then.do \in {"done", "next", "sheet", "close", "show"}
         /\ then.do = "show" => /\ then.info._path \in Paths
                                /\ then.info._image \in Picture \cup {NoPicture}
<1>1. CASE then \in [do : {"done", "next", "sheet", "close"}]
  BY <1>1
<1>2. CASE then \in [do : {"show"}, info : CImageLoad]
  BY <1>2 DEF CImageLoad
<1> QED BY <1>1, <1>2 DEF Then

LEMMA SimpleThenOK ==
  ASSUME NEW do \in {"done", "next", "sheet", "close"}, NEW m \in Nat
  PROVE  ThenOK([do |-> do], m)
BY DEF ThenOK, Then

LEMMA ShowOK ==
  ASSUME NEW path \in Paths, NEW picture \in Picture, NEW m \in Nat, picture.n <= m
  PROVE  ThenOK(Show(path, picture), m)
<1>1. Show(path, picture) \in [do : {"show"}, info : CImageLoad]
  BY DEF Show, CImageLoad
<1>2. Show(path, picture).info._image = picture
  BY DEF Show
<1>3. picture # NoPicture
  BY PictureFacts
<1> QED BY <1>1, <1>2, <1>3 DEF ThenOK, Then

LEMMA BoxFields ==
  ASSUME NEW box \in Boxes
  PROVE  /\ box.kind \in Callers \cup Editors
         /\ box.kind \in Callers => box.then \in Then
         /\ box.kind \in Editors => box.opened \in Opened
<1>1. CASE box \in [kind : {"query", "format", "saveas", "failed", "changed"}, then : Then]
  BY <1>1 DEF Callers, Editors
<1>2. CASE box \in [kind : {"metadata"}, then : Then, path : NoName]
  BY <1>2 DEF Callers, Editors
<1>3. CASE box \in [kind : {"edit", "undo", "sheet"}, opened : Opened]
  BY <1>3 DEF Callers, Editors
<1> QED BY <1>1, <1>2, <1>3 DEF Boxes

LEMMA CallerBoxOK ==
  ASSUME NEW then, NEW m \in Nat, ThenOK(then, m),
         NEW kind \in {"query", "format", "saveas", "failed", "changed"}
  PROVE  BoxOK([kind |-> kind, then |-> then], m)
<1> DEFINE box == [kind |-> kind, then |-> then]
<1>1. box \in Boxes
  BY DEF Boxes, ThenOK
<1>2. box.kind = kind /\ box.then = then
  OBVIOUS
<1> HIDE DEF box
<1> QED BY <1>1, <1>2 DEF BoxOK, Callers, Editors, box

LEMMA MetaDataBoxOK ==
  ASSUME NEW then, NEW m \in Nat, ThenOK(then, m), NEW path \in Paths
  PROVE  BoxOK([kind |-> "metadata", then |-> then, path |-> path], m)
<1> DEFINE box == [kind |-> "metadata", then |-> then, path |-> path]
<1>1. box \in Boxes
  BY DEF Boxes, ThenOK, NoName
<1>2. box.kind = "metadata" /\ box.then = then /\ box.path = path
  OBVIOUS
<1> HIDE DEF box
<1> QED BY <1>1, <1>2 DEF BoxOK, Callers, Editors, box

LEMMA EditorBoxOK ==
  ASSUME NEW v, NEW m \in Nat, ViewOK(v, m), v._image # NoPicture,
         NEW kind \in Editors, kind = "undo" => v._arUndo # <<>>
  PROVE  BoxOK([kind |-> kind, opened |-> [_image |-> v._image, _arUndo |-> v._arUndo]], m)
<1> DEFINE o   == [_image |-> v._image, _arUndo |-> v._arUndo]
           box == [kind |-> kind, opened |-> o]
<1>1. o \in Opened /\ o._image = v._image /\ o._arUndo = v._arUndo
  BY ViewFields DEF ViewOK, Opened
<1>2. OpenedOK(o, m)
  BY <1>1 DEF OpenedOK, ViewOK, Chain
<1> HIDE DEF o
<1>3. box \in Boxes
  BY <1>1 DEF Boxes, Editors
<1>4. box.kind = kind /\ box.opened = o
  OBVIOUS
<1> HIDE DEF box
<1>5. BoxOK(box, m)
  BY <1>1, <1>2, <1>3, <1>4 DEF BoxOK, Callers, Editors
<1> QED BY <1>5 DEF box, o

\* New pictures do no harm.
LEMMA Grows ==
  ASSUME NEW m \in Nat, NEW k \in Nat, m <= k
  PROVE  /\ \A v : ViewOK(v, m) => ViewOK(v, k)
         /\ \A then : ThenOK(then, m) => ThenOK(then, k)
         /\ \A bs : StackOK(bs, m) => StackOK(bs, k)
         /\ \A d : DiskOK(d, m) => DiskOK(d, k)
         /\ \A a : AnswersOK(a, m) => AnswersOK(a, k)
<1>n. ASSUME NEW picture \in Picture \cup {NoPicture}, picture # NoPicture => picture.n <= m
      PROVE  picture # NoPicture => picture.n <= k
  BY <1>n, PictureFacts
<1>1. ASSUME NEW v, ViewOK(v, m)
      PROVE  ViewOK(v, k)
  BY <1>1, <1>n, ViewFields DEF ViewOK
<1>2. ASSUME NEW then, ThenOK(then, m)
      PROVE  ThenOK(then, k)
  BY <1>2, <1>n, ThenFields, PictureFacts DEF ThenOK
<1>o. ASSUME NEW o, OpenedOK(o, m)
      PROVE  OpenedOK(o, k)
  BY <1>o, PictureFacts DEF OpenedOK, Opened
<1>3. ASSUME NEW box, BoxOK(box, m)
      PROVE  BoxOK(box, k)
  BY <1>3, <1>o, <1>2 DEF BoxOK
<1>4. ASSUME NEW bs, StackOK(bs, m)
      PROVE  StackOK(bs, k)
  BY <1>4, <1>3 DEF StackOK
<1>5. ASSUME NEW d, DiskOK(d, m)
      PROVE  DiskOK(d, k)
  BY <1>5, <1>n DEF DiskOK
<1>6. ASSUME NEW a, AnswersOK(a, m)
      PROVE  AnswersOK(a, k)
  <2>1. \A i \in 1 .. Len(a) : a[i]._image \in Picture \cup {NoPicture}
    <3>1. a \in Seq(CImageLoad)
      BY <1>6 DEF AnswersOK
    <3>2. \A i \in 1 .. Len(a) : a[i] \in CImageLoad
      BY <3>1, ElementOfSeq
    <3> QED BY <3>2 DEF CImageLoad
  <2> QED BY <2>1, <1>6, <1>n DEF AnswersOK
<1> QED BY <1>1, <1>2, <1>4, <1>5, <1>6

\* Another box on the stack.
LEMMA OpenOK ==
  ASSUME NEW bs, NEW m \in Nat, StackOK(bs, m), NEW box, BoxOK(box, m),
         box.kind \in Callers \/ bs = <<>>
  PROVE  /\ StackOK(Append(bs, box), m)
         /\ Append(bs, box) # <<>>
         /\ Len(Append(bs, box)) = Len(bs) + 1
         /\ Append(bs, box)[Len(bs) + 1] = box
         /\ \A i \in 1 .. Len(bs) : Append(bs, box)[i] = bs[i]
         /\ Append(bs, box)[1] = IF bs = <<>> THEN box ELSE bs[1]
<1> DEFINE new == Append(bs, box)
<1>1. bs \in Seq(Boxes) /\ box \in Boxes /\ Len(bs) \in Nat
  BY DEF StackOK, BoxOK
<1>2. /\ new \in Seq(Boxes) /\ new # <<>> /\ Len(new) = Len(bs) + 1 /\ new[Len(bs) + 1] = box
      /\ \A i \in 1 .. Len(bs) : new[i] = bs[i]
  BY <1>1, AppendProperties
<1>3. bs = <<>> <=> Len(bs) = 0
  BY <1>1, EmptySeq
<1> HIDE DEF new
<1>4. \A i \in 1 .. Len(new) : BoxOK(new[i], m)
  BY <1>1, <1>2 DEF StackOK
<1>5. \A i \in 2 .. Len(new) : new[i].kind \in Callers
  BY <1>1, <1>2, <1>3 DEF StackOK
<1>6. new[1] = IF bs = <<>> THEN box ELSE bs[1]
  BY <1>1, <1>2, <1>3
<1> QED BY <1>2, <1>4, <1>5, <1>6 DEF StackOK, new

\* What is under the last element of a sequence.
LEMMA FrontFacts ==
  ASSUME NEW S, NEW s \in Seq(S), s # <<>>
  PROVE  /\ Len(s) \in Nat /\ Len(s) >= 1
         /\ Last(s) = s[Len(s)]
         /\ Front(s) \in Seq(S)
         /\ Len(Front(s)) = Len(s) - 1
         /\ \A i \in 1 .. Len(Front(s)) : i \in 1 .. Len(s) - 1 /\ Front(s)[i] = s[i]
<1> DEFINE n == Len(s) - 1
<1>1. Len(s) \in Nat /\ Len(s) >= 1
  BY EmptySeq
<1>2. Last(s) = s[Len(s)] /\ Front(s) = SubSeq(s, 1, n)
  BY DEF Last, Front
<1>3. n \in Nat /\ n = Len(s) - 1
  BY <1>1
<1>4. \A i \in 1 .. n : s[i] \in S
  BY <1>1
<1> HIDE DEF n
<1>5. /\ SubSeq(s, 1, n) \in Seq(S)
      /\ Len(SubSeq(s, 1, n)) = IF 1 <= n THEN n - 1 + 1 ELSE 0
      /\ \A i \in 1 .. n - 1 + 1 : SubSeq(s, 1, n)[i] = s[1 + i - 1]
  BY <1>3, <1>4, SubSeqProperties
<1>6. (IF 1 <= n THEN n - 1 + 1 ELSE 0) = n
  BY <1>3
<1>7. ASSUME NEW i \in 1 .. n
      PROVE  Front(s)[i] = s[i]
  <2>1. i \in 1 .. n - 1 + 1 /\ 1 + i - 1 = i
    BY <1>3
  <2>2. Front(s)[i] = s[1 + i - 1]
    BY <2>1, <1>2, <1>5
  <2> QED BY <2>1, <2>2
<1> QED BY <1>1, <1>2, <1>3, <1>5, <1>6, <1>7

\* The box on top is answered.
LEMMA AnswerOK ==
  ASSUME NEW bs, NEW m \in Nat, StackOK(bs, m), bs # <<>>
  PROVE  /\ StackOK(Front(bs), m)
         /\ BoxOK(Last(bs), m)
         /\ Last(bs) = bs[Len(bs)]
         /\ Front(bs) = <<>> => Last(bs) = bs[1]
         /\ Front(bs) # <<>> => /\ Front(bs)[1] = bs[1] /\ Last(bs).kind \in Callers
                                /\ Len(bs) \in 2 .. Len(bs)
         /\ \A i \in 1 .. Len(Front(bs)) : i \in 1 .. Len(bs) /\ Front(bs)[i] = bs[i]
<1> DEFINE top == Len(bs)
<1>1. bs \in Seq(Boxes)
  BY DEF StackOK
<1>2. top \in Nat /\ top >= 1 /\ Last(bs) = bs[top]
  BY <1>1, FrontFacts
<1>5. /\ Front(bs) \in Seq(Boxes) /\ Len(Front(bs)) = top - 1
      /\ \A i \in 1 .. Len(Front(bs)) : i \in 1 .. top - 1 /\ Front(bs)[i] = bs[i]
  BY <1>1, FrontFacts
<1>6. Front(bs) = <<>> <=> top = 1
  BY <1>2, <1>5, EmptySeq
<1>7. \A i \in 1 .. Len(Front(bs)) : i \in 1 .. top /\ Front(bs)[i] = bs[i]
  BY <1>2, <1>5
<1>8. StackOK(Front(bs), m)
  <2>1. \A i \in 2 .. Len(Front(bs)) : i \in 1 .. Len(Front(bs)) /\ i \in 2 .. top
    BY <1>2, <1>5
  <2> QED BY <1>5, <1>7, <2>1 DEF StackOK
<1>9. BoxOK(Last(bs), m)
  BY <1>1, <1>2 DEF StackOK
<1>10. top # 1 => Front(bs)[1] = bs[1] /\ bs[top].kind \in Callers /\ top \in 2 .. top
  <2> HIDE DEF top
  <2>1. top # 1 => top \in 2 .. top /\ 1 \in 1 .. top - 1
    BY <1>2
  <2> USE DEF top
  <2> QED BY <2>1, <1>5 DEF StackOK
<1> QED BY <1>2, <1>6, <1>7, <1>8, <1>9, <1>10

LEMMA FirstOpenOK ==
  ASSUME NEW m \in Nat, NEW box, BoxOK(box, m)
  PROVE  /\ StackOK(Append(<<>>, box), m)
         /\ Append(<<>>, box)[1] = box
         /\ Len(Append(<<>>, box)) = 1
<1> DEFINE bs == <<>>
<1>1. Len(bs) = 0 /\ bs = <<>>
  OBVIOUS
<1>2. StackOK(bs, m)
  BY DEF StackOK
<1> HIDE DEF bs
<1>3. /\ StackOK(Append(bs, box), m)
      /\ Append(bs, box)[Len(bs) + 1] = box
      /\ Len(Append(bs, box)) = Len(bs) + 1
  BY <1>1, <1>2, OpenOK
<1> QED BY <1>1, <1>3

LEMMA OpenFits ==
  ASSUME NEW bs, NEW m \in Nat, StackOK(bs, m), NEW box, BoxOK(box, m), NEW v,
         Fits(v, bs), v._image # NoPicture, box.kind \in Callers,
         box.kind = "changed" => v._path # NoPath
  PROVE  Fits(v, Append(bs, box))
<1> DEFINE new == Append(bs, box)
<1>1. /\ new[1] = IF bs = <<>> THEN box ELSE bs[1]
      /\ Len(new) = Len(bs) + 1 /\ new[Len(bs) + 1] = box
      /\ \A i \in 1 .. Len(bs) : new[i] = bs[i]
  BY OpenOK
<1>2. box.kind # "undo" /\ Len(bs) \in Nat
  BY DEF Callers, StackOK
<1> HIDE DEF new
<1>3. \A i \in 1 .. Len(new) : i = Len(bs) + 1 \/ i \in 1 .. Len(bs)
  BY <1>1, <1>2
<1> QED BY <1>1, <1>2, <1>3 DEF Fits, new

\* Over an editor only a box of the timer, unless the user has asked for another
\* picture.
LEMMA OpenStays ==
  ASSUME NEW bs, NEW m \in Nat, StackOK(bs, m), NEW box, BoxOK(box, m), NEW v, NEW r,
         Stays(v, bs, r), box.kind \in Callers, Edits(bs) => r \/ box.kind = "changed"
  PROVE  Stays(v, Append(bs, box), r)
<1> DEFINE new == Append(bs, box)
<1>1. /\ new[1] = IF bs = <<>> THEN box ELSE bs[1]
      /\ Len(new) = Len(bs) + 1 /\ new[Len(bs) + 1] = box
      /\ \A i \in 1 .. Len(bs) : new[i] = bs[i]
  BY OpenOK
<1>2. Len(bs) \in Nat
  BY DEF StackOK
<1>3. box.kind \notin Editors
  BY DEF Callers, Editors
<1> HIDE DEF new
<1>4. SUFFICES ASSUME Edits(new), ~r
               PROVE  /\ v._bStopped /\ v._image = new[1].opened._image
                      /\ v._arUndo = new[1].opened._arUndo
                      /\ \A i \in 2 .. Len(new) : new[i].kind = "changed"
  BY DEF Stays, new
<1>5. Edits(bs) /\ new[1] = bs[1] /\ box.kind = "changed"
  BY <1>1, <1>3, <1>4 DEF Edits
<1>6. /\ v._bStopped /\ v._image = bs[1].opened._image /\ v._arUndo = bs[1].opened._arUndo
      /\ \A i \in 2 .. Len(bs) : bs[i].kind = "changed"
  BY <1>4, <1>5 DEF Stays
<1>7. ASSUME NEW i \in 2 .. Len(new)
      PROVE  new[i].kind = "changed"
  <2>1. i = Len(bs) + 1 \/ (i \in 1 .. Len(bs) /\ i \in 2 .. Len(bs))
    BY <1>1, <1>2
  <2> QED BY <2>1, <1>1, <1>5, <1>6
<1> QED BY <1>5, <1>6, <1>7

LEMMA AnswerKeeps ==
  ASSUME NEW bs, NEW m \in Nat, StackOK(bs, m), bs # <<>>, NEW v, NEW r
  PROVE  /\ Edits(Front(bs)) => Edits(bs)
         /\ Fits(v, bs) => Fits(v, Front(bs)) /\ v._image # NoPicture
         /\ Stays(v, bs, r) => Stays(v, Front(bs), r)
         /\ Stays(v, bs, r) /\ Edits(Front(bs)) => r \/ Last(bs).kind = "changed"
<1>1. /\ Front(bs) # <<>> => Front(bs)[1] = bs[1] /\ Len(bs) \in 2 .. Len(bs)
      /\ Last(bs) = bs[Len(bs)]
      /\ \A i \in 1 .. Len(Front(bs)) : i \in 1 .. Len(bs) /\ Front(bs)[i] = bs[i]
  BY AnswerOK
<1>2. Len(bs) \in Nat /\ Len(Front(bs)) \in Nat
  BY AnswerOK DEF StackOK
<1>3. Edits(Front(bs)) => Edits(bs)
  BY <1>1 DEF Edits
<1>4. Fits(v, bs) => Fits(v, Front(bs)) /\ v._image # NoPicture
  BY <1>1 DEF Fits
<1>5. \A i \in 2 .. Len(Front(bs)) : i \in 2 .. Len(bs) /\ Front(bs)[i] = bs[i]
  BY <1>1, <1>2
<1>6. Stays(v, bs, r) => Stays(v, Front(bs), r)
  BY <1>1, <1>3, <1>5 DEF Stays, Edits
<1>7. Stays(v, bs, r) /\ Edits(Front(bs)) => r \/ Last(bs).kind = "changed"
  BY <1>1, <1>3 DEF Stays, Edits
<1> QED BY <1>3, <1>4, <1>6, <1>7

(***************************************************************************)
(* Saving.  Ready says what a handler needs to go on with picture v and    *)
(* the boxes below it, Settled what the step leaves behind.                *)
(***************************************************************************)
Ready(then, below, v) ==
  /\ made' \in Nat
  /\ request \in NoName
  /\ running \in BOOLEAN
  /\ ThenOK(then, made')
  /\ StackOK(below, made')
  /\ ViewOK(v, made')
  /\ Fits(v, below)
  /\ Edits(below) => replaced'

Settled ==
  /\ request' \in NoName
  /\ running' \in BOOLEAN
  /\ ViewOK(Image', made')
  /\ StackOK(boxes', made')
  /\ Fits(Image', boxes')
  /\ Stays(Image', boxes', replaced')

\* What the step does to picture v: it is still there, or on the disk.
Keeps(v) ==
  \/ running' = running /\ Image'._image = v._image /\ Image'._arUndo = v._arUndo
  \/ \E p \in Paths : disk'[p] = v._image

\* A picture shown for the first time is what its file holds.
Shows(v) == Unsaved(Image') => Unsaved(v)

\* Or its own file is gone, and it had no changes.
Known(v) == Shows(v) \/ CleanSaveFails(v)

LEMMA OpenSettles ==
  ASSUME NEW then, NEW below, NEW v, Ready(then, below, v), v._image # NoPicture,
         NEW box, BoxOK(box, made'), box.kind \in Callers \ {"changed"},
         boxes' = Append(below, box), Image' = v, UNCHANGED <<request, running>>
  PROVE  Settled
<1>1. StackOK(boxes', made')
  BY OpenOK DEF Ready
<1>2. Fits(Image', boxes')
  BY OpenFits DEF Ready
<1>3. Stays(v, below, replaced')
  BY DEF Ready, Stays
<1>4. Stays(Image', boxes', replaced')
  BY <1>3, OpenStays DEF Ready
<1> QED BY <1>1, <1>2, <1>4 DEF Settled, Ready

\* A picture of a file fits under every box.
LEMMA ShownFits ==
  ASSUME NEW v, NEW below, v._path # NoPath, v._arUndo = <<>>, v._image # NoPicture
  PROVE  Fits(v, below)
BY DEF Fits

LEMMA SameFits ==
  ASSUME NEW v, NEW w, NEW below, Fits(v, below), SameMemory(w, v)
  PROVE  Fits(w, below)
BY DEF Fits, SameMemory

LEMMA SavedFits ==
  ASSUME NEW v, NEW w, NEW below, Fits(v, below), w._image = v._image,
         w._arUndo = v._arUndo, w._path # NoPath
  PROVE  Fits(w, below)
BY DEF Fits

LEMMA DecodedFacts ==
  ASSUME NEW picture \in Picture \cup {NoPicture}
  PROVE  /\ Decoded(picture) \in Picture \cup {NoPicture}
         /\ picture = NoPicture <=> Decoded(picture) = NoPicture
         /\ picture # NoPicture => Decoded(picture).n = picture.n
<1>1. CASE picture = NoPicture
  BY <1>1 DEF Decoded
<1>2. CASE picture \in Picture
  <2>1. [picture EXCEPT !.key = TRUE] \in Picture /\ [picture EXCEPT !.key = TRUE].n = picture.n
    BY <1>2 DEF Picture
  <2> QED BY <2>1, <1>2, PictureFacts DEF Decoded
<1> QED BY <1>1, <1>2

LEMMA ResumeOK ==
  ASSUME NEW then, NEW below, NEW v, Ready(then, below, v), DiskOK(disk', made'),
         Resume(then, below, v)
  PROVE  Settled /\ Shows(v)
<1>m. made' \in Nat /\ ThenOK(then, made') /\ StackOK(below, made') /\ ViewOK(v, made')
      /\ v \in ImageState /\ Fits(v, below) /\ boxes' = below /\ NoPath \notin Paths
  BY PictureFacts DEF Ready, Resume, ViewOK
<1>s. \A w : Stays(w, below, replaced')
  BY DEF Ready, Stays
<1>r. Paths \subseteq NoName
  BY DEF NoName
\* The picture of a file is shown.
<1>i. ASSUME NEW u \in ImageState, NEW picture \in Picture, NEW path \in Paths,
             picture.n <= made', Image' = SetImage(u, picture, path)
      PROVE  ViewOK(Image', made') /\ Fits(Image', below) /\ Shows(v)
  <2>1. /\ ViewOK(Image', made') /\ Image'._image = picture /\ Image'._path = path
        /\ Image'._arUndo = <<>> /\ Image'.onFile = picture
    BY <1>i, <1>m, <1>r, SetImageOK, PictureFacts
  <2>2. Fits(Image', below)
    BY <2>1, <1>m, ShownFits, PictureFacts
  <2> QED BY <1>i, <2>1, <2>2, PictureFacts DEF Shows, Unsaved
\* The picture stays.
<1>l. ASSUME Image' = Listening(v)
      PROVE  ViewOK(Image', made') /\ Fits(Image', below) /\ Shows(v)
  <2>1. /\ ViewOK(Image', made') /\ SameMemory(Image', v) /\ Image'._bDirty = v._bDirty
        /\ Image'.onFile = v.onFile
    BY <1>l, <1>m, ListeningOK
  <2> QED BY <2>1, <1>m, SameFits DEF Shows, Unsaved, SameMemory
<1>1. CASE then.do \in {"done", "close"}
  BY <1>1, <1>m, <1>s DEF Resume, Ready, Settled, Shows
<1>2. CASE then.do = "next"
  <2>1. Image' = Listening(v) /\ request' \in Paths /\ UNCHANGED running
    BY <1>2 DEF Resume
  <2> QED BY <2>1, <1>l, <1>m, <1>r, <1>s DEF Settled, Ready
<1>3. CASE then.do = "sheet"
  <2>1. UNCHANGED <<request, running>>
    BY <1>3 DEF Resume
  <2>2. CASE Image' = Listening(v)
    BY <2>1, <2>2, <1>l, <1>m, <1>s DEF Settled, Ready
  <2>3. CASE Image' # Listening(v)
    <3>1. PICK p \in Paths : /\ disk'[p] # NoPicture
                             /\ Image' = SetImage(Listening(v), Decoded(disk'[p]), p)
      BY <2>3, <1>3 DEF Resume
    <3>2. disk'[p] \in Picture \cup {NoPicture} /\ disk'[p].n <= made'
      BY <3>1 DEF DiskOK
    <3>3. Decoded(disk'[p]) \in Picture /\ Decoded(disk'[p]).n <= made'
      BY <3>1, <3>2, DecodedFacts
    <3>4. Listening(v) \in ImageState
      BY <1>m, ListeningOK DEF ViewOK
    <3> QED BY <3>1, <3>3, <3>4, <1>i, <1>m, <1>s, <2>1 DEF Settled, Ready
  <2> QED BY <2>2, <2>3
<1>4. CASE then.do = "show"
  <2>1. /\ Image' = SetImage(v, then.info._image, then.info._path)
        /\ UNCHANGED <<request, running>>
    BY <1>4 DEF Resume
  <2>2. then.info._image \in Picture /\ then.info._image.n <= made' /\ then.info._path \in Paths
    BY <1>4, <1>m, ThenFields DEF ThenOK
  <2> QED BY <2>1, <2>2, <1>i, <1>m, <1>s DEF Settled, Ready
<1> QED BY <1>1, <1>2, <1>3, <1>4, <1>m, ThenFields DEF ThenOK

\* A save that may end well.
LEMMA WriteOKSettles ==
  ASSUME NEW then, NEW below, NEW v, Ready(then, below, v), v._image # NoPicture,
         DiskOK(disk, made'), NEW path \in Paths, WriteOK(then, below, v, path)
  PROVE  Settled /\ DiskOK(disk', made') /\ Shows(v) /\ Keeps(v)
<1> DEFINE w == Saved(v, path)
<1>m. made' \in Nat /\ ViewOK(v, made') /\ NoPath \notin Paths
      /\ v._image \in Picture /\ v._image.n <= made'
  BY ViewFields, PictureFacts DEF Ready, ViewOK
<1>1. /\ ViewOK(w, made') /\ w._image = v._image /\ w._path = path /\ w._arUndo = v._arUndo
      /\ w.onFile = v._image
  BY <1>m, SavedOK
<1>2. disk' = [disk EXCEPT ![path] = v._image] /\ Resume(then, below, w)
  BY DEF WriteOK
<1> HIDE DEF w
<1>3. DiskOK(disk', made') /\ disk'[path] = v._image
  BY <1>2, <1>m DEF DiskOK
<1>4. Ready(then, below, w)
  BY <1>1, <1>m, SavedFits DEF Ready
<1>5. Settled /\ Shows(w)
  BY <1>2, <1>3, <1>4, ResumeOK
<1>6. ~Unsaved(w)
  BY <1>1, <1>m, PictureFacts DEF Unsaved
<1>7. Keeps(v)
  BY <1>3 DEF Keeps
<1> QED BY <1>3, <1>5, <1>6, <1>7 DEF Shows

\* A save that fails.
LEMMA WriteFailsSettles ==
  ASSUME NEW then, NEW below, NEW v, Ready(then, below, v), v._image # NoPicture,
         DiskOK(disk, made'), NEW path \in Paths, WriteFails(then, below, v, path)
  PROVE  Settled /\ DiskOK(disk', made') /\ Known(v) /\ Keeps(v)
<1> DEFINE box == [kind |-> "failed", then |-> then]
<1>m. made' \in Nat /\ ViewOK(v, made') /\ ThenOK(then, made')
  BY DEF Ready
<1>b. BoxOK(box, made') /\ box.kind \in Callers \ {"changed"}
  BY <1>m, CallerBoxOK DEF Callers
<1>1. boxes' = Append(below, box) /\ UNCHANGED <<request, running>>
  BY DEF WriteFails, Open
<1> HIDE DEF box
<1>2. CASE UNCHANGED disk /\ Image' = v
  <2>1. Settled
    BY <1>1, <1>2, <1>b, OpenSettles
  <2> QED BY <2>1, <1>1, <1>2 DEF Keeps, Known, Shows
<1>3. CASE disk' = [disk EXCEPT ![path] = NoPicture] /\ Image' = Spoilt(v, path)
  <2> DEFINE w == Spoilt(v, path)
  <2>c. Image' = w
    BY <1>3
  <2>1. /\ ViewOK(w, made') /\ SameMemory(w, v) /\ w._bDirty = v._bDirty
        /\ path # v._path => w = v
    BY <1>m, SpoiltOK
  <2> HIDE DEF w
  <2>3. DiskOK(disk', made')
    BY <1>3, PictureFacts DEF DiskOK
  <2>4. Ready(then, below, w) /\ w._image # NoPicture
    BY <2>1, SameFits DEF Ready, SameMemory
  <2>5. Settled
    BY <2>c, <2>4, <1>1, <1>b, OpenSettles
  <2>6. ASSUME path # v._path PROVE Known(v)
    BY <2>1, <2>c, <2>6 DEF Known, Shows
  <2>7. ASSUME path = v._path /\ v._bDirty PROVE Known(v)
    BY <2>1, <2>c, <2>7 DEF Known, Shows, Unsaved
  <2>8. ASSUME path = v._path /\ ~v._bDirty PROVE Known(v)
    BY <2>1, <2>c, <2>8, <1>3 DEF Known, CleanSaveFails, SameMemory
  <2> QED BY <2>1, <2>c, <2>3, <2>5, <2>6, <2>7, <2>8, <1>1 DEF Keeps, SameMemory
<1> QED BY <1>2, <1>3 DEF WriteFails

LEMMA SaveToSettles ==
  ASSUME NEW then, NEW below, NEW v, Ready(then, below, v), v._image # NoPicture,
         DiskOK(disk, made'), NEW path \in Paths, SaveTo(then, below, v, path)
  PROVE  Settled /\ DiskOK(disk', made') /\ Known(v) /\ Keeps(v)
<1>1. CASE SaveFile(then, below, v, path)
  BY <1>1, WriteOKSettles, WriteFailsSettles DEF SaveFile, Known
<1>2. CASE ~SaveFile(then, below, v, path)
  <2> DEFINE box == [kind |-> "metadata", then |-> then, path |-> path]
  <2>1. boxes' = Append(below, box) /\ Image' = v /\ UNCHANGED <<disk, request, running>>
    BY <1>2 DEF SaveTo, Open
  <2>2. BoxOK(box, made') /\ box.kind \in Callers \ {"changed"}
    BY MetaDataBoxOK DEF Ready, Callers
  <2> HIDE DEF box
  <2>3. Settled
    BY <2>1, <2>2, OpenSettles
  <2> QED BY <2>1, <2>3 DEF Keeps, Known, Shows
<1> QED BY <1>1, <1>2

\* A box opened before anything is done about the picture.
LEMMA AskSettles ==
  ASSUME NEW then, NEW below, NEW v, Ready(then, below, v), v._image # NoPicture,
         DiskOK(disk, made'), NEW kind \in {"query", "format"},
         Open(below, [kind |-> kind, then |-> then]), Image' = v,
         UNCHANGED <<disk, request, running>>
  PROVE  Settled /\ DiskOK(disk', made') /\ Known(v) /\ Keeps(v)
<1> DEFINE box == [kind |-> kind, then |-> then]
<1>1. boxes' = Append(below, box)
  BY DEF Open
<1>2. BoxOK(box, made') /\ box.kind \in Callers \ {"changed"}
  BY CallerBoxOK DEF Ready, Callers
<1> HIDE DEF box
<1>3. Settled
  BY <1>1, <1>2, OpenSettles
<1> QED BY <1>3 DEF Keeps, Known, Shows

LEMMA SaveSettles ==
  ASSUME NEW then, NEW below, NEW v, Ready(then, below, v), v._image # NoPicture,
         DiskOK(disk, made'), Save(then, below, v)
  PROVE  Settled /\ DiskOK(disk', made') /\ Known(v) /\ Keeps(v)
<1>1. CASE v._image.key
  <2>1. v._path \in Paths
    BY <1>1, ViewFields DEF Ready, ViewOK, KeyOK, NoName
  <2> QED BY <1>1, <2>1, SaveToSettles DEF Save
<1>2. CASE ~v._image.key
  BY <1>2, AskSettles DEF Save
<1> QED BY <1>1, <1>2

\* A picture without changes may go.
LEMMA QuerySaveSettles ==
  ASSUME NEW then, NEW below, NEW v, Ready(then, below, v),
         DiskOK(disk, made'), QuerySave(then, below, v)
  PROVE  Settled /\ DiskOK(disk', made') /\ Known(v) /\ (v._bDirty => Keeps(v))
<1>1. CASE v._bDirty
  <2>1. v._image # NoPicture
    BY <1>1 DEF Ready, ViewOK
  <2> QED BY <1>1, <2>1, AskSettles DEF QuerySave
<1>2. CASE ~v._bDirty
  <2>1. UNCHANGED disk /\ Resume(then, below, v)
    BY <1>2 DEF QuerySave
  <2>2. DiskOK(disk', made')
    BY <2>1
  <2> QED BY <1>2, <2>1, <2>2, ResumeOK DEF Known
<1> QED BY <1>1, <1>2

LEMMA CanDisplaySettles ==
  ASSUME NEW then, NEW below, NEW v, Ready(then, below, v),
         DiskOK(disk, made'), CanDisplayNewImage(then, below, v)
  PROVE  Settled /\ DiskOK(disk', made') /\ Known(v) /\ (v._bDirty => Keeps(v))
<1>1. CASE v._bDirty /\ m_bAutoSave
  <2>1. v._image # NoPicture
    BY <1>1 DEF Ready, ViewOK
  <2> QED BY <1>1, <2>1, SaveSettles DEF CanDisplayNewImage
<1>2. CASE ~(v._bDirty /\ m_bAutoSave)
  BY <1>2, QuerySaveSettles DEF CanDisplayNewImage
<1> QED BY <1>1, <1>2

(***************************************************************************)
(* One lemma per action.  StepOK is what a step must do.                   *)
(***************************************************************************)
StepOK ==
  /\ IInv'
  /\ Consent \/ (Image._bDirty => ~Lost(Image._image))
  /\ UndoOK \/ Known(Image)

RestAfter ==
  /\ m_bAutoSave' \in BOOLEAN
  /\ made' \in 0 .. MaxPictures
  /\ ops' \in 0 .. MaxOps
  /\ replaced' \in BOOLEAN

LEMMA Now ==
  ASSUME IInv
  PROVE  /\ made \in Nat /\ made <= MaxPictures
         /\ request \in NoName /\ running \in BOOLEAN /\ ops \in 0 .. MaxOps
         /\ m_bAutoSave \in BOOLEAN /\ replaced \in BOOLEAN
         /\ DiskOK(disk, made) /\ AnswersOK(answers, made)
         /\ ViewOK(Image, made) /\ Image \in ImageState
         /\ StackOK(boxes, made) /\ Fits(Image, boxes) /\ Stays(Image, boxes, replaced)
BY PictureFacts DEF IInv, RestOK, ShownOK, StackedOK, ViewOK

LEMMA Assembled ==
  ASSUME Settled, RestAfter, DiskOK(disk', made'), AnswersOK(answers', made')
  PROVE  IInv'
BY DEF Settled, RestAfter, IInv, RestOK, ShownOK, StackedOK

\* What is still shown, or on the disk, is not lost.
LEMMA KeptIsNotLost ==
  ASSUME IInv, running, Image._bDirty, NEW v, SameMemory(v, Image), Keeps(v)
  PROVE  ~Lost(Image._image)
<1>1. Image._image \in Picture /\ Image._image # NoPicture /\ v._image = Image._image
  BY Now, ViewFields DEF ViewOK, SameMemory
<1>2. CASE running' = running /\ Image'._image = v._image
  BY <1>1, <1>2 DEF Lost, InMemory
<1>3. CASE \E p \in Paths : disk'[p] = v._image
  BY <1>1, <1>3 DEF Lost
<1> QED BY <1>2, <1>3 DEF Keeps

\* A step that leaves the picture alone.
LEMMA CalmStep ==
  ASSUME IInv, running, running', Settled, RestAfter, DiskOK(disk', made'),
         AnswersOK(answers', made'), SameMemory(Image', Image),
         Image'._bDirty = Image._bDirty, Image'.onFile = Image.onFile
  PROVE  StepOK
<1>1. IInv'
  BY Assembled
<1>2. Keeps(Image)
  BY Now DEF Keeps, SameMemory
<1>3. Image._bDirty => ~Lost(Image._image)
  BY <1>2, KeptIsNotLost DEF SameMemory
<1>4. Known(Image)
  BY DEF Known, Shows, Unsaved, SameMemory
<1> QED BY <1>1, <1>3, <1>4 DEF StepOK

\* A step that has gone through Save, QuerySave or CanDisplayNewImage with picture v.
LEMMA SaveStep ==
  ASSUME IInv, running, Settled, RestAfter, DiskOK(disk', made'), AnswersOK(answers', made'),
         NEW v, SameMemory(v, Image), v._bDirty = Image._bDirty, v.onFile = Image.onFile,
         Known(v), v._bDirty => Keeps(v)
  PROVE  StepOK
<1>1. IInv'
  BY Assembled
<1>2. Image._bDirty => ~Lost(Image._image)
  BY KeptIsNotLost
<1>3. Known(Image)
  BY DEF Known, Shows, CleanSaveFails, Unsaved, SameMemory
<1> QED BY <1>1, <1>2, <1>3 DEF StepOK

LEMMA CommandFacts ==
  ASSUME IInv, Command
  PROVE  /\ running /\ boxes = <<>> /\ ops' \in 0 .. MaxOps /\ replaced' \in BOOLEAN
         /\ UNCHANGED <<m_bAutoSave, made>> => RestAfter
         /\ UNCHANGED made => /\ made' \in Nat /\ ViewOK(Image, made')
                              /\ UNCHANGED disk => DiskOK(disk', made')
                              /\ UNCHANGED answers => AnswersOK(answers', made')
         /\ \A m : StackOK(<<>>, m)
         /\ \A v : Fits(v, <<>>)
         /\ ~Edits(<<>>) /\ \A v, r : Stays(v, <<>>, r)
<1>1. ops + 1 \in 0 .. MaxOps
  BY Now, PictureFacts DEF Command
<1>2. \A m : StackOK(<<>>, m)
  BY DEF StackOK
<1>3. ~Edits(<<>>)
  BY DEF Edits
<1>4. replaced' \in BOOLEAN /\ running /\ boxes = <<>>
  BY DEF Command
<1>5. UNCHANGED <<m_bAutoSave, made>> => RestAfter
  BY <1>1, <1>4, Now DEF Command, RestAfter
<1>6. UNCHANGED made => /\ made' \in Nat /\ ViewOK(Image, made')
                        /\ UNCHANGED disk => DiskOK(disk', made')
                        /\ UNCHANGED answers => AnswersOK(answers', made')
  BY Now
<1>7. \A v : Fits(v, <<>>)
  <2>1. <<>> \in Seq(Boxes)
    OBVIOUS
  <2>2. 1 .. Len(<<>>) = {}
    BY <2>1, EmptySeq
  <2> QED BY <2>2 DEF Fits
<1>8. \A v, r : Stays(v, <<>>, r)
  BY <1>3 DEF Stays
<1> QED BY <1>1, <1>2, <1>3, <1>4, <1>5, <1>6, <1>7, <1>8 DEF Command

\* Save, or QuerySave, from a command.
LEMMA CommandReady ==
  ASSUME IInv, Command, UNCHANGED made, NEW then, ThenOK(then, made'),
         NEW v, ViewOK(v, made')
  PROVE  Ready(then, <<>>, v)
BY CommandFacts, Now DEF Ready

LEMMA SameMemorySelf == ASSUME NEW v PROVE SameMemory(v, v)
BY DEF SameMemory

LEMMA BrowseOK ==
  ASSUME IInv, NEW p \in Paths, Browse(p)
  PROVE  StepOK
<1>1. /\ Command /\ Image' = Listening(Image) /\ request' = p
      /\ UNCHANGED <<disk, m_bAutoSave, made, boxes, running, answers>>
  BY DEF Browse, SameFiles, SameBoxes
<1>2. /\ ViewOK(Image', made') /\ SameMemory(Image', Image)
      /\ Image'._bDirty = Image._bDirty /\ Image'.onFile = Image.onFile
  BY <1>1, CommandFacts, ListeningOK
<1>3. Settled
  BY <1>1, <1>2, CommandFacts, Now DEF Settled, NoName
<1> QED BY <1>1, <1>2, <1>3, CommandFacts, CalmStep

\* An editor, or the undo box, is opened over the picture.
LEMMA OpenEditorStep ==
  ASSUME IInv, Command, IsImageShown, Image' = Paused(Image),
         NEW kind \in Editors, kind = "undo" => Image._arUndo # <<>>,
         Open(<<>>, EditorBox(kind)),
         UNCHANGED <<disk, m_bAutoSave, made, request, answers, running>>
  PROVE  StepOK
<1> DEFINE box == EditorBox(kind)
<1>1. /\ ViewOK(Image', made') /\ SameMemory(Image', Image) /\ Image'._bStopped
      /\ Image'._bDirty = Image._bDirty /\ Image'.onFile = Image.onFile
      /\ Image'._image # NoPicture
  BY CommandFacts, PausedOK DEF IsImageShown, SameMemory
<1>2. BoxOK(box, made')
  BY CommandFacts, EditorBoxOK DEF EditorBox, IsImageShown
<1>3. /\ box.kind = kind /\ box.kind # "changed"
      /\ box.opened._image = Image'._image /\ box.opened._arUndo = Image'._arUndo
  BY <1>1 DEF Editors, EditorBox, SameMemory
<1>u. Image'._path = NoPath => Unnamed(box.opened)
  BY <1>1, <1>3 DEF ViewOK, KeyOK, Unnamed
<1>b. boxes' = Append(<<>>, box)
  BY DEF Open
<1> HIDE DEF box
<1>4. /\ StackOK(boxes', made') /\ boxes'[1] = box /\ Len(boxes') = 1
  BY <1>2, <1>b, CommandFacts, FirstOpenOK
<1>5. Fits(Image', boxes')
  <2>1. \A i \in 1 .. Len(boxes') : i = 1
    BY <1>4
  <2> QED BY <1>1, <1>3, <1>u, <1>4, <2>1 DEF Fits
<1>6. Stays(Image', boxes', replaced')
  BY <1>1, <1>3, <1>4 DEF Stays
<1>7. Settled
  BY <1>1, <1>4, <1>5, <1>6, Now DEF Settled
<1> QED BY <1>1, <1>7, CommandFacts, CalmStep

LEMMA OpenEditorOK ==
  ASSUME IInv, NEW kind \in {"edit", "sheet"}, OpenEditor(kind)
  PROVE  StepOK
BY OpenEditorStep DEF OpenEditor, SameFiles, NoLoads, Editors

LEMMA UndoCommandOK ==
  ASSUME IInv, Undo
  PROVE  StepOK
<1>1. Image._arUndo # <<>> => Image._image # NoPicture
  <2>1. Image._arUndo \in Seq(CUndo)
    BY Now, ViewFields
  <2>2. Image._arUndo # <<>> => 1 \in 1 .. Len(Image._arUndo)
    BY <2>1, EmptySeq
  <2> QED BY <2>2, Now DEF ViewOK, Chain
<1> QED BY <1>1, OpenEditorStep DEF Undo, IsImageShown, SameFiles, NoLoads, Editors

LEMMA SaveCommandOK ==
  ASSUME IInv, SaveCommand
  PROVE  StepOK
<1> DEFINE v == Paused(Image)
<1>1. /\ Command /\ IsImageShown /\ Save(Done, <<>>, v) /\ UNCHANGED <<m_bAutoSave, made, answers>>
  BY DEF SaveCommand
<1>2. /\ ViewOK(v, made') /\ SameMemory(v, Image) /\ v._bDirty = Image._bDirty
      /\ v.onFile = Image.onFile /\ v._image # NoPicture
  BY <1>1, CommandFacts, PausedOK DEF IsImageShown, SameMemory
<1> HIDE DEF v
<1>3. Ready(Done, <<>>, v)
  BY <1>1, <1>2, CommandFacts, CommandReady, SimpleThenOK DEF Done
<1>4. DiskOK(disk, made')
  BY <1>1, Now
<1>5. Settled /\ DiskOK(disk', made') /\ Known(v) /\ Keeps(v)
  BY <1>1, <1>2, <1>3, <1>4, SaveSettles
<1> QED BY <1>1, <1>2, <1>5, CommandFacts, SaveStep

LEMMA SaveMoveNextOK ==
  ASSUME IInv, SaveMoveNext
  PROVE  StepOK
<1> DEFINE then == [do |-> "next"]
<1>1. /\ Command /\ Image._image # NoPicture /\ Save(then, <<>>, Image)
      /\ UNCHANGED <<m_bAutoSave, made, answers>>
  BY DEF SaveMoveNext, IsImageShown
<1>2. Ready(then, <<>>, Image)
  BY <1>1, CommandFacts, CommandReady, SimpleThenOK
<1> HIDE DEF then
<1>3. DiskOK(disk, made')
  BY <1>1, Now
<1>4. Settled /\ DiskOK(disk', made') /\ Known(Image) /\ Keeps(Image)
  BY <1>1, <1>2, <1>3, SaveSettles
<1> QED BY <1>1, <1>4, CommandFacts, SaveStep, SameMemorySelf

LEMMA SaveAsCommandOK ==
  ASSUME IInv, SaveAs
  PROVE  StepOK
<1> DEFINE box == [kind |-> "saveas", then |-> Done]
<1>1. /\ Command /\ Image._image # NoPicture /\ boxes' = Append(<<>>, box)
      /\ UNCHANGED <<Image, disk, m_bAutoSave, made, request, answers, running>>
  BY DEF SaveAs, IsImageShown, Open, SameFiles, NoLoads
<1>2. ThenOK(Done, made')
  BY <1>1, CommandFacts, SimpleThenOK DEF Done
<1>3. BoxOK(box, made') /\ box.kind \in Callers \ {"changed"}
  BY <1>1, <1>2, CommandFacts, CallerBoxOK DEF Callers
<1> HIDE DEF box
<1>4. Ready(Done, <<>>, Image)
  BY <1>1, <1>2, CommandFacts, CommandReady
<1>5. Settled
  BY <1>1, <1>3, <1>4, OpenSettles
<1> QED BY <1>1, <1>5, CommandFacts, CalmStep, SameMemorySelf

LEMMA UnloadOK ==
  ASSUME IInv, Unload
  PROVE  StepOK
<1>1. /\ Command /\ Image' = SetImage(Image, NoPicture, NoPath)
      /\ UNCHANGED <<disk, m_bAutoSave, made, boxes, running, request, answers>>
  BY DEF Unload, SameFiles, SameBoxes, NoLoads
<1>2. ViewOK(Image', made') /\ Image'._image = NoPicture
  BY <1>1, CommandFacts, Now, SetImageOK DEF NoName
<1>3. Settled
  BY <1>1, <1>2, CommandFacts, Now DEF Settled
<1>4. IInv'
  BY <1>1, <1>3, CommandFacts, Assembled
<1>5. Consent /\ Known(Image)
  BY <1>2 DEF Consent, Known, Shows, Unsaved
<1> QED BY <1>4, <1>5 DEF StepOK

\* The next number is free.
LEMMA MakePictureFacts ==
  ASSUME IInv, MakePicture
  PROVE  /\ made' = made + 1 /\ made' \in Nat /\ made' \in 0 .. MaxPictures /\ made <= made'
         /\ \A key \in BOOLEAN : Fresh(key) \in Picture /\ Fresh(key).n = made'
         /\ DiskOK(disk, made') /\ AnswersOK(answers, made')
         /\ ViewOK(Image, made') /\ StackOK(boxes, made')
<1>1. made' = made + 1 /\ made' \in 1 .. MaxPictures /\ made \in Nat
  BY Now, PictureFacts DEF MakePicture
<1>2. \A key \in BOOLEAN : Fresh(key) \in Picture /\ Fresh(key).n = made'
  BY <1>1 DEF Fresh, Picture
<1>3. made' \in Nat /\ made <= made'
  BY <1>1
<1> QED BY <1>1, <1>2, <1>3, Now, Grows

LEMMA LoadImageFromHGlobalOK ==
  ASSUME IInv, LoadImageFromHGlobal
  PROVE  StepOK
<1>1. /\ Command /\ MakePicture /\ Image' = SetImage(Image, Fresh(FALSE), NoPath)
      /\ UNCHANGED <<disk, m_bAutoSave, boxes, running, request, answers>>
  BY DEF LoadImageFromHGlobal, SameBoxes, NoLoads
<1> DEFINE picture == Fresh(FALSE)
<1>k. ~picture.key
  BY DEF Fresh
<1>2. picture \in Picture /\ picture.n = made'
  BY <1>1, MakePictureFacts
<1>i. Image' = SetImage(Image, picture, NoPath)
  BY <1>1
<1> HIDE DEF picture
<1>3. ViewOK(Image', made') /\ Image'._path = NoPath
  <2>1. made' \in Nat /\ picture.n <= made' /\ picture # NoPicture /\ NoPath \in NoName
    BY <1>1, <1>2, MakePictureFacts, PictureFacts DEF NoName
  <2> QED BY <2>1, <1>k, <1>2, <1>i, Now, SetImageOK
<1>4. Settled
  BY <1>1, <1>3, CommandFacts, Now DEF Settled
<1>5. IInv'
  BY <1>1, <1>4, CommandFacts, MakePictureFacts, Now, Assembled DEF RestAfter
<1>6. Consent /\ Known(Image)
  BY <1>3 DEF Consent, Known, Shows, Unsaved
<1> QED BY <1>5, <1>6 DEF StepOK

LEMMA ToggleAutoSaveOK ==
  ASSUME IInv, ToggleAutoSave
  PROVE  StepOK
<1>1. /\ Command /\ m_bAutoSave' = ~m_bAutoSave
      /\ UNCHANGED <<Image, disk, made, boxes, running, request, answers>>
  BY DEF ToggleAutoSave, SameBoxes, NoLoads
<1>2. RestAfter
  BY <1>1, CommandFacts, Now DEF RestAfter
<1>3. Settled
  BY <1>1, CommandFacts, Now DEF Settled
<1> QED BY <1>1, <1>2, <1>3, CommandFacts, CalmStep, SameMemorySelf

LEMMA OnCloseOK ==
  ASSUME IInv, OnClose
  PROVE  StepOK
<1> DEFINE then == [do |-> "close"]
<1>1. /\ Command /\ QuerySave(then, <<>>, Image) /\ UNCHANGED <<m_bAutoSave, made, answers>>
  BY DEF OnClose
<1>2. Ready(then, <<>>, Image)
  BY <1>1, CommandFacts, CommandReady, SimpleThenOK
<1> HIDE DEF then
<1>3. DiskOK(disk, made')
  BY <1>1, Now
<1>4. Settled /\ DiskOK(disk', made') /\ Known(Image) /\ (Image._bDirty => Keeps(Image))
  BY <1>1, <1>2, <1>3, QuerySaveSettles
<1> QED BY <1>1, <1>4, CommandFacts, SaveStep, SameMemorySelf

LEMMA CommandsOK ==
  ASSUME IInv, Commands
  PROVE  StepOK
BY BrowseOK, OpenEditorOK, UndoCommandOK, SaveCommandOK, SaveMoveNextOK, SaveAsCommandOK,
   UnloadOK, LoadImageFromHGlobalOK, ToggleAutoSaveOK, OnCloseOK DEF Commands

(***************************************************************************)
(* What arrives.                                                           *)
(***************************************************************************)
LEMMA SameStays ==
  ASSUME NEW v, NEW w, NEW bs, NEW r, Stays(v, bs, r), w._image = v._image,
         w._arUndo = v._arUndo, w._bStopped = v._bStopped
  PROVE  Stays(w, bs, r)
BY DEF Stays

LEMMA RestStays ==
  ASSUME IInv, UNCHANGED <<m_bAutoSave, made, ops>>, replaced' \in BOOLEAN
  PROVE  /\ RestAfter /\ made' \in Nat
         /\ ViewOK(Image, made') /\ StackOK(boxes, made') /\ DiskOK(disk, made')
         /\ AnswersOK(answers, made')
BY Now, PictureFacts DEF RestAfter

LEMMA LoadOK ==
  ASSUME IInv, Load
  PROVE  StepOK
<1> DEFINE info == [_path |-> request, _image |-> Decoded(disk[request])]
<1>1. /\ running /\ request # NoPath /\ answers' = Append(answers, info) /\ request' = NoPath
      /\ UNCHANGED <<disk, m_bAutoSave, made, boxes, running, Image, ops, replaced>>
  BY DEF Load, SameFiles, SameBoxes
<1>2. request \in Paths /\ disk[request] \in Picture \cup {NoPicture}
      /\ (disk[request] # NoPicture => disk[request].n <= made')
  BY <1>1, Now DEF NoName, DiskOK
<1>3. info \in CImageLoad /\ (info._image # NoPicture => info._image.n <= made')
  BY <1>2, DecodedFacts DEF CImageLoad
<1> HIDE DEF info
<1>4. AnswersOK(answers', made')
  <2>1. answers \in Seq(CImageLoad) /\ Len(answers) \in Nat
    BY Now DEF AnswersOK
  <2>2. /\ answers' \in Seq(CImageLoad) /\ Len(answers') = Len(answers) + 1
        /\ answers'[Len(answers) + 1] = info
        /\ \A i \in 1 .. Len(answers) : answers'[i] = answers[i]
    BY <2>1, <1>1, <1>3, AppendProperties
  <2>3. \A i \in 1 .. Len(answers') : i = Len(answers) + 1 \/ i \in 1 .. Len(answers)
    BY <2>1, <2>2
  <2> QED BY <2>2, <2>3, <1>1, <1>3, Now DEF AnswersOK
<1>5. Settled
  BY <1>1, Now DEF Settled, NoName
<1>6. RestAfter /\ DiskOK(disk', made')
  BY <1>1, Now, RestStays
<1> QED BY <1>1, <1>4, <1>5, <1>6, CalmStep, SameMemorySelf

LEMMA OnLoadCompleteOK ==
  ASSUME IInv, OnLoadComplete
  PROVE  StepOK
<1> DEFINE info == Head(answers)
<1>1. /\ running /\ answers # <<>> /\ answers' = Tail(answers)
      /\ UNCHANGED <<m_bAutoSave, made, ops, replaced>>
  BY DEF OnLoadComplete
<1>r. RestAfter /\ DiskOK(disk, made') /\ made' \in Nat
  BY <1>1, Now, RestStays
<1>2. answers \in Seq(CImageLoad) /\ Len(answers) \in Nat
  BY Now DEF AnswersOK
<1>3. AnswersOK(answers', made')
  <2>1. /\ answers' \in Seq(CImageLoad) /\ Len(answers') = Len(answers) - 1
        /\ \A i \in 1 .. Len(answers) - 1 : answers'[i] = answers[i + 1]
    BY <1>1, <1>2, HeadTailProperties
  <2>2. \A i \in 1 .. Len(answers') : i \in 1 .. Len(answers) - 1 /\ i + 1 \in 1 .. Len(answers)
    BY <1>2, <2>1
  <2> QED BY <2>1, <2>2, <1>1, Now DEF AnswersOK
<1>4. info \in CImageLoad /\ (info._image # NoPicture => info._image.n <= made')
  <2>1. Len(answers) \in Nat \ {0} /\ info = answers[1]
    BY <1>1, <1>2, EmptySeq
  <2>2. 1 \in 1 .. Len(answers)
    BY <2>1
  <2> QED BY <2>1, <2>2, <1>1, <1>2, Now DEF AnswersOK
<1>5. CASE Image._bStopped /\ UNCHANGED <<Image, disk, request, running, boxes>>
  <2>1. Settled
    BY <1>1, <1>5, Now DEF Settled
  <2> QED BY <2>1, <1>1, <1>3, <1>5, <1>r, CalmStep, SameMemorySelf
<1>6. CASE ~Image._bStopped /\ LoadNext
  <2>1. request' \in NoName /\ UNCHANGED <<Image, disk, running, boxes>>
    BY <1>6, Now DEF LoadNext, NoName
  <2>2. Settled
    BY <2>1, <1>1, Now DEF Settled
  <2> QED BY <2>1, <2>2, <1>1, <1>3, <1>r, CalmStep, SameMemorySelf
<1>7. CASE /\ ~Image._bStopped /\ info._image # NoPicture
           /\ CanDisplayNewImage(Show(info._path, info._image), boxes, Image)
  <2> DEFINE then == Show(info._path, info._image)
  <2>1. info._path \in Paths /\ info._image \in Picture /\ info._image.n <= made'
    BY <1>4, <1>7 DEF CImageLoad
  <2>2. ThenOK(then, made')
    BY <2>1, <1>r, ShowOK
  <2>3. CanDisplayNewImage(then, boxes, Image)
    BY <1>7
  <2> HIDE DEF then
  <2>4. Edits(boxes) => replaced'
    BY <1>1, <1>7, Now DEF Stays
  <2>5. Ready(then, boxes, Image)
    BY <2>2, <2>4, <1>1, <1>r, Now DEF Ready
  <2>6. Settled /\ DiskOK(disk', made') /\ Known(Image) /\ (Image._bDirty => Keeps(Image))
    BY <2>3, <2>5, <1>r, CanDisplaySettles
  <2> QED BY <2>6, <1>1, <1>3, <1>r, SaveStep, SameMemorySelf
<1> QED BY <1>5, <1>6, <1>7 DEF OnLoadComplete

LEMMA OnFolderRefreshOK ==
  ASSUME IInv, OnFolderRefresh
  PROVE  StepOK
<1> DEFINE box == [kind |-> "changed", then |-> Done]
<1>1. /\ running /\ Image.touched /\ Image' = [Image EXCEPT !.touched = FALSE]
      /\ boxes' = Append(boxes, box)
      /\ UNCHANGED <<disk, m_bAutoSave, made, request, answers, running, ops, replaced>>
  BY DEF OnFolderRefresh, Open, SameFiles, NoLoads
<1>r. /\ RestAfter /\ made' \in Nat /\ DiskOK(disk', made') /\ AnswersOK(answers', made')
      /\ ViewOK(Image, made') /\ StackOK(boxes, made')
  BY <1>1, Now, RestStays
<1>2. Image._path # NoPath /\ Image._image # NoPicture
  BY <1>1, Now DEF ViewOK
<1>3. /\ ViewOK(Image', made') /\ SameMemory(Image', Image) /\ Image'._bDirty = Image._bDirty
      /\ Image'._bStopped = Image._bStopped /\ Image'.onFile = Image.onFile
  BY <1>1, <1>r, TouchedOK
<1>4. BoxOK(box, made') /\ box.kind = "changed"
  BY <1>r, CallerBoxOK, SimpleThenOK DEF Done
<1> HIDE DEF box
<1>5. box.kind \in Callers
  BY <1>4 DEF Callers
<1>6. StackOK(boxes', made')
  BY <1>1, <1>4, <1>5, <1>r, OpenOK
<1>7. Fits(Image', boxes')
  <2>1. Fits(Image', boxes) /\ Image'._image # NoPicture /\ Image'._path # NoPath
    BY <1>2, <1>3, Now, SameFits DEF SameMemory
  <2> QED BY <2>1, <1>1, <1>4, <1>5, <1>r, OpenFits
<1>8. Stays(Image', boxes', replaced')
  <2>1. Stays(Image', boxes, replaced')
    BY <1>1, <1>3, Now, SameStays DEF SameMemory
  <2> QED BY <2>1, <1>1, <1>4, <1>5, <1>r, OpenStays
<1>9. Settled
  BY <1>1, <1>3, <1>6, <1>7, <1>8, Now DEF Settled
<1> QED BY <1>1, <1>3, <1>9, <1>r, CalmStep

LEMMA ExternalWriteOK ==
  ASSUME IInv, NEW p \in Paths, ExternalWrite(p)
  PROVE  StepOK
<1> DEFINE t == Image.touched \/ Image._path = p
           picture == Fresh(TRUE)
<1>1. /\ running /\ MakePicture /\ disk' = [disk EXCEPT ![p] = picture]
      /\ Image' = [Image EXCEPT !.touched = t]
      /\ UNCHANGED <<boxes, running, request, answers, m_bAutoSave, ops, replaced>>
  BY DEF ExternalWrite, SameBoxes, NoLoads
<1>2. /\ made' \in Nat /\ made' \in 0 .. MaxPictures /\ picture \in Picture /\ picture.n = made'
      /\ DiskOK(disk, made') /\ AnswersOK(answers', made')
      /\ ViewOK(Image, made') /\ StackOK(boxes', made')
  BY <1>1, MakePictureFacts
<1>3. t \in BOOLEAN /\ (t => Image._path # NoPath)
  BY Now, ViewFields, PictureFacts DEF ViewOK
<1> HIDE DEF t, picture
<1>4. /\ ViewOK(Image', made') /\ SameMemory(Image', Image) /\ Image'._bDirty = Image._bDirty
      /\ Image'._bStopped = Image._bStopped /\ Image'.onFile = Image.onFile
  BY <1>1, <1>2, <1>3, TouchedOK
<1>5. DiskOK(disk', made')
  BY <1>1, <1>2 DEF DiskOK
<1>6. Fits(Image', boxes') /\ Stays(Image', boxes', replaced')
  BY <1>1, <1>4, Now, SameFits, SameStays DEF SameMemory
<1>7. Settled
  BY <1>1, <1>2, <1>4, <1>6, Now DEF Settled
<1>8. RestAfter
  BY <1>1, <1>2, Now DEF RestAfter
<1> QED BY <1>1, <1>2, <1>4, <1>5, <1>7, <1>8, CalmStep

LEMMA EventsOK ==
  ASSUME IInv, Events
  PROVE  StepOK
BY LoadOK, OnLoadCompleteOK, OnFolderRefreshOK, ExternalWriteOK DEF Events

(***************************************************************************)
(* The user's answers.                                                     *)
(***************************************************************************)
LEMMA AnswerFacts ==
  ASSUME IInv, NEW kind, Answer(kind)
  PROVE  /\ running /\ boxes # <<>> /\ Last(boxes).kind = kind
         /\ BoxOK(Last(boxes), made)
         /\ StackOK(Below, made) /\ Fits(Image, Below) /\ Stays(Image, Below, replaced)
         /\ Image._image # NoPicture
         /\ Edits(Below) => replaced \/ kind = "changed"
         /\ kind \in Callers => ThenOK(Caller, made)
         /\ kind \notin Callers => Below = <<>> /\ Last(boxes) = boxes[1]
         /\ Below # <<>> => Below[1] = boxes[1]
         /\ UNCHANGED <<m_bAutoSave, answers, ops>>
<1>1. boxes # <<>> /\ Last(boxes).kind = kind /\ made \in Nat /\ StackOK(boxes, made)
  BY Now DEF Answer
<1>2. /\ StackOK(Below, made) /\ BoxOK(Last(boxes), made)
      /\ Below = <<>> => Last(boxes) = boxes[1]
      /\ Below # <<>> => Last(boxes).kind \in Callers /\ Below[1] = boxes[1]
  BY <1>1, AnswerOK DEF Below
<1>3. /\ Fits(Image, Below) /\ Image._image # NoPicture /\ Stays(Image, Below, replaced)
      /\ Edits(Below) => replaced \/ kind = "changed"
  BY <1>1, Now, AnswerKeeps DEF Below
<1>4. kind \in Callers => ThenOK(Caller, made)
  BY <1>1, <1>2 DEF BoxOK, Caller
<1> QED BY <1>1, <1>2, <1>3, <1>4 DEF Answer

\* The handler of a box other than the timer's goes on.
LEMMA AnswerReady ==
  ASSUME IInv, NEW kind \in Callers \ {"changed"}, Answer(kind), UNCHANGED <<made, replaced>>
  PROVE  /\ Ready(Caller, Below, Image)
         /\ RestAfter /\ DiskOK(disk, made') /\ AnswersOK(answers', made')
<1>1. /\ StackOK(Below, made) /\ Fits(Image, Below) /\ ThenOK(Caller, made)
      /\ Edits(Below) => replaced
      /\ UNCHANGED <<m_bAutoSave, answers, ops>>
  BY AnswerFacts
<1> QED BY <1>1, Now, RestStays DEF Ready

\* A box is closed, and the picture stays.
LEMMA GiveUpStep ==
  ASSUME IInv, NEW kind, Answer(kind), GiveUp(Below, Image), UNCHANGED <<disk, made>>,
         replaced' \in BOOLEAN, Below # <<>> => replaced' \/ replaced' = replaced
  PROVE  StepOK
<1>1. /\ running /\ StackOK(Below, made) /\ Fits(Image, Below) /\ Stays(Image, Below, replaced)
      /\ UNCHANGED <<m_bAutoSave, answers, ops>>
  BY AnswerFacts
<1>2. boxes' = Below /\ UNCHANGED <<Image, request, running>>
  BY DEF GiveUp
<1>3. Stays(Image, Below, replaced')
  BY <1>1 DEF Stays, Edits
<1>4. Settled
  BY <1>1, <1>2, <1>3, Now DEF Settled
<1>5. RestAfter /\ DiskOK(disk', made') /\ AnswersOK(answers', made')
  BY <1>1, Now, RestStays
<1> QED BY <1>1, <1>2, <1>4, <1>5, CalmStep, SameMemorySelf

LEMMA QueryYesOK ==
  ASSUME IInv, QueryYes
  PROVE  StepOK
<1>1. Answer("query") /\ Save(Caller, Below, Image) /\ UNCHANGED <<made, replaced>>
  BY DEF QueryYes
<1>2. /\ Ready(Caller, Below, Image) /\ RestAfter /\ DiskOK(disk, made')
      /\ AnswersOK(answers', made') /\ running /\ Image._image # NoPicture
  BY <1>1, AnswerReady, AnswerFacts DEF Callers
<1>3. Settled /\ DiskOK(disk', made') /\ Known(Image) /\ Keeps(Image)
  BY <1>1, <1>2, SaveSettles
<1> QED BY <1>2, <1>3, SaveStep, SameMemorySelf

LEMMA QueryNoOK ==
  ASSUME IInv, QueryNo
  PROVE  StepOK
<1>1. Answer("query") /\ Resume(Caller, Below, Image) /\ UNCHANGED <<disk, made, replaced>>
  BY DEF QueryNo
<1>2. /\ Ready(Caller, Below, Image) /\ RestAfter /\ DiskOK(disk', made')
      /\ AnswersOK(answers', made')
  BY <1>1, AnswerReady DEF Callers
<1>3. Settled /\ Known(Image)
  BY <1>1, <1>2, ResumeOK DEF Known
<1>4. IInv'
  BY <1>2, <1>3, Assembled
<1> QED BY <1>3, <1>4 DEF StepOK, Consent

LEMMA CancelOK ==
  ASSUME IInv, Cancel
  PROVE  StepOK
<1>1. /\ \E kind : Answer(kind)
      /\ GiveUp(Below, Image) /\ UNCHANGED <<disk, made>>
      /\ replaced' = (replaced /\ Below # <<>>)
  BY DEF Cancel
<1>2. replaced' \in BOOLEAN /\ (Below # <<>> => replaced' = replaced)
  BY <1>1, Now
<1> QED BY <1>1, <1>2, GiveUpStep

LEMMA FormatYesOK ==
  ASSUME IInv, FormatOK
  PROVE  StepOK
<1> DEFINE box == [kind |-> "saveas", then |-> Caller]
<1>1. /\ Answer("format") /\ boxes' = Append(Below, box)
      /\ UNCHANGED <<Image, disk, made, request, running, replaced>>
  BY DEF FormatOK, Open
<1>2. /\ Ready(Caller, Below, Image) /\ RestAfter /\ DiskOK(disk', made')
      /\ AnswersOK(answers', made') /\ running /\ Image._image # NoPicture
  BY <1>1, AnswerReady, AnswerFacts DEF Callers
<1>3. BoxOK(box, made') /\ box.kind \in Callers \ {"changed"}
  BY <1>2, CallerBoxOK DEF Ready, Callers
<1> HIDE DEF box
<1>4. Settled
  BY <1>1, <1>2, <1>3, OpenSettles
<1> QED BY <1>1, <1>2, <1>4, CalmStep, SameMemorySelf

LEMMA SaveAsYesOK ==
  ASSUME IInv, SaveAsOK
  PROVE  StepOK
<1>1. Answer("saveas") /\ UNCHANGED <<made, replaced>>
  BY DEF SaveAsOK
<1>2. PICK path \in Paths : SaveTo(Caller, Below, Image, path)
  BY DEF SaveAsOK
<1>3. /\ Ready(Caller, Below, Image) /\ RestAfter /\ DiskOK(disk, made')
      /\ AnswersOK(answers', made') /\ running /\ Image._image # NoPicture
  BY <1>1, AnswerReady, AnswerFacts DEF Callers
<1>4. Settled /\ DiskOK(disk', made') /\ Known(Image) /\ Keeps(Image)
  BY <1>2, <1>3, SaveToSettles
<1> QED BY <1>3, <1>4, SaveStep, SameMemorySelf

LEMMA MetaDataYesOK ==
  ASSUME IInv, MetaDataOK
  PROVE  StepOK
<1> DEFINE path == Last(boxes).path
<1>1. /\ Answer("metadata") /\ SaveFile(Caller, Below, Image, path)
      /\ UNCHANGED <<made, replaced>>
  BY DEF MetaDataOK
<1>2. path \in Paths
  BY <1>1, AnswerFacts DEF BoxOK
<1> HIDE DEF path
<1>3. /\ Ready(Caller, Below, Image) /\ RestAfter /\ DiskOK(disk, made')
      /\ AnswersOK(answers', made') /\ running /\ Image._image # NoPicture
  BY <1>1, AnswerReady, AnswerFacts DEF Callers
<1>4. Settled /\ DiskOK(disk', made') /\ Known(Image) /\ Keeps(Image)
  BY <1>1, <1>2, <1>3, WriteOKSettles, WriteFailsSettles DEF SaveFile, Known
<1> QED BY <1>3, <1>4, SaveStep, SameMemorySelf

\* The picture shown after an edit.
LEMMA EditedFacts ==
  ASSUME IInv, Image._image # NoPicture, MakePicture
  PROVE  /\ ViewOK(EditedImage, made')
         /\ EditedImage._bDirty
         /\ EditedImage._image \in Picture /\ EditedImage._image.n = made'
         /\ Image._image \in InMemory(EditedImage)
         /\ EditedImage._path = Image._path
<1> DEFINE picture == Fresh(Image._image.key)
<1>1. /\ made \in Nat /\ made' = made + 1 /\ made + 1 <= MaxPictures
      /\ ViewOK(Image, made)
  BY Now, MakePictureFacts, PictureFacts
<1>2. picture = [n |-> made + 1, key |-> Image._image.key]
  BY DEF Fresh
<1>3. EditedImage = SetImageWithHistory(Image, picture)
  BY DEF EditedImage
<1>4. picture.n = made'
  BY <1>1, <1>2
<1> HIDE DEF picture
<1>5. /\ ViewOK(EditedImage, made + 1) /\ EditedImage._image = picture
      /\ picture \in Picture /\ EditedImage._bDirty
      /\ \E i \in 1 .. Len(EditedImage._arUndo) : EditedImage._arUndo[i].image = Image._image
      /\ EditedImage._path = Image._path
  BY <1>1, <1>2, <1>3, EditedOK
<1> QED BY <1>1, <1>4, <1>5 DEF InMemory

LEMMA EditYesOK ==
  ASSUME IInv, EditOK
  PROVE  StepOK
<1>1. PICK kind \in {"edit", "sheet"} : Answer(kind)
  BY DEF EditOK
<1>2. /\ MakePicture /\ boxes' = Below /\ Image' = EditedImage
      /\ UNCHANGED <<request, running, disk>> /\ replaced' = FALSE
  BY DEF EditOK, GiveUp
<1>3. /\ Below = <<>> /\ running /\ Image._image # NoPicture
      /\ UNCHANGED <<m_bAutoSave, answers, ops>>
  BY <1>1, AnswerFacts DEF Callers
<1>4. /\ ViewOK(Image', made') /\ Image'._bDirty /\ Image._image \in InMemory(Image')
  BY <1>2, <1>3, EditedFacts
<1>5. Settled
  BY <1>2, <1>3, <1>4, Now DEF Settled, StackOK, Fits, Stays, Edits
<1>6. RestAfter /\ DiskOK(disk', made') /\ AnswersOK(answers', made')
  BY <1>2, <1>3, Now, MakePictureFacts DEF RestAfter
<1>7. IInv'
  BY <1>5, <1>6, Assembled
<1>8. ~Lost(Image._image) /\ Known(Image)
  BY <1>2, <1>3, <1>4 DEF Lost, Known, Shows, Unsaved
<1> QED BY <1>7, <1>8 DEF StepOK

LEMMA SaveAndMoveNextOK ==
  ASSUME IInv, SaveAndMoveNext
  PROVE  StepOK
<1> DEFINE then == [do |-> "sheet"]
<1>1. Answer("sheet") /\ replaced' = TRUE
  BY DEF SaveAndMoveNext
<1>2. /\ running /\ boxes # <<>> /\ boxes[1].kind = "sheet" /\ Image._image # NoPicture
      /\ UNCHANGED <<m_bAutoSave, answers, ops>>
  BY <1>1, AnswerFacts DEF Callers
<1>3. CASE UNCHANGED made /\ Save(then, boxes, Image)
  <2>1. /\ RestAfter /\ made' \in Nat /\ ViewOK(Image, made') /\ StackOK(boxes, made')
        /\ DiskOK(disk, made') /\ AnswersOK(answers', made') /\ ThenOK(then, made')
    BY <1>1, <1>2, <1>3, Now, RestStays, SimpleThenOK
  <2>2. Save(then, boxes, Image)
    BY <1>3
  <2> HIDE DEF then
  <2>3. Ready(then, boxes, Image)
    BY <2>1, <1>1, Now DEF Ready
  <2>4. Settled /\ DiskOK(disk', made') /\ Known(Image) /\ Keeps(Image)
    BY <2>1, <2>2, <2>3, <1>2, SaveSettles
  <2> QED BY <2>1, <2>4, <1>2, SaveStep, SameMemorySelf
<1>4. CASE MakePicture /\ Save(then, boxes, EditedImage)
  <2> DEFINE v == EditedImage
  <2>1. /\ ViewOK(v, made') /\ v._bDirty /\ v._image \in Picture /\ v._image.n = made'
        /\ v._image # NoPicture /\ Image._image \in InMemory(v)
    BY <1>2, <1>4, EditedFacts, PictureFacts
  <2>2. Save(then, boxes, v)
    BY <1>4
  <2>3. /\ made' = made + 1 /\ made \in Nat /\ made' \in Nat /\ made' \in 0 .. MaxPictures
        /\ StackOK(boxes, made') /\ DiskOK(disk, made') /\ AnswersOK(answers', made')
    BY <1>2, <1>4, Now, MakePictureFacts
  <2>4. ThenOK(then, made')
    BY <2>3, SimpleThenOK
  <2>5. v._path = Image._path
    BY <1>2, <1>4, EditedFacts
  <2> HIDE DEF then, v
  <2>6. Fits(v, boxes)
    BY <2>1, <2>5, <1>2, Now DEF Fits
  <2>7. Ready(then, boxes, v)
    BY <2>1, <2>3, <2>4, <2>6, <1>1, Now DEF Ready
  <2>8. Settled /\ DiskOK(disk', made') /\ Known(v) /\ Keeps(v)
    BY <2>1, <2>2, <2>3, <2>7, SaveSettles
  <2>9. RestAfter
    BY <2>3, <1>1, <1>2, Now DEF RestAfter
  <2>10. IInv'
    BY <2>3, <2>8, <2>9, Assembled
  <2>11. ~Unsaved(Image')
    BY <2>1, <2>8 DEF Known, Shows, CleanSaveFails, Unsaved
  <2>12. ~Lost(Image._image)
    <3>1. CASE running' = running /\ Image'._image = v._image /\ Image'._arUndo = v._arUndo
      BY <3>1, <2>1, <1>2 DEF Lost, InMemory
    <3>2. CASE \E p \in Paths : disk'[p] = v._image
      <4>1. v._image.n \in (made + 1) .. made'
        BY <2>1, <2>3
      <4> QED BY <4>1, <3>2, <2>1 DEF Lost
    <3> QED BY <3>1, <3>2, <2>8 DEF Keeps
  <2> QED BY <2>10, <2>11, <2>12 DEF StepOK, Known, Shows
<1> QED BY <1>3, <1>4 DEF SaveAndMoveNext

\* Undo takes a version of the picture that was shown when its box was opened.
LEMMA UndoYesOK ==
  ASSUME IInv, UndoOK
  PROVE  StepOK
<1> DEFINE o     == boxes[1].opened
           entry == Last(o._arUndo)
           rest  == IF Image._arUndo = <<>> THEN Image._arUndo ELSE Front(Image._arUndo)
<1>1. Answer("undo") /\ boxes' = Below /\ running' \in BOOLEAN /\ replaced' = FALSE
      /\ UNCHANGED <<disk, made, request>>
  BY DEF UndoOK
<1>2. /\ running /\ boxes # <<>> /\ Below = <<>> /\ Last(boxes) = boxes[1]
      /\ boxes[1].kind = "undo"
      /\ BoxOK(boxes[1], made) /\ UNCHANGED <<m_bAutoSave, answers, ops>>
  BY <1>1, AnswerFacts DEF Callers
<1>3. OpenedOK(o, made) /\ o._arUndo # <<>>
  BY <1>2 DEF BoxOK, Editors
<1>4. /\ Image._arUndo \in {o._arUndo, <<>>}
      /\ Image._path = NoPath => Unnamed(o)
  BY <1>2, Now DEF Fits
<1>5. Image' = [Image EXCEPT !._image = entry.image, !._bDirty = entry._bDirty,
                             !._arUndo = rest]
  BY <1>2 DEF UndoOK
<1>6. /\ o._arUndo \in Seq(CUndo) /\ Chain(o)
      /\ o._image \in Picture /\ o._image.n <= made
  BY <1>3 DEF OpenedOK, Opened
<1>7. /\ Len(o._arUndo) \in Nat /\ Len(o._arUndo) >= 1 /\ entry = o._arUndo[Len(o._arUndo)]
      /\ Front(o._arUndo) \in Seq(CUndo) /\ Len(Front(o._arUndo)) = Len(o._arUndo) - 1
      /\ \A i \in 1 .. Len(Front(o._arUndo)) :
           i \in 1 .. Len(o._arUndo) - 1 /\ Front(o._arUndo)[i] = o._arUndo[i]
  BY <1>3, <1>6, FrontFacts
<1>8. rest \in {Front(o._arUndo), <<>>}
  BY <1>4
<1> HIDE DEF o, entry, rest
<1>9. Len(o._arUndo) \in 1 .. Len(o._arUndo)
  BY <1>7
<1>10. /\ entry.image \in Picture /\ entry._bDirty \in BOOLEAN /\ entry.image # NoPicture
       /\ entry.image.n <= made
       /\ Unnamed(o) => ~entry.image.key
  <2>1. entry \in CUndo
    BY <1>6, <1>7, <1>9
  <2>2. entry.image \in Picture /\ entry._bDirty \in BOOLEAN
    BY <2>1, EntryFields
  <2>3. entry.image.n < o._image.n
    BY <1>6, <1>7, <1>9 DEF Chain
  <2>4. Unnamed(o) => ~entry.image.key
    BY <1>6, <1>7, <1>9 DEF Unnamed
  <2> QED BY <2>2, <2>3, <2>4, <1>6, Now, PictureFacts
<1>11. /\ rest \in Seq(CUndo) /\ Len(rest) \in Nat /\ Len(rest) <= MaxUndo + 1
       /\ \A i \in 1 .. Len(rest) : /\ i \in 1 .. Len(o._arUndo) /\ i < Len(o._arUndo)
                                    /\ rest[i] = o._arUndo[i]
  <2>1. CASE rest = <<>>
    BY <2>1, PictureFacts
  <2>2. CASE rest = Front(o._arUndo)
    BY <2>2, <1>6, <1>7, PictureFacts DEF Chain
  <2> QED BY <2>1, <2>2, <1>8
<1>12. /\ Image'._image = entry.image /\ Image'._bDirty = entry._bDirty
       /\ Image'._arUndo = rest /\ Image'._path = Image._path
       /\ Image'.touched = Image.touched
       /\ Image' \in ImageState
  BY <1>5, <1>10, <1>11, Now DEF ImageState
<1>13. Chain(Image')
  <2>1. \A i \in 1 .. Len(rest) : rest[i].image.n < entry.image.n
    BY <1>6, <1>7, <1>9, <1>11 DEF Chain
  <2>2. \A i, j \in 1 .. Len(rest) : i < j => rest[i].image.n < rest[j].image.n
    BY <1>6, <1>11 DEF Chain
  <2> QED BY <2>1, <2>2, <1>10, <1>11, <1>12 DEF Chain
<1>14. KeyOK(Image')
  <2>1. Unnamed(o) => \A i \in 1 .. Len(rest) : ~rest[i].image.key
    BY <1>6, <1>11 DEF Unnamed
  <2> QED BY <2>1, <1>4, <1>10, <1>12 DEF KeyOK
<1>15. ViewOK(Image', made')
  BY <1>1, <1>10, <1>12, <1>13, <1>14, Now DEF ViewOK
<1>16. Settled
  BY <1>1, <1>2, <1>15, Now DEF Settled, StackOK, Fits, Stays, Edits
<1>17. RestAfter /\ DiskOK(disk', made') /\ AnswersOK(answers', made')
  BY <1>1, <1>2, Now, RestStays
<1>18. IInv'
  BY <1>16, <1>17, Assembled
<1> QED BY <1>18 DEF StepOK, Consent

LEMMA ReloadOK ==
  ASSUME IInv, Reload
  PROVE  StepOK
<1> DEFINE picture == Decoded(disk[Image._path])
           then    == Show(Image._path, picture)
           v       == Listening(Image)
<1>1. Answer("changed") /\ replaced' = (Below # <<>>) /\ UNCHANGED made
  BY DEF Reload
<1>2. /\ running /\ StackOK(Below, made) /\ Fits(Image, Below)
      /\ UNCHANGED <<m_bAutoSave, answers, ops>>
  BY <1>1, AnswerFacts
<1>3. Image._path \in Paths
  <2>1. boxes \in Seq(Boxes) /\ boxes # <<>> /\ Last(boxes).kind = "changed"
    BY <1>1, Now DEF Answer, StackOK
  <2>n. Len(boxes) \in Nat /\ Len(boxes) >= 1 /\ Last(boxes) = boxes[Len(boxes)]
    BY <2>1, FrontFacts
  <2>2. boxes[Len(boxes)].kind = "changed" /\ Len(boxes) \in 1 .. Len(boxes)
    BY <2>1, <2>n
  <2>3. Image._path # NoPath
    BY <2>2, Now DEF Fits
  <2> QED BY <2>3, Now, ViewFields DEF NoName
<1>4. replaced' \in BOOLEAN
  BY <1>1
<1>5. /\ RestAfter /\ made' \in Nat /\ ViewOK(Image, made') /\ DiskOK(disk, made')
      /\ AnswersOK(answers', made') /\ StackOK(Below, made')
  BY <1>1, <1>2, <1>4, Now, RestStays
<1>6. CASE picture = NoPicture
  <2>1. GiveUp(Below, Image) /\ UNCHANGED disk
    BY <1>6 DEF Reload
  <2> QED BY <2>1, <1>1, <1>4, GiveUpStep
<1>7. CASE picture # NoPicture
  <2>1. CanDisplayNewImage(then, Below, v)
    BY <1>7 DEF Reload
  <2>2. picture \in Picture /\ picture.n <= made'
    BY <1>3, <1>5, <1>7, DecodedFacts DEF DiskOK
  <2>3. ThenOK(then, made')
    BY <2>2, <1>3, <1>5, ShowOK
  <2>4. /\ ViewOK(v, made') /\ SameMemory(v, Image) /\ v._bDirty = Image._bDirty
        /\ v.onFile = Image.onFile
    BY <1>5, ListeningOK
  <2> HIDE DEF v, then
  <2>5. Fits(v, Below)
    BY <2>4, <1>2, SameFits
  <2>6. Edits(Below) => replaced'
    BY <1>1 DEF Edits
  <2>7. Ready(then, Below, v)
    BY <2>3, <2>4, <2>5, <2>6, <1>5, Now DEF Ready
  <2>8. Settled /\ DiskOK(disk', made') /\ Known(v) /\ (v._bDirty => Keeps(v))
    BY <2>1, <2>7, <1>5, CanDisplaySettles
  <2> QED BY <2>4, <2>8, <1>2, <1>5, SaveStep
<1> QED BY <1>6, <1>7

LEMMA AnswersAreOK ==
  ASSUME IInv, Answers
  PROVE  StepOK
BY QueryYesOK, QueryNoOK, CancelOK, FormatYesOK, SaveAsYesOK, MetaDataYesOK, EditYesOK,
   SaveAndMoveNextOK, UndoYesOK, ReloadOK DEF Answers

(***************************************************************************)
(* The theorems.                                                           *)
(***************************************************************************)
LEMMA NextOK ==
  ASSUME IInv, Next
  PROVE  StepOK
BY CommandsOK, EventsOK, AnswersAreOK DEF Next

LEMMA InitOK ==
  ASSUME Init
  PROVE  IInv
<1>1. Cardinality(Paths) \in Nat /\ Cardinality(Paths) <= MaxPictures
  BY EditingAssumption, FS_CardinalityType
<1>2. RestOK
  <2>1. Cardinality(Paths) \in 0 .. MaxPictures /\ 0 \in 0 .. MaxOps
    BY <1>1, PictureFacts
  <2> QED BY <2>1 DEF Init, RestOK, NoName
<1>3. DiskOK(disk, made)
  <2>1. [n : 1 .. Cardinality(Paths), key : {TRUE}] \subseteq Picture
    <3>1. 1 .. Cardinality(Paths) \subseteq 1 .. MaxPictures
      BY <1>1, PictureFacts
    <3> QED BY <3>1 DEF Picture
  <2>2. \A picture \in [n : 1 .. Cardinality(Paths), key : {TRUE}] :
          picture.n <= Cardinality(Paths)
    BY <1>1
  <2>3. \A p \in Paths : disk[p] \in [n : 1 .. Cardinality(Paths), key : {TRUE}]
    BY DEF Init
  <2>4. disk \in [Paths -> Picture \cup {NoPicture}]
    BY <2>1 DEF Init
  <2> QED BY <2>2, <2>3, <2>4 DEF DiskOK, Init
<1>4. AnswersOK(answers, made)
  BY DEF AnswersOK, Init
<1>5. Empty \in ImageState
  BY DEF Empty, ImageState, NoName
<1>6. /\ Empty._image = NoPicture /\ Empty._path = NoPath /\ Empty._arUndo = <<>>
      /\ ~Empty._bDirty /\ ~Empty.touched
  BY DEF Empty
<1>7. ShownOK
  <2>1. Chain(Empty)
    BY <1>6, PictureFacts DEF Chain
  <2>2. KeyOK(Empty)
    BY <1>6 DEF KeyOK
  <2> QED BY <1>5, <1>6, <2>1, <2>2 DEF ShownOK, ViewOK, Init
<1>8. StackedOK /\ Fits(Image, boxes) /\ Stays(Image, boxes, replaced)
  BY DEF StackedOK, StackOK, Fits, Stays, Edits, Init
<1> QED BY <1>2, <1>3, <1>4, <1>7, <1>8 DEF IInv

LEMMA StutterOK ==
  ASSUME IInv, UNCHANGED vars
  PROVE  IInv'
BY DEF vars, IInv, RestOK, ShownOK, StackedOK

\* The inductive invariant holds in every reachable state, for every set of files and
\* every bound.
THEOREM InductiveInvariant == Spec => []IInv
<1>1. Init => IInv
  BY InitOK
<1>2. IInv /\ [Next]_vars => IInv'
  BY NextOK, StutterOK DEF StepOK
<1> QED BY <1>1, <1>2, PTL DEF Spec

\* Type correctness of the viewer, its files and its boxes.
THEOREM TypesHold == Spec => []TypeOK
<1>1. IInv => TypeOK
  <2>1. ASSUME IInv, NEW i \in 1 .. Len(boxes), boxes[i].kind = "metadata"
        PROVE  boxes[i].path \in Paths
    BY <2>1, Now DEF StackOK, BoxOK
  <2>2. ASSUME IInv
        PROVE  /\ Image \in ImageState /\ disk \in [Paths -> Picture \cup {NoPicture}]
               /\ answers \in Seq(CImageLoad) /\ boxes \in Seq(Boxes)
               /\ request \in NoName /\ running \in BOOLEAN /\ ops \in 0 .. MaxOps
               /\ m_bAutoSave \in BOOLEAN /\ replaced \in BOOLEAN
    BY <2>2, Now DEF DiskOK, AnswersOK, StackOK
  <2>3. IInv => made \in 0 .. MaxPictures
    BY DEF IInv, RestOK
  <2> QED BY <2>1, <2>2, <2>3 DEF TypeOK
<1> QED BY <1>1, InductiveInvariant, PTL

\* Undo goes back in time: SetImageWithHistory, Undo and the ResetHistory of every
\* SetImage keep the versions in order and few, however the boxes nest.
THEOREM UndoGoesBack == Spec => []UndoChain
<1>1. IInv => UndoChain
  <2>1. SUFFICES ASSUME IInv PROVE UndoChain
    OBVIOUS
  <2>2. Image._arUndo \in Seq(CUndo) /\ Chain(Image)
    BY <2>1, Now, ViewFields DEF ViewOK
  <2> DEFINE versions == [i \in 1 .. Len(Image._arUndo) |-> Image._arUndo[i].image.n]
  <2>3. /\ Len(Image._arUndo) <= MaxUndo + 1
        /\ \A i, j \in DOMAIN versions : i < j => versions[i] < versions[j]
        /\ Image._image # NoPicture => \A i \in DOMAIN versions : versions[i] < Image._image.n
    BY <2>2 DEF Chain
  <2>4. Image._image = NoPicture => versions = <<>>
    <3>1. Image._image = NoPicture => ~(1 \in 1 .. Len(Image._arUndo))
      BY <2>2 DEF Chain
    <3>2. Image._image = NoPicture => Len(Image._arUndo) = 0
      BY <2>2, <3>1
    <3> QED BY <3>2
  <2> QED BY <2>3, <2>4 DEF UndoChain
<1> QED BY <1>1, InductiveInvariant, PTL

\* The picture and its undo list stay under an editor, whatever the loader and the
\* timer do, until the user asks for another picture.
THEOREM PictureStaysUnderEditor == Spec => []PictureStays
<1>1. IInv => PictureStays
  <2>1. SUFFICES ASSUME IInv, NEW i \in 1 .. Len(boxes),
                        boxes[i].kind \in {"edit", "undo", "sheet"}, ~replaced
                 PROVE  /\ Image._image = boxes[i].opened._image
                        /\ Image._arUndo = boxes[i].opened._arUndo
    BY DEF PictureStays
  <2>2. StackOK(boxes, made) /\ Stays(Image, boxes, replaced)
    BY <2>1, Now
  <2>3. boxes \in Seq(Boxes) /\ Len(boxes) \in Nat /\ boxes # <<>>
    BY <2>1, <2>2 DEF StackOK
  <2>4. i = 1
    <3>1. boxes[i].kind \notin Callers
      BY <2>1 DEF Callers
    <3>2. i \notin 2 .. Len(boxes)
      BY <3>1, <2>2 DEF StackOK
    <3> QED BY <3>2, <2>3
  <2>5. Edits(boxes)
    BY <2>1, <2>3, <2>4 DEF Edits, Editors
  <2> QED BY <2>1, <2>2, <2>4, <2>5 DEF Stays
<1> QED BY <1>1, InductiveInvariant, PTL

\* A picture with unsaved changes is lost only when the user gives it up.
THEOREM NothingLostUnasked == Spec => AskedBeforeLost
<1>1. IInv /\ [Next]_vars => [Image._bDirty /\ Lost(Image._image) => Consent]_vars
  BY NextOK DEF StepOK
<1> QED BY <1>1, InductiveInvariant, PTL DEF Spec, AskedBeforeLost

\* A picture whose changes are not in its file counts as saved only after Undo, or after
\* a save of a picture without changes has destroyed the file; no other step of the
\* commands, the boxes and what arrives in them hides a change.
THEOREM ChangesStayKnown == Spec => HidesChanges
<1>1. IInv /\ [Next]_vars =>
        [Unsaved(Image') /\ ~Unsaved(Image) => UndoOK \/ CleanSaveFails(Image)]_vars
  BY NextOK DEF StepOK, Known, Shows
<1> QED BY <1>1, InductiveInvariant, PTL DEF Spec, HidesChanges
=============================================================================
