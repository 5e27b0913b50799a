--------------------------- MODULE ImageViewerProof ---------------------------
(***************************************************************************)
(* Proofs about ImageViewer, for all folders, files and bounds: the type   *)
(* invariant, that the last request wins, that a pause holds, and that the *)
(* viewer is a user of the loader thread as LoaderThread describes one.    *)
(*                                                                         *)
(* The argument follows the newest request through the program.  Until     *)
(* its answer has been handled it is in exactly one place: the mailbox,    *)
(* else the worker's job, else the last message of the queue.  From each   *)
(* of these it can only move on to the next, or be given up by a handler   *)
(* that says so in `wanted'.  A load that was in progress when the user    *)
(* asked for something else is followed too: the request has set the stop  *)
(* flag, which stays set until the worker has stamped its answer.          *)
(***************************************************************************)
EXTENDS ImageViewer, WellFoundedInduction, TLAPS

\* The types of the variables that are not the loader's.
ViewerTypes ==
  /\ _path \in Paths \cup {NoPath}
  /\ {_bDirty, _bStopped, _bPlay, _bSlideShow, _bSlideShowFoundImages, _bHasFileList, _bRepeat, inEnd}
       \subseteq BOOLEAN
  /\ _items \in Folders \cup {<<>>}
  /\ _nSlideShowItem \in Index \cup {-1, 0}
  /\ files \in Folders
  /\ _nFocusItem \in -1 .. Len(files) - 1
  /\ ops \in 0 .. MaxOps
  /\ wanted \in Paths \cup {NoPath}
  /\ answering \in CImageLoad \cup {NoLoad}

\* The application cannot be closed in the middle of a handler, nor paused in the
\* middle of OnLoadComplete.
HandlerRuns ==
  /\ inEnd \/ answering # NoLoad => Loader!Running
  /\ answering # NoLoad => ~_bStopped

\* After a pause no answer is awaited.
StoppedWantsNothing == _bStopped => wanted = NoPath

HasJob == pc \in {"load", "delay", "stamp", "post"}

\* The worker's job is the request that is wanted, and if its file is good its
\* answer will be a picture unless the stop flag is seen first.
JobIsWanted ==
  /\ job.info._path = wanted
  /\ wanted \in Good => CASE pc = "load"  -> TRUE
                          [] pc = "delay" -> job.loaded
                          [] pc = "stamp" -> job.loaded \/ _bStopLoading
                          [] pc = "post"  -> job.loaded
  /\ pc = "post" => ~job._bWasStopped

\* The last message answers the request that is wanted.
MessageIsWanted ==
  LET last == messages[Len(messages)]
  IN  /\ last.info._path = wanted
      /\ wanted \in Good => last.loaded
      /\ ~last._bWasStopped

\* Where the newest request is.
NewestIsSomewhere ==
  wanted # NoPath =>
    IF _pInfo # NoLoad THEN _pInfo._path = wanted
    ELSE IF HasJob THEN JobIsWanted
    ELSE IF messages # <<>> THEN MessageIsWanted
    ELSE wanted \in Good /\ ~_bStopped => _path = wanted

\* A load overtaken by a request of the user is, or will be, stamped as stopped.
OvertakenIsStopped ==
  \A n \in overtaken :
    \/ n \in 1 .. Len(messages) /\ messages[n]._bWasStopped
    \/ /\ n = Len(messages) + 1
       /\ (InProgress /\ _bStopLoading) \/ (pc = "post" /\ job._bWasStopped)

IInv ==
  /\ Loader!TypeOK
  /\ ViewerTypes
  /\ HandlerRuns
  /\ OvertakenIsStopped
  /\ StoppedWantsNothing
  /\ Loader!NoLostWakeup
  /\ NewestIsSomewhere

(***************************************************************************)
(* The data.                                                               *)
(***************************************************************************)
Lists == Folders \cup {<<>>}

LEMMA IndexFacts ==
  /\ Index \subseteq Nat
  /\ \A f \in Folders : 0 .. Len(f) - 1 \subseteq Index
  /\ \A f \in Folders : Len(f) \in Nat
<1>1. \A f \in Folders : Len(f) \in Nat
  BY ViewerAssumption
<1> QED BY <1>1 DEF Index

LEMMA ItemFacts ==
  ASSUME NEW list \in Lists, NEW n \in 0 .. Len(list) - 1
  PROVE  list \in Folders /\ n \in Index /\ Item(list, n) \in Paths
<1>1. list # <<>>
  <2> SUFFICES ASSUME list = <<>> PROVE FALSE
    OBVIOUS
  <2>1. Len(list) = 0
    OBVIOUS
  <2> QED BY <2>1
<1>2. list \in Folders /\ list \in Seq(Paths)
  BY <1>1, ViewerAssumption DEF Lists
<1>3. list[n + 1] \in Paths
  BY <1>2
<1> QED BY <1>2, <1>3, IndexFacts DEF Item

\* A step over either end of a list that is not empty stays in the list.
LEMMA WrapFacts ==
  ASSUME NEW list \in Lists, list # <<>>, NEW n \in Int
  PROVE  Wrap(n, Len(list)) \in 0 .. Len(list) - 1
<1>1. Len(list) \in Nat /\ Len(list) # 0
  BY ViewerAssumption DEF Lists
<1> QED BY <1>1 DEF Wrap

LEMMA RequestFacts ==
  ASSUME NEW list \in Lists, NEW n \in 0 .. Len(list) - 1, NEW slideShow \in BOOLEAN,
         NEW signal \in BOOLEAN, NEW start \in Index, NEW direction \in -1..1, NEW delay \in BOOLEAN
  PROVE  /\ Request(list, n, slideShow, signal, start, direction, delay) \in CImageLoad
         /\ Request(list, n, slideShow, signal, start, direction, delay)._path = Item(list, n)
         /\ Request(list, n, slideShow, signal, start, direction, delay)._bSignalEvent = signal
  BY ItemFacts DEF Request, CImageLoad

LEMMA LoadFacts ==
  ASSUME NEW info \in CImageLoad
  PROVE  /\ info._path \in Paths /\ info._path # NoPath /\ info # NoLoad
         /\ info._nStartItem \in Index /\ info._nLoadItem \in Index /\ info._nLoadItem \in Nat
         /\ info._nDirection \in -1..1 /\ info._bDelay \in BOOLEAN
         /\ info._bSignalEvent \in BOOLEAN /\ info._bIsSlideShow \in BOOLEAN
  BY IndexFacts, NoLoadAssumption, ViewerAssumption DEF CImageLoad

\* The request of a step from the current slide, or from the focused file.
LEMMA StepRequest ==
  ASSUME NEW list \in Lists, list # <<>>, NEW current \in Int, NEW nStep \in {-1, 1},
         NEW slideShow \in BOOLEAN, NEW delay \in BOOLEAN
  PROVE  LET nSeek == Wrap(current + nStep, Len(list))
         IN  Request(list, nSeek, slideShow, TRUE, nSeek, nStep, delay) \in CImageLoad
<1> DEFINE nSeek == Wrap(current + nStep, Len(list))
<1>0. current + nStep \in Int
  OBVIOUS
<1>1. nSeek \in 0 .. Len(list) - 1
  BY <1>0, WrapFacts
<1>2. nSeek \in Index
  BY <1>1, ItemFacts
<1> HIDE DEF nSeek
<1>3. nStep \in -1..1
  OBVIOUS
<1>4. Request(list, nSeek, slideShow, TRUE, nSeek, nStep, delay) \in CImageLoad
  BY <1>1, <1>2, <1>3, RequestFacts
<1> QED BY <1>4 DEF nSeek

\* The request LoadNext makes for the file after the one that was loaded.
LEMMA NextRequest ==
  ASSUME NEW list \in Lists, list # <<>>, NEW info \in CImageLoad,
         NEW slideShow \in BOOLEAN, NEW signal \in BOOLEAN, NEW delay \in BOOLEAN
  PROVE  LET nSeek == Wrap(info._nLoadItem + info._nDirection, Len(list))
         IN  Request(list, nSeek, slideShow, signal, info._nStartItem, info._nDirection, delay)
               \in CImageLoad
<1> DEFINE nSeek == Wrap(info._nLoadItem + info._nDirection, Len(list))
<1>0. info._nLoadItem + info._nDirection \in Int
  <2>1. info._nLoadItem \in Nat /\ info._nDirection \in -1..1
    BY LoadFacts
  <2> QED BY <2>1
<1>1. nSeek \in 0 .. Len(list) - 1
  BY <1>0, WrapFacts
<1> HIDE DEF nSeek
<1>2. Request(list, nSeek, slideShow, signal, info._nStartItem, info._nDirection, delay) \in CImageLoad
  BY <1>1, RequestFacts, LoadFacts
<1> QED BY <1>2 DEF nSeek

\* A list of slides with the current one.
IsSlides(list) ==
  list.items \in Lists /\ list.current \in Index \cup {-1, 0} /\ list.found \in BOOLEAN

LEMMA SlidesFacts ==
  ASSUME ViewerTypes
  PROVE  /\ IsSlides(BuildList)
         /\ IsSlides(CheckedList)
         /\ IsSlides([CheckedList EXCEPT !.current = 0])
         /\ IsSlides([CheckedList EXCEPT !.current = Len(CheckedList.items) - 1])
         /\ IsSlides([BuildList EXCEPT !.items = IF files = <<>> THEN <<>> ELSE @])
<1>1. _nFocusItem \in Index \cup {-1, 0}
  BY IndexFacts DEF ViewerTypes
<1>2. IsSlides(BuildList)
  BY <1>1 DEF ViewerTypes, BuildList, IsSlides, Lists
<1>3. IsSlides(CheckedList)
  BY <1>2 DEF ViewerTypes, CheckedList, IsSlides, Lists
<1>4. IsSlides([CheckedList EXCEPT !.current = 0])
  BY <1>3 DEF CheckedList, BuildList, IsSlides
<1>5. Len(CheckedList.items) - 1 \in Index \cup {-1, 0}
  <2>1. CASE CheckedList.items = <<>>
    BY <2>1
  <2>2. CASE CheckedList.items # <<>>
    BY <2>2, <1>3, IndexFacts, ViewerAssumption DEF IsSlides, Lists
  <2> QED BY <2>1, <2>2
<1>6. IsSlides([CheckedList EXCEPT !.current = Len(CheckedList.items) - 1])
  <2> DEFINE last == Len(CheckedList.items) - 1
  <2> HIDE DEF last
  <2>1. last \in Index \cup {-1, 0}
    BY <1>5 DEF last
  <2>2. IsSlides([CheckedList EXCEPT !.current = last])
    BY <2>1, <1>3 DEF CheckedList, BuildList, IsSlides
  <2> QED BY <2>2 DEF last
<1>7. IsSlides([BuildList EXCEPT !.items = IF files = <<>> THEN <<>> ELSE @])
  BY <1>2 DEF BuildList, IsSlides, Lists
<1> QED BY <1>2, <1>3, <1>4, <1>6, <1>7

(***************************************************************************)
(* The UI thread makes at most one request in a step.                      *)
(***************************************************************************)
\* What a handler does to the mailbox, and with it to `wanted': a request and the
\* end of a pause; a stop; nothing; or a picture of its own that replaces whatever
\* was wanted.
Requests ==
  \/ (\E info \in CImageLoad : UserAsks(info)) /\ ~_bStopped'
  \/ StopOnly
  \/ UserAsksNothing /\ (_bStopped' => _bStopped) /\ _path' = _path
  \/ Loader!NoRequest /\ wanted' = NoPath /\ UNCHANGED overtaken

UIStep ==
  /\ Loader!Running
  /\ Requests
  /\ UNCHANGED answering
  /\ answering = NoLoad \/ ~_bStopped'
  /\ UNCHANGED <<thread, messages>>
  /\ ViewerTypes'

LEMMA RequestTypes ==
  ASSUME ViewerTypes, (\E info \in CImageLoad : Ask(info)) \/ StopOnly \/ AskNothing
  PROVE  wanted' \in Paths \cup {NoPath}
  BY LoadFacts DEF Ask, StopOnly, AskNothing, ViewerTypes

LEMMA UserTypes ==
  ASSUME ViewerTypes, (\E info \in CImageLoad : UserAsks(info)) \/ StopOnly \/ UserAsksNothing
  PROVE  wanted' \in Paths \cup {NoPath}
  BY RequestTypes DEF UserAsks, UserAsksNothing

\* The slides after SetList.
SlidesTyped ==
  /\ _items \in Folders \cup {<<>>}
  /\ _nSlideShowItem \in Index \cup {-1, 0}
  /\ _bSlideShowFoundImages \in BOOLEAN /\ _bHasFileList \in BOOLEAN

RestTyped ==
  /\ _path \in Paths \cup {NoPath}
  /\ _bDirty \in BOOLEAN /\ _bStopped \in BOOLEAN /\ _bPlay \in BOOLEAN /\ _bSlideShow \in BOOLEAN
  /\ _bRepeat \in BOOLEAN /\ inEnd \in BOOLEAN
  /\ answering \in CImageLoad \cup {NoLoad}
  /\ ops \in 0 .. MaxOps

FolderTyped == files \in Folders /\ _nFocusItem \in -1 .. Len(files) - 1

LEMMA Typed ==
  ViewerTypes <=> RestTyped /\ SlidesTyped /\ FolderTyped /\ wanted \in Paths \cup {NoPath}
  BY DEF ViewerTypes, RestTyped, SlidesTyped, FolderTyped

LEMMA TypedNext ==
  ViewerTypes' <=> RestTyped' /\ SlidesTyped' /\ FolderTyped' /\ wanted' \in Paths \cup {NoPath}
  BY DEF ViewerTypes, RestTyped, SlidesTyped, FolderTyped

LEMMA OpsFacts ==
  ASSUME ops \in 0 .. MaxOps, ops < MaxOps
  PROVE  ops + 1 \in 0 .. MaxOps
  BY ViewerAssumption

LEMMA CurrentIsInt ==
  ASSUME NEW list, IsSlides(list)
  PROVE  list.current \in Int
<1>1. Index \cup {-1, 0} \subseteq Int
  BY IndexFacts
<1> QED BY <1>1 DEF IsSlides

\* A step in a list of slides asks for a slide, unless the list is empty.
LEMMA SlideAsked ==
  ASSUME NEW items \in Lists, items # <<>>, NEW current \in Int, NEW nStep \in {-1, 1},
         NEW delay \in BOOLEAN,
         LET nSeek == Wrap(current + nStep, Len(items))
         IN  UserAsks(Request(items, nSeek, TRUE, TRUE, nSeek, nStep, delay))
  PROVE  \E info \in CImageLoad : UserAsks(info)
<1> DEFINE nSeek == Wrap(current + nStep, Len(items))
           info == Request(items, nSeek, TRUE, TRUE, nSeek, nStep, delay)
<1>1. info \in CImageLoad
  BY StepRequest
<1>2. UserAsks(info)
  OBVIOUS
<1> HIDE DEF info
<1> QED BY <1>1, <1>2

\* So does a step in the folder.
LEMMA FileAsked ==
  ASSUME ViewerTypes, files # <<>>, NEW nStep \in {-1, 1},
         LET nSeek == Wrap(_nFocusItem + nStep, Len(files))
         IN  UserAsks(Request(files, nSeek, FALSE, TRUE, nSeek, nStep, FALSE))
  PROVE  \E info \in CImageLoad : UserAsks(info)
<1> DEFINE nSeek == Wrap(_nFocusItem + nStep, Len(files))
           info == Request(files, nSeek, FALSE, TRUE, nSeek, nStep, FALSE)
<1>1. info \in CImageLoad
  <2>1. _nFocusItem \in Int /\ files \in Lists
    BY IndexFacts DEF ViewerTypes, Lists
  <2> QED BY <2>1, StepRequest
<1>2. UserAsks(info)
  OBVIOUS
<1> HIDE DEF info
<1> QED BY <1>1, <1>2

LEMMA StepMoves ==
  ASSUME ViewerTypes, NEW nStep \in {-1, 1}, Step(nStep)
  PROVE  UIStep
<1>1. CASE _bSlideShow
  <2>1. SetList(CheckedList) /\ StepSlide(CheckedList, nStep, FALSE, StopOnly)
    BY <1>1 DEF Step
  <2>2. IsSlides(CheckedList)
    BY SlidesFacts
  <2>3. (\E info \in CImageLoad : UserAsks(info)) \/ StopOnly
    <3>1. CASE CheckedList.items = <<>>
      BY <2>1, <3>1 DEF StepSlide
    <3>2. CASE CheckedList.items # <<>>
      <4>1. CheckedList.current \in Int
        BY <2>2, CurrentIsInt
      <4>2. CheckedList.items \in Lists
        BY <2>2 DEF IsSlides
      <4> QED BY <2>1, <3>2, <4>1, <4>2, SlideAsked DEF StepSlide
    <3> QED BY <3>1, <3>2
  <2>4. wanted' \in Paths \cup {NoPath}
    BY <2>3, UserTypes
  <2>5. SlidesTyped'
    BY <2>1, <2>2 DEF SetList, IsSlides, SlidesTyped, Lists
  <2>6. RestTyped' /\ FolderTyped'
    BY Typed, OpsFacts DEF Step, UserTurn, RestTyped, FolderTyped, shown, folder, settings
  <2> QED
    BY <2>3, <2>4, <2>5, <2>6, TypedNext DEF Step, UserTurn, UIThreadFree, UIStep, Requests, settings
<1>2. CASE ~_bSlideShow
  <2>1. StepFile(_nFocusItem, nStep, StopOnly) /\ UNCHANGED slides
    BY <1>2 DEF Step
  <2>3. (\E info \in CImageLoad : UserAsks(info)) \/ StopOnly
    <3>1. CASE files = <<>>
      BY <2>1, <3>1 DEF StepFile
    <3>2. CASE files # <<>>
      BY <2>1, <3>2, FileAsked DEF StepFile
    <3> QED BY <3>1, <3>2
  <2>4. wanted' \in Paths \cup {NoPath}
    BY <2>3, UserTypes
  <2>5. SlidesTyped'
    BY <2>1, Typed DEF slides, SlidesTyped
  <2>6. RestTyped' /\ FolderTyped'
    BY Typed, OpsFacts DEF Step, UserTurn, RestTyped, FolderTyped, shown, folder, settings
  <2> QED
    BY <2>3, <2>4, <2>5, <2>6, TypedNext DEF Step, UserTurn, UIThreadFree, UIStep, Requests, settings
<1> QED BY <1>1, <1>2

\* Select asks for the picture of an item that is newly focused.
LEMMA SelectMoves ==
  ASSUME ViewerTypes, NEW n \in 0 .. Len(files) - 1, SelectItem(n)
  PROVE  /\ Requests
         /\ wanted' \in Paths \cup {NoPath}
         /\ SlidesTyped' /\ FolderTyped'
         /\ _path' = _path /\ _bDirty' = _bDirty /\ _bStopped' \in BOOLEAN
         /\ UNCHANGED <<_bPlay, _bSlideShow, _bRepeat>>
<1>1. CASE n # _nFocusItem /\ Item(files, n) # _path
  <2>1. files \in Lists /\ n \in Index
    BY ItemFacts DEF ViewerTypes, Lists
  <2>2. Request(files, n, FALSE, FALSE, n, 0, FALSE) \in CImageLoad
    <3>1. 0 \in -1..1
      OBVIOUS
    <3> QED BY <2>1, <3>1, RequestFacts
  <2>3. (\E info \in CImageLoad : UserAsks(info)) /\ _bStopped' = FALSE
    BY <1>1, <2>2 DEF SelectItem, FocusRequest
  <2>4. wanted' \in Paths \cup {NoPath}
    BY <2>3, UserTypes
  <2>5. Requests
    BY <2>3 DEF Requests
  <2>6. /\ UNCHANGED <<shown, _bPlay, _bSlideShow, slides, files, _bRepeat>>
        /\ _nFocusItem' = n
    BY DEF SelectItem
  <2>7. SlidesTyped' /\ FolderTyped'
    BY <2>6, Typed DEF SlidesTyped, FolderTyped, slides
  <2> QED
    BY <2>3, <2>4, <2>5, <2>6, <2>7 DEF shown
<1>2. CASE ~(n # _nFocusItem /\ Item(files, n) # _path)
  <2>1. UserAsksNothing /\ UNCHANGED _bStopped /\ _path' = _path
    BY <1>2 DEF SelectItem, shown
  <2>2. wanted' \in Paths \cup {NoPath}
    BY <2>1, UserTypes
  <2> QED
    BY <2>1, <2>2, Typed DEF SelectItem, Requests, SlidesTyped, FolderTyped, RestTyped, shown, slides
<1> QED BY <1>1, <1>2

LEMMA SelectsMove ==
  ASSUME ViewerTypes, NEW n \in 0 .. Len(files) - 1, Select(n)
  PROVE  UIStep
<1>1. SelectItem(n) /\ UserTurn /\ UNCHANGED <<inEnd, answering>>
  BY DEF Select
<1>2. /\ Requests
      /\ wanted' \in Paths \cup {NoPath}
      /\ SlidesTyped' /\ FolderTyped'
      /\ _path' = _path /\ _bDirty' = _bDirty /\ _bStopped' \in BOOLEAN
      /\ UNCHANGED <<_bPlay, _bSlideShow, _bRepeat>>
  BY <1>1, SelectMoves
<1>3. RestTyped'
  BY <1>1, <1>2, Typed, OpsFacts DEF RestTyped, UserTurn
<1> QED BY <1>1, <1>2, <1>3, TypedNext DEF UIStep, UserTurn, UIThreadFree

LEMMA EndFileMoves ==
  ASSUME ViewerTypes, EndFile
  PROVE  UIStep
<1>1. /\ Requests
      /\ wanted' \in Paths \cup {NoPath}
      /\ SlidesTyped' /\ FolderTyped'
      /\ _path' = _path /\ _bDirty' = _bDirty /\ _bStopped' \in BOOLEAN
      /\ UNCHANGED <<_bPlay, _bSlideShow, _bRepeat>>
  <2>1. CASE files = <<>>
    <3>1. UserAsksNothing /\ UNCHANGED <<shown, modes, slides, folder, _bRepeat>>
      BY <2>1 DEF EndFile
    <3>2. wanted' \in Paths \cup {NoPath}
      BY <3>1, UserTypes
    <3> QED
      BY <3>1, <3>2, Typed DEF Requests, SlidesTyped, FolderTyped, RestTyped, shown, modes, slides, folder
  <2>2. CASE files # <<>>
    <3>1. SelectItem(0)
      BY <2>2 DEF EndFile
    <3>2. 0 \in 0 .. Len(files) - 1
      BY <2>2, ViewerAssumption DEF ViewerTypes
    <3> QED BY <3>1, <3>2, SelectMoves
  <2> QED BY <2>1, <2>2
<1>2. RestTyped'
  BY <1>1, Typed, OpsFacts DEF RestTyped, UserTurn, EndFile
<1> QED BY <1>1, <1>2, TypedNext DEF UIStep, UserTurn, UIThreadFree, EndFile

LEMMA EndSlideMoves ==
  ASSUME ViewerTypes, EndSlide
  PROVE  UIStep
<1> DEFINE list == [CheckedList EXCEPT !.current = 0]
<1>1. SetList(list) /\ StepSlide(list, -1, FALSE, StopOnly)
  BY DEF EndSlide
<1>2. IsSlides(list)
  BY SlidesFacts
<1> HIDE DEF list
<1>3. (\E info \in CImageLoad : UserAsks(info)) \/ StopOnly
  <2>1. CASE list.items = <<>>
    BY <1>1, <2>1 DEF StepSlide
  <2>2. CASE list.items # <<>>
    <3>1. list.current \in Int /\ list.items \in Lists /\ -1 \in {-1, 1} /\ FALSE \in BOOLEAN
      BY <1>2, CurrentIsInt DEF IsSlides
    <3> QED BY <1>1, <2>2, <3>1, SlideAsked DEF StepSlide
  <2> QED BY <2>1, <2>2
<1>4. wanted' \in Paths \cup {NoPath}
  BY <1>3, UserTypes
<1>5. SlidesTyped'
  BY <1>1, <1>2 DEF SetList, IsSlides, SlidesTyped, Lists
<1>6. RestTyped' /\ FolderTyped'
  BY Typed, OpsFacts DEF EndSlide, UserTurn, RestTyped, FolderTyped, shown, folder, settings
<1> QED
  BY <1>3, <1>4, <1>5, <1>6, TypedNext DEF EndSlide, UserTurn, UIThreadFree, UIStep, Requests, settings

LEMMA PlayMoves ==
  ASSUME ViewerTypes, Play
  PROVE  UIStep
<1>1. SetList(BuildList) /\ StepSlide(BuildList, 1, _path # NoPath, UserAsksNothing)
  BY DEF Play
<1>2. IsSlides(BuildList)
  BY SlidesFacts
<1>3. (\E info \in CImageLoad : UserAsks(info)) \/ UserAsksNothing
  <2>1. CASE BuildList.items = <<>>
    BY <1>1, <2>1 DEF StepSlide
  <2>2. CASE BuildList.items # <<>>
    <3>1. BuildList.current \in Int /\ BuildList.items \in Lists /\ 1 \in {-1, 1}
      BY <1>2, CurrentIsInt DEF IsSlides
    <3>2. (_path # NoPath) \in BOOLEAN
      OBVIOUS
    <3> QED BY <1>1, <2>2, <3>1, <3>2, SlideAsked DEF StepSlide
  <2> QED BY <2>1, <2>2
<1>4. wanted' \in Paths \cup {NoPath}
  BY <1>3, UserTypes
<1>5. SlidesTyped'
  BY <1>1, <1>2 DEF SetList, IsSlides, SlidesTyped, Lists
<1>6. RestTyped' /\ FolderTyped' /\ _path' = _path /\ ~_bStopped'
  BY Typed, OpsFacts DEF Play, UserTurn, RestTyped, FolderTyped, shown, folder, settings
<1> QED
  BY <1>3, <1>4, <1>5, <1>6, TypedNext DEF Play, UserTurn, UIThreadFree, UIStep, Requests, settings

\* Operations that make no request.
LEMMA QuietMoves ==
  ASSUME ViewerTypes,
         \/ HomeSlide \/ ReloadFileList \/ Edit \/ ToggleRepeat
         \/ \E f \in Folders : OpenFolder(f)
  PROVE  UIStep
<1>1. UserAsksNothing /\ _path' = _path /\ _bStopped' = _bStopped
  BY DEF HomeSlide, ReloadFileList, Edit, ToggleRepeat, OpenFolder, shown, modes
<1>2. wanted' \in Paths \cup {NoPath}
  BY <1>1, UserTypes
<1>3. SlidesTyped'
  <2>1. CASE HomeSlide
    <3> DEFINE list == [CheckedList EXCEPT !.current = Len(CheckedList.items) - 1]
    <3>1. IsSlides(list) /\ SetList(list)
      BY <2>1, SlidesFacts DEF HomeSlide
    <3> HIDE DEF list
    <3> QED BY <3>1 DEF SetList, IsSlides, SlidesTyped, Lists
  <2>2. CASE ReloadFileList
    <3> DEFINE list == [BuildList EXCEPT !.items = IF files = <<>> THEN <<>> ELSE @]
    <3>1. IsSlides(list) /\ SetList(list)
      BY <2>2, SlidesFacts DEF ReloadFileList
    <3> HIDE DEF list
    <3> QED BY <3>1 DEF SetList, IsSlides, SlidesTyped, Lists
  <2>3. CASE Edit \/ ToggleRepeat
    BY <2>3, Typed DEF Edit, ToggleRepeat, SlidesTyped, slides
  <2>4. CASE \E f \in Folders : OpenFolder(f)
    BY <2>4 DEF OpenFolder, ResetFolderDetails, SlidesTyped
  <2> QED BY <2>1, <2>2, <2>3, <2>4
<1>4. FolderTyped'
  <2>1. CASE \E f \in Folders : OpenFolder(f)
    <3>1. PICK f \in Folders : files' = f /\ _nFocusItem' = -1
      BY <2>1 DEF OpenFolder
    <3>2. Len(f) \in Nat
      BY IndexFacts
    <3> QED BY <3>1, <3>2 DEF FolderTyped
  <2>2. CASE HomeSlide \/ ReloadFileList \/ Edit \/ ToggleRepeat
    BY <2>2, Typed DEF HomeSlide, ReloadFileList, Edit, ToggleRepeat, FolderTyped, folder
  <2> QED BY <2>1, <2>2
<1>5. RestTyped' /\ UserTurn /\ UNCHANGED answering
  BY Typed, OpsFacts DEF HomeSlide, ReloadFileList, Edit, ToggleRepeat, OpenFolder, UserTurn,
     RestTyped, shown, modes, settings
<1> QED
  BY <1>1, <1>2, <1>3, <1>4, <1>5, TypedNext DEF UserTurn, UIThreadFree, UIStep, Requests, settings

LEMMA StopMoves ==
  ASSUME ViewerTypes, Pause \/ Stop
  PROVE  UIStep
<1>1. StopOnly /\ wanted' = NoPath
  BY DEF Pause, Stop, StopOnly
<1>2. SlidesTyped'
  BY Typed DEF Pause, Stop, ResetFolderDetails, SlidesTyped, slides
<1>3. RestTyped' /\ FolderTyped' /\ UserTurn
  BY Typed, OpsFacts DEF Pause, Stop, UserTurn, RestTyped, FolderTyped, shown, folder, settings
<1> QED
  BY <1>1, <1>2, <1>3, TypedNext DEF Pause, Stop, UserTurn, UIThreadFree, UIStep, Requests, settings

\* What is found by its name is an item of the folder, ...
LEMMA FindFacts ==
  ASSUME ViewerTypes, NEW name
  PROVE  Find(name) \in -1 .. Len(files) - 1
<1> DEFINE named == {i \in 1 .. Len(files) : FileName[files[i]] = name}
<1>1. Len(files) \in Nat
  BY ViewerAssumption DEF ViewerTypes
<1>2. Find(name) = (IF named # {} THEN Min(named) ELSE 0) - 1
  BY DEF Find, SelectInSeq
<1>3. named # {} => Min(named) \in 1 .. Len(files)
  <2> SUFFICES ASSUME named # {} PROVE Min(named) \in named
    OBVIOUS
  <2>1. PICK n \in named : \A m \in named : n <= m
    <3>1. named \subseteq Nat
      BY <1>1
    <3> HIDE DEF named
    <3>2. PICK n \in named : \A m \in named : ~(<<m, n>> \in OpToRel(<, Nat))
      BY <3>1, NatLessThanWellFounded, WFMin
    <3>3. \A m \in named : ~(m < n)
      BY <3>1, <3>2 DEF OpToRel
    <3> QED BY <3>1, <3>3
  <2> HIDE DEF named
  <2> QED BY <2>1 DEF Min
<1> HIDE DEF named
<1>4. CASE named = {}
  BY <1>1, <1>2, <1>4
<1>5. CASE named # {}
  BY <1>1, <1>2, <1>3, <1>5
<1> QED BY <1>4, <1>5

\* ... and so the focus stays in the folder, and what it asks for is a request.
LEMMA FocusFacts ==
  ASSUME ViewerTypes, NEW info
  PROVE  /\ FocusOf(info) \in -1 .. Len(files) - 1
         /\ FocusAsks(info) => FocusRequest(FocusOf(info)) \in CImageLoad
<1>1. Len(files) \in Nat /\ files \in Lists
  BY ViewerAssumption DEF ViewerTypes, Lists
<1>2. FocusOf(info) = _nFocusItem \/ FocusOf(info) \in 0 .. Len(files) - 1
  <2> DEFINE nItem == Find(FileName[info._path])
  <2>1. nItem \in -1 .. Len(files) - 1
    BY FindFacts
  <2>2. FocusOf(info) = IF info._bSignalEvent /\ nItem # -1 THEN nItem ELSE _nFocusItem
    BY DEF FocusOf
  <2> HIDE DEF nItem
  <2> QED BY <1>1, <2>1, <2>2
<1>3. FocusOf(info) \in -1 .. Len(files) - 1
  BY <1>1, <1>2 DEF ViewerTypes
<1>4. ASSUME FocusAsks(info)
      PROVE  FocusRequest(FocusOf(info)) \in CImageLoad
  <2>1. FocusOf(info) \in 0 .. Len(files) - 1
    BY <1>2, <1>4 DEF FocusAsks
  <2>2. FocusOf(info) \in Index /\ 0 \in -1..1
    BY <1>1, <2>1, ItemFacts
  <2> QED BY <1>1, <2>1, <2>2, RequestFacts DEF FocusRequest
<1> QED BY <1>3, <1>4

LEMMA SetImageTypes ==
  ASSUME ViewerTypes, NEW info, info._path \in Paths, SetImage(info)
  PROVE  FolderTyped' /\ _path' \in Paths /\ _bDirty' = FALSE
  BY FocusFacts, Typed DEF SetImage, FolderTyped

\* A picture loaded by the UI thread: the focus asks, or the handler goes on.
LEMMA ShowLoadedMoves ==
  ASSUME ViewerTypes, NEW info, info._path \in Paths, NEW otherwise \in BOOLEAN, ShowLoaded(info, otherwise)
  PROVE  /\ FolderTyped' /\ _path' = info._path /\ _bDirty' = FALSE
         /\ (\E request \in CImageLoad : UserAsks(request)) \/ otherwise
  BY FocusFacts, SetImageTypes DEF ShowLoaded, SetImage

LEMMA SaveAndMoveMoves ==
  ASSUME ViewerTypes, NEW nStep \in {-1, 1}, SaveAndMove(nStep)
  PROVE  UIStep
<1> DEFINE hits == {k \in DOMAIN Round(nStep) : Item(files, Round(nStep)[k]) \in Good}
           given == Loader!NoRequest /\ wanted' = NoPath /\ UNCHANGED overtaken
<1>1. /\ UserTurn /\ _bStopped' = FALSE
      /\ UNCHANGED <<_bPlay, _bSlideShow, slides, settings>>
  BY DEF SaveAndMove
<1>2. CASE hits = {} /\ _bDirty' = FALSE /\ UserAsksNothing /\ UNCHANGED <<_path, folder>>
  <2>1. wanted' \in Paths \cup {NoPath}
    BY <1>2, UserTypes
  <2>2. SlidesTyped' /\ RestTyped' /\ FolderTyped'
    BY <1>1, <1>2, Typed, OpsFacts DEF UserTurn, RestTyped, FolderTyped, SlidesTyped, slides, folder, settings
  <2> QED
    BY <1>1, <1>2, <2>1, <2>2, TypedNext DEF UserTurn, UIThreadFree, UIStep, Requests, settings
<1>3. ASSUME NEW first \in hits,
             ShowLoaded(Request(files, Round(nStep)[first], FALSE, TRUE, 0, 0, FALSE), given)
      PROVE  UIStep
  <2> DEFINE info == Request(files, Round(nStep)[first], FALSE, TRUE, 0, 0, FALSE)
  <2>1. info._path \in Paths
    BY ViewerAssumption DEF Request
  <2>2. given \in BOOLEAN /\ ShowLoaded(info, given)
    BY <1>3
  <2> HIDE DEF info, given
  <2>3. /\ FolderTyped' /\ _path' \in Paths /\ _bDirty' = FALSE
        /\ (\E request \in CImageLoad : UserAsks(request)) \/ given
    BY <2>1, <2>2, ShowLoadedMoves
  <2>4. SlidesTyped' /\ RestTyped'
    BY <1>1, <2>3, Typed, OpsFacts DEF UserTurn, RestTyped, SlidesTyped, slides, settings
  <2>5. wanted' \in Paths \cup {NoPath}
    BY <2>3, UserTypes DEF given
  <2> QED
    BY <1>1, <2>3, <2>4, <2>5, TypedNext DEF UserTurn, UIThreadFree, UIStep, Requests, settings, given
<1> QED BY <1>2, <1>3 DEF SaveAndMove

LEMMA ReloadMoves ==
  ASSUME ViewerTypes, Reload
  PROVE  UIStep
<1>1. /\ UserTurn /\ _bStopped' = FALSE /\ _path \in Paths
      /\ UNCHANGED <<_bPlay, _bSlideShow, slides, settings>>
  BY ViewerAssumption DEF Reload
<1>2. /\ FolderTyped' /\ _path' = _path /\ _bDirty' \in BOOLEAN
      /\ (\E request \in CImageLoad : UserAsks(request)) \/ UserAsksNothing
  <2> DEFINE info == [_path |-> _path, _bSignalEvent |-> TRUE]
  <2>1. CASE ShowLoaded(info, UserAsksNothing)
    <3>1. info._path = _path /\ UserAsksNothing \in BOOLEAN
      BY DEF UserAsksNothing
    <3> HIDE DEF info
    <3> QED BY <1>1, <2>1, <3>1, ShowLoadedMoves
  <2>2. CASE _bDirty /\ UserAsksNothing /\ UNCHANGED <<shown, folder>>
    BY <2>2, Typed DEF FolderTyped, RestTyped, shown, folder
  <2> QED BY <2>1, <2>2 DEF Reload
<1>3. wanted' \in Paths \cup {NoPath}
  BY <1>2, UserTypes
<1>4. SlidesTyped' /\ RestTyped'
  BY <1>1, <1>2, Typed, OpsFacts DEF UserTurn, RestTyped, SlidesTyped, slides, settings
<1> QED
  BY <1>1, <1>2, <1>3, <1>4, TypedNext DEF UserTurn, UIThreadFree, UIStep, Requests, settings

LEMMA EndFilePreviousMoves ==
  ASSUME ViewerTypes, HandlerRuns, EndFilePrevious
  PROVE  UIStep
<1>1. (\E info \in CImageLoad : UserAsks(info)) \/ StopOnly
  <2>1. StepFile(_nFocusItem, -1, StopOnly) /\ -1 \in {-1, 1}
    BY DEF EndFilePrevious
  <2>2. CASE files = <<>>
    BY <2>1, <2>2 DEF StepFile
  <2>3. CASE files # <<>>
    BY <2>1, <2>3, FileAsked DEF StepFile
  <2> QED BY <2>2, <2>3
<1>2. wanted' \in Paths \cup {NoPath}
  BY <1>1, UserTypes
<1>3. SlidesTyped' /\ RestTyped' /\ FolderTyped' /\ ~_bStopped'
  BY Typed DEF EndFilePrevious, RestTyped, SlidesTyped, FolderTyped, slides, folder, shown
<1> QED
  BY <1>1, <1>2, <1>3, TypedNext DEF HandlerRuns, EndFilePrevious, UIStep, Requests

\* Every operation of the user is such a step.
LEMMA UserMoves ==
  ASSUME ViewerTypes, HandlerRuns, User \/ EndFilePrevious
  PROVE  UIStep
<1>1. CASE \E nStep \in {-1, 1} : Step(nStep)
  BY <1>1, StepMoves
<1>2. CASE \E n \in 0 .. Len(files) - 1 : Select(n)
  BY <1>2, SelectsMove
<1>3. CASE HomeFile
  <2>1. Len(files) - 1 \in 0 .. Len(files) - 1 /\ Select(Len(files) - 1)
    BY <1>3 DEF HomeFile, Select
  <2> QED BY <2>1, SelectsMove
<1>4. CASE \E nStep \in {-1, 1} : SaveAndMove(nStep)
  BY <1>4, SaveAndMoveMoves
<1> QED
  BY <1>1, <1>2, <1>3, <1>4, QuietMoves, StopMoves, ReloadMoves, EndSlideMoves, EndFileMoves,
     PlayMoves, EndFilePreviousMoves DEF User

(***************************************************************************)
(* The answers.                                                            *)
(***************************************************************************)
MayAsk == (\E info \in CImageLoad : Ask(info)) \/ AskNothing

LEMMA LoadNextSlideMoves ==
  ASSUME ViewerTypes, NEW info \in CImageLoad, NEW loaded \in BOOLEAN, LoadNextSlide(info, loaded)
  PROVE  MayAsk /\ SlidesTyped' /\ _bPlay' \in BOOLEAN
<1> DEFINE nSeek == Wrap(info._nLoadItem + info._nDirection, Len(_items))
           found == _bSlideShowFoundImages \/ loaded
           play == IF info._nStartItem = nSeek THEN _bRepeat /\ found ELSE _bPlay
           request == Request(_items, nSeek, TRUE, TRUE, info._nStartItem, info._nDirection,
                              loaded \/ info._bDelay)
<1>1. found \in BOOLEAN
  OBVIOUS
<1>2. play \in BOOLEAN
  BY <1>1, Typed DEF RestTyped
<1>3. /\ _nSlideShowItem' = info._nLoadItem
      /\ _bSlideShowFoundImages' = found
      /\ UNCHANGED <<_bHasFileList, _items>>
      /\ IF _items = <<>> THEN AskNothing /\ UNCHANGED _bPlay
         ELSE _bPlay' = play /\ IF play \/ ~loaded THEN Ask(request) ELSE AskNothing
  BY DEF LoadNextSlide
<1>4. _items # <<>> => request \in CImageLoad
  <2> SUFFICES ASSUME _items # <<>> PROVE request \in CImageLoad
    OBVIOUS
  <2>1. _items \in Lists /\ (loaded \/ info._bDelay) \in BOOLEAN
    BY Typed DEF SlidesTyped, Lists
  <2>2. TRUE \in BOOLEAN
    OBVIOUS
  <2> QED BY <2>1, <2>2, NextRequest
<1> HIDE DEF found, play, request
<1>5. SlidesTyped'
  BY <1>1, <1>3, LoadFacts, Typed DEF SlidesTyped
<1>6. _bPlay' \in BOOLEAN
  BY <1>2, <1>3, Typed DEF RestTyped
<1>7. MayAsk
  BY <1>3, <1>4 DEF MayAsk
<1> QED BY <1>5, <1>6, <1>7

LEMMA LoadNextFileMoves ==
  ASSUME ViewerTypes, NEW info \in CImageLoad, NEW loaded \in BOOLEAN, LoadNextFile(info, loaded)
  PROVE  MayAsk /\ SlidesTyped' /\ _bPlay' \in BOOLEAN
<1> DEFINE nSeek == Wrap(info._nLoadItem + info._nDirection, Len(files))
           request == Request(files, nSeek, FALSE, info._bSignalEvent, info._nStartItem,
                              info._nDirection, FALSE)
<1>1. files # <<>> => request \in CImageLoad
  <2> SUFFICES ASSUME files # <<>> PROVE request \in CImageLoad
    OBVIOUS
  <2>1. files \in Lists /\ FALSE \in BOOLEAN /\ info._bSignalEvent \in BOOLEAN
    BY LoadFacts, Typed DEF FolderTyped, Lists
  <2> QED BY <2>1, NextRequest
<1>2. (files # <<>> /\ Ask(request)) \/ AskNothing
  BY DEF LoadNextFile
<1>3. SlidesTyped' /\ _bPlay' \in BOOLEAN
  BY Typed DEF LoadNextFile, SlidesTyped, RestTyped, slides
<1> HIDE DEF request
<1> QED BY <1>1, <1>2, <1>3 DEF MayAsk

LEMMA LoadNextMoves ==
  ASSUME ViewerTypes, NEW info \in CImageLoad, NEW loaded \in BOOLEAN, LoadNext(info, loaded)
  PROVE  MayAsk /\ SlidesTyped' /\ _bPlay' \in BOOLEAN
<1>1. CASE info._bIsSlideShow /\ ~_bSlideShow /\ AskNothing /\ UNCHANGED <<_bPlay, slides>>
  BY <1>1, Typed DEF MayAsk, SlidesTyped, RestTyped, slides
<1> QED BY <1>1, LoadNextSlideMoves, LoadNextFileMoves DEF LoadNext

\* The oldest message is ignored, refused, shown, or says that its file is no
\* picture.  Only the last two may lead to a new request.
Answered(message) ==
  LET stopped == message._bWasStopped \/ _bStopped
  IN  \/ stopped /\ AskNothing /\ _path' = _path
      \/ /\ ~stopped /\ message.loaded
         /\ Loader!NoRequest /\ _path' = _path
         /\ wanted' = IF wanted = message.info._path THEN NoPath ELSE wanted
      \/ ~stopped /\ message.loaded /\ MayAsk /\ _path' = message.info._path
      \/ ~stopped /\ ~message.loaded /\ MayAsk /\ _path' = _path

AnswerStep ==
  /\ Loader!Running
  /\ messages # <<>>
  /\ messages' = Tail(messages)
  /\ overtaken' = {n - 1 : n \in overtaken \ {1}}
  /\ Answered(Head(messages))
  /\ answering' # NoLoad => ~_bStopped
  /\ UNCHANGED <<thread, _bStopped>>
  /\ ViewerTypes'

\* The rest of a handler whose first request came from the focus.
ContinueStep ==
  /\ Loader!Running
  /\ MayAsk
  /\ answering # NoLoad
  /\ answering' = NoLoad
  /\ UNCHANGED <<thread, messages, _path, _bStopped, overtaken>>
  /\ ViewerTypes'

\* Taking the oldest message leaves the last one in place.
LEMMA QueueFacts ==
  ASSUME NEW q \in Seq(Loader!Jobs), q # <<>>
  PROVE  /\ Len(q) \in Nat \ {0}
         /\ Head(q) \in Loader!Jobs /\ q[Len(q)] \in Loader!Jobs
         /\ Tail(q) \in Seq(Loader!Jobs)
         /\ Tail(q) = <<>> => Head(q) = q[Len(q)]
         /\ Tail(q) # <<>> => Tail(q)[Len(Tail(q))] = q[Len(q)]
<1>1. Len(q) \in Nat \ {0} /\ Head(q) = q[1] /\ \A i \in 1 .. Len(q) : q[i] \in Loader!Jobs
  OBVIOUS
<1>2. Tail(q) \in Seq(Loader!Jobs) /\ Len(Tail(q)) = Len(q) - 1
  OBVIOUS
<1>3. CASE Tail(q) = <<>>
  <2>1. Len(q) = 1
    BY <1>1, <1>2, <1>3
  <2> QED BY <1>1, <1>2, <1>3, <2>1
<1>4. CASE Tail(q) # <<>>
  <2>1. Len(Tail(q)) \in 1 .. Len(Tail(q))
    BY <1>2, <1>4
  <2>2. Tail(q)[Len(Tail(q))] = q[Len(Tail(q)) + 1]
    BY <1>1, <1>2, <2>1
  <2> QED BY <1>1, <1>2, <1>4, <2>2
<1> QED BY <1>3, <1>4

LEMMA MayAskTypes ==
  ASSUME ViewerTypes, MayAsk
  PROVE  wanted' \in Paths \cup {NoPath}
  BY RequestTypes DEF MayAsk

LEMMA AnswerMoves ==
  ASSUME ViewerTypes, Loader!TypeOK, OnLoadComplete
  PROVE  AnswerStep
<1> DEFINE message == Head(messages)
           stopped == message._bWasStopped \/ _bStopped
<1>1. /\ UIThreadFree /\ messages # <<>> /\ messages' = Tail(messages)
      /\ overtaken' = {n - 1 : n \in overtaken \ {1}}
      /\ UNCHANGED <<thread, _bStopped, _bSlideShow, _bRepeat, inEnd, ops>>
  BY DEF OnLoadComplete, TakeMessage
<1>2. message.info \in CImageLoad /\ message.loaded \in BOOLEAN
  <2>1. message \in Loader!Jobs
    BY <1>1, QueueFacts DEF Loader!TypeOK
  <2> QED BY <2>1 DEF Loader!Jobs
<1>3. \/ stopped /\ IgnoreAnswer(message.info) /\ UNCHANGED answering
      \/ ~stopped /\ message.loaded /\ RefuseAnswer(message.info) /\ UNCHANGED answering
      \/ ~stopped /\ message.loaded /\ ShowAnswer(message.info)
      \/ ~stopped /\ ~message.loaded /\ LoadNext(message.info, message.loaded) /\ UNCHANGED <<shown, folder, answering>>
  BY DEF OnLoadComplete, HandleAnswer
<1> HIDE DEF message
<1>4. CASE stopped /\ IgnoreAnswer(message.info) /\ UNCHANGED answering
  <2>1. AskNothing /\ UNCHANGED <<shown, _bPlay, slides, folder>>
    BY <1>4 DEF IgnoreAnswer
  <2>2. wanted' \in Paths \cup {NoPath}
    BY <2>1, RequestTypes
  <2>3. ViewerTypes'
    BY <1>1, <1>4, <2>1, <2>2, Typed, TypedNext DEF RestTyped, SlidesTyped, FolderTyped, shown, slides, folder
  <2>4. Answered(message)
    BY <1>4, <2>1 DEF Answered, shown
  <2> QED BY <1>1, <1>4, <2>3, <2>4 DEF AnswerStep, UIThreadFree, message
<1>5. CASE ~stopped /\ message.loaded /\ RefuseAnswer(message.info) /\ UNCHANGED answering
  <2>1. /\ Loader!NoRequest /\ UNCHANGED <<shown, _bPlay, slides, folder>>
        /\ wanted' = IF wanted = message.info._path THEN NoPath ELSE wanted
    BY <1>5 DEF RefuseAnswer
  <2>2. wanted' \in Paths \cup {NoPath}
    BY <2>1, Typed
  <2>3. ViewerTypes'
    BY <1>1, <1>5, <2>1, <2>2, Typed, TypedNext DEF RestTyped, SlidesTyped, FolderTyped, shown, slides, folder
  <2>4. Answered(message)
    BY <1>5, <2>1 DEF Answered, shown
  <2> QED BY <1>1, <1>5, <2>3, <2>4 DEF AnswerStep, UIThreadFree, message
<1>6. CASE ~stopped /\ message.loaded /\ ShowAnswer(message.info)
  <2>1. MayAsk /\ SlidesTyped' /\ _bPlay' \in BOOLEAN /\ answering' \in CImageLoad \cup {NoLoad}
    <3>1. CASE LoadNext(message.info, TRUE) /\ UNCHANGED answering
      BY <1>2, <3>1, LoadNextMoves, Typed DEF RestTyped
    <3>2. CASE /\ FocusAsks(message.info) /\ Ask(FocusRequest(FocusOf(message.info)))
               /\ answering' = message.info /\ UNCHANGED <<_bPlay, slides>>
      <4>1. MayAsk
        BY <3>2, FocusFacts DEF MayAsk
      <4> QED BY <1>2, <3>2, <4>1, Typed DEF RestTyped, SlidesTyped, slides
    <3> QED BY <1>6, <3>1, <3>2 DEF ShowAnswer
  <2>2. FolderTyped' /\ _path' = message.info._path /\ _path' \in Paths /\ _bDirty' = FALSE
    <3>1. message.info._path \in Paths
      BY <1>2, LoadFacts
    <3> QED BY <1>6, <3>1, SetImageTypes DEF ShowAnswer, SetImage
  <2>3. RestTyped'
    BY <1>1, <2>1, <2>2, Typed DEF RestTyped
  <2>4. ViewerTypes'
    BY <2>1, <2>2, <2>3, MayAskTypes, TypedNext
  <2>5. Answered(message)
    BY <1>6, <2>1, <2>2 DEF Answered
  <2> QED BY <1>1, <1>6, <2>4, <2>5 DEF AnswerStep, UIThreadFree, message
<1>7. CASE /\ ~stopped /\ ~message.loaded /\ LoadNext(message.info, message.loaded)
           /\ UNCHANGED <<shown, folder, answering>>
  <2>1. MayAsk /\ SlidesTyped' /\ _bPlay' \in BOOLEAN
    BY <1>2, <1>7, LoadNextMoves
  <2>2. RestTyped' /\ FolderTyped' /\ _path' = _path
    BY <1>1, <1>7, <2>1, Typed DEF RestTyped, FolderTyped, shown, folder
  <2>3. ViewerTypes'
    BY <2>1, <2>2, MayAskTypes, TypedNext
  <2>4. Answered(message)
    BY <1>7, <2>1, <2>2 DEF Answered
  <2> QED BY <1>1, <1>7, <2>3, <2>4 DEF AnswerStep, UIThreadFree, message
<1> QED BY <1>3, <1>4, <1>5, <1>6, <1>7

LEMMA ContinueMoves ==
  ASSUME ViewerTypes, HandlerRuns, LoadNextAfterFocus
  PROVE  ContinueStep
<1>1. answering \in CImageLoad /\ TRUE \in BOOLEAN /\ LoadNext(answering, TRUE)
  BY Typed DEF LoadNextAfterFocus, RestTyped
<1>2. MayAsk /\ SlidesTyped' /\ _bPlay' \in BOOLEAN
  BY <1>1, LoadNextMoves
<1>3. RestTyped' /\ FolderTyped'
  BY <1>2, Typed DEF LoadNextAfterFocus, RestTyped, FolderTyped, shown, folder
<1>4. ViewerTypes'
  BY <1>2, <1>3, MayAskTypes, TypedNext
<1> QED BY <1>2, <1>4 DEF ContinueStep, LoadNextAfterFocus, HandlerRuns, shown

(***************************************************************************)
(* The worker and the end.                                                 *)
(***************************************************************************)
WorkerStep == Worker /\ ViewerTypes'

LEMMA WorkerMoves ==
  ASSUME ViewerTypes, Worker
  PROVE  WorkerStep
<1>1. wanted' \in Paths \cup {NoPath}
  BY Typed DEF Worker, Stamp
<1>2. RestTyped' /\ SlidesTyped' /\ FolderTyped'
  BY Typed DEF Worker, RestTyped, SlidesTyped, FolderTyped, shown, modes, slides, folder, settings
<1> QED BY <1>1, <1>2, TypedNext DEF WorkerStep

CloseStep ==
  /\ (Loader!SignalExit /\ ~inEnd /\ answering = NoLoad) \/ Loader!StopThread
  /\ UNCHANGED <<_path, _bStopped, inEnd, answering, wanted, overtaken>>
  /\ ViewerTypes'

LEMMA CloseMoves ==
  ASSUME ViewerTypes, CloseWindow \/ StopThread
  PROVE  CloseStep
<1>1. /\ UNCHANGED <<_path, modes, slides, folder, settings, wanted, overtaken>>
      /\ _bDirty' \in BOOLEAN /\ ops' \in 0 .. MaxOps
      /\ (Loader!SignalExit /\ ~inEnd /\ answering = NoLoad) \/ Loader!StopThread
  BY Typed, OpsFacts DEF CloseWindow, StopThread, RestTyped, shown, UIThreadFree
<1>2. RestTyped' /\ SlidesTyped' /\ FolderTyped'
  BY <1>1, Typed DEF RestTyped, SlidesTyped, FolderTyped, modes, slides, folder, settings
<1> QED BY <1>1, <1>2, Typed, TypedNext DEF CloseStep, modes, settings

ViewerStep == UIStep \/ AnswerStep \/ ContinueStep \/ WorkerStep \/ CloseStep \/ UNCHANGED vars

LEMMA NextMoves ==
  ASSUME ViewerTypes, HandlerRuns, Loader!TypeOK, [Next]_vars
  PROVE  ViewerStep /\ ViewerTypes'
<1>1. CASE UNCHANGED vars
  BY <1>1, Typed, TypedNext DEF vars, ViewerStep, RestTyped, SlidesTyped, FolderTyped, shown, modes,
     slides, folder, settings
<1>2. CASE User \/ EndFilePrevious
  BY <1>2, UserMoves DEF ViewerStep, UIStep
<1>3. CASE LoadNextAfterFocus
  BY <1>3, ContinueMoves DEF ViewerStep, ContinueStep
<1>4. CASE OnLoadComplete
  BY <1>4, AnswerMoves DEF ViewerStep, AnswerStep
<1>5. CASE Worker
  BY <1>5, WorkerMoves DEF ViewerStep, WorkerStep
<1>6. CASE CloseWindow \/ StopThread
  BY <1>6, CloseMoves DEF ViewerStep, CloseStep
<1> QED BY <1>1, <1>2, <1>3, <1>4, <1>5, <1>6 DEF Next, Continue

(***************************************************************************)
(* The loader thread sees a UI thread as LoaderThread describes it.        *)
(***************************************************************************)
LEMMA LoaderStep ==
  ASSUME ViewerStep
  PROVE  [Loader!Next]_(Loader!loaderVars)
<1>1. CASE UIStep
  <2>1. CASE (\E info \in CImageLoad : Ask(info)) \/ StopOnly
    BY <1>1, <2>1 DEF UIStep, Ask, StopOnly, thread, Loader!Next, Loader!UI, Loader!UserStep
  <2>2. CASE Loader!NoRequest
    BY <1>1, <2>2 DEF UIStep, thread, Loader!NoRequest, Loader!loaderVars
  <2> QED BY <1>1, <2>1, <2>2 DEF UIStep, Requests, UserAsks, UserAsksNothing, AskNothing
<1>2. CASE AnswerStep
  <2>1. (\E info \in CImageLoad : Loader!ShowImage(info)) \/ Loader!NoRequest
    BY <1>2 DEF AnswerStep, Answered, MayAsk, Ask, AskNothing
  <2> QED BY <1>2, <2>1 DEF AnswerStep, thread, Loader!Next, Loader!UI, Loader!TakeMessage
<1>3. CASE WorkerStep
  BY <1>3 DEF WorkerStep, Worker, Stamp, Load, Loader!Next, Loader!Worker
<1>4. CASE CloseStep
  BY <1>4 DEF CloseStep, Loader!Next, Loader!UI
<1>5. CASE UNCHANGED vars
  BY <1>5 DEF vars, loader, Loader!loaderVars
<1>6. CASE ContinueStep
  <2>1. CASE \E info \in CImageLoad : Ask(info)
    BY <1>6, <2>1 DEF ContinueStep, Ask, thread, Loader!Next, Loader!UI, Loader!UserStep
  <2>2. CASE AskNothing
    BY <1>6, <2>2 DEF ContinueStep, thread, AskNothing, Loader!NoRequest, Loader!loaderVars
  <2> QED BY <1>6, <2>1, <2>2 DEF ContinueStep, MayAsk
<1> QED BY <1>1, <1>2, <1>3, <1>4, <1>5, <1>6 DEF ViewerStep

\* Whoever uses the loader, its types hold, ...
LEMMA LoaderTypes ==
  ASSUME Loader!TypeOK, [Loader!Next]_(Loader!loaderVars)
  PROVE  Loader!TypeOK'
<1> USE DEF Loader!TypeOK, Loader!Steps, Loader!NoJob, Loader!Goto, Loader!mailbox, Loader!exitFlags
<1>1. CASE Loader!UserStep
  BY <1>1 DEF Loader!UserStep, Loader!ShowImage, Loader!SetStopLoading
<1>2. CASE Loader!TakeMessage
  <2>1. messages' \in Seq(Loader!Jobs)
    BY <1>2, QueueFacts DEF Loader!TakeMessage
  <2> QED BY <1>2, <2>1 DEF Loader!TakeMessage, Loader!ShowImage, Loader!NoRequest
<1>3. CASE Loader!SignalExit \/ Loader!StopThread
  BY <1>3 DEF Loader!SignalExit, Loader!StopThread
<1>4. CASE Loader!TestExit \/ Loader!WakeForLoad \/ Loader!WakeForExit \/ Loader!ResetEvent
           \/ Loader!ClearStop \/ Loader!LeaveScope \/ Loader!WaitDelay
  BY <1>4 DEF Loader!TestExit, Loader!WakeForLoad, Loader!WakeForExit, Loader!ResetEvent,
     Loader!ClearStop, Loader!LeaveScope, Loader!WaitDelay
<1>5. CASE Loader!PopInfo
  <2>1. CASE _pInfo = NoLoad
    BY <1>5, <2>1 DEF Loader!PopInfo
  <2>2. CASE _pInfo # NoLoad
    <3>1. job' = [info |-> _pInfo, loaded |-> FALSE, _bWasStopped |-> FALSE] /\ pc' = "load" /\ IsLoading' = TRUE
      BY <1>5, <2>2 DEF Loader!PopInfo
    <3>2. job' \in Loader!Jobs
      BY <2>2, <3>1 DEF Loader!Jobs
    <3> QED BY <1>5, <3>1, <3>2 DEF Loader!PopInfo
  <2> QED BY <2>1, <2>2
<1>6. CASE (\E loaded \in BOOLEAN : Loader!Load(loaded)) \/ Loader!Stamp
  <2>1. job' \in Loader!Jobs /\ pc' \in {"delay", "stamp", "post"}
    BY <1>6 DEF Loader!Load, Loader!Stamp, Loader!Jobs
  <2> QED BY <1>6, <2>1 DEF Loader!Load, Loader!Stamp
<1>7. CASE Loader!SignalImageLoadComplete
  <2>1. job \in Loader!Jobs /\ messages' = Append(messages, job)
    BY <1>7 DEF Loader!SignalImageLoadComplete
  <2>2. messages' \in Seq(Loader!Jobs)
    BY <2>1
  <2> QED BY <1>7, <2>2 DEF Loader!SignalImageLoadComplete
<1>8. CASE UNCHANGED Loader!loaderVars
  BY <1>8 DEF Loader!loaderVars
<1> QED
  BY <1>1, <1>2, <1>3, <1>4, <1>5, <1>6, <1>7, <1>8 DEF Loader!Next, Loader!UI, Loader!Worker

\* ... and no wake-up is lost.
LEMMA LoaderWakes ==
  ASSUME Loader!NoLostWakeup, Loader!TypeOK, [Loader!Next]_(Loader!loaderVars)
  PROVE  Loader!NoLostWakeup'
<1> USE DEF Loader!NoLostWakeup, Loader!Goto, Loader!mailbox
<1>1. CASE Loader!UI
  BY <1>1 DEF Loader!UI, Loader!UserStep, Loader!TakeMessage, Loader!SignalExit, Loader!StopThread,
     Loader!ShowImage, Loader!SetStopLoading, Loader!NoRequest
<1>2. CASE Loader!TestExit \/ Loader!WakeForLoad \/ Loader!WakeForExit \/ Loader!ResetEvent
           \/ Loader!ClearStop \/ Loader!LeaveScope \/ Loader!WaitDelay \/ Loader!PopInfo
  BY <1>2 DEF Loader!TestExit, Loader!WakeForLoad, Loader!WakeForExit, Loader!ResetEvent,
     Loader!ClearStop, Loader!LeaveScope, Loader!WaitDelay, Loader!PopInfo
<1>3. CASE (\E loaded \in BOOLEAN : Loader!Load(loaded)) \/ Loader!Stamp \/ Loader!SignalImageLoadComplete
  BY <1>3 DEF Loader!Load, Loader!Stamp, Loader!SignalImageLoadComplete
<1>4. CASE UNCHANGED Loader!loaderVars
  BY <1>4 DEF Loader!loaderVars
<1> QED BY <1>1, <1>2, <1>3, <1>4 DEF Loader!Next, Loader!Worker

(***************************************************************************)
(* The handlers.                                                           *)
(***************************************************************************)
LEMMA RunsStep ==
  ASSUME HandlerRuns, ViewerTypes, ViewerStep
  PROVE  HandlerRuns'
<1> USE DEF HandlerRuns, Loader!Running
<1>1. CASE UIStep
  BY <1>1 DEF UIStep, thread
<1>2. CASE AnswerStep
  BY <1>2 DEF AnswerStep, thread
<1>3. CASE WorkerStep
  <2>1. UNCHANGED _eventExit
    BY <1>3 DEF WorkerStep, Worker, Stamp, Load, Loader!exitFlags, Loader!Stamp, Loader!TestExit,
       Loader!WakeForLoad, Loader!WakeForExit, Loader!ResetEvent, Loader!ClearStop, Loader!PopInfo,
       Loader!WaitDelay, Loader!SignalImageLoadComplete, Loader!LeaveScope, Loader!Load
  <2> QED BY <1>3, <2>1 DEF WorkerStep, Worker, settings, modes
<1>4. CASE CloseStep
  <2>1. CASE Loader!StopThread
    BY <1>4, <2>1 DEF CloseStep, Loader!StopThread
  <2>2. CASE Loader!SignalExit /\ ~inEnd /\ answering = NoLoad
    BY <1>4, <2>2 DEF CloseStep
  <2> QED BY <1>4, <2>1, <2>2 DEF CloseStep
<1>5. CASE UNCHANGED vars
  BY <1>5 DEF vars, loader, settings, modes
<1>6. CASE ContinueStep
  BY <1>6 DEF ContinueStep, thread
<1> QED BY <1>1, <1>2, <1>3, <1>4, <1>5, <1>6 DEF ViewerStep

LEMMA StoppedStep ==
  ASSUME StoppedWantsNothing, HandlerRuns, ViewerTypes, ViewerStep
  PROVE  StoppedWantsNothing'
<1> USE DEF StoppedWantsNothing
<1>1. CASE UIStep
  BY <1>1 DEF UIStep, Requests, StopOnly, UserAsksNothing, AskNothing
<1>2. CASE AnswerStep
  BY <1>2 DEF AnswerStep, Answered, AskNothing
<1>3. CASE WorkerStep
  BY <1>3 DEF WorkerStep, Worker, Stamp, modes
<1>4. CASE CloseStep
  BY <1>4 DEF CloseStep
<1>5. CASE UNCHANGED vars
  BY <1>5 DEF vars, modes
<1>6. CASE ContinueStep
  BY <1>6 DEF ContinueStep, HandlerRuns
<1> QED BY <1>1, <1>2, <1>3, <1>4, <1>5, <1>6 DEF ViewerStep

(***************************************************************************)
(* The loads that have been overtaken.                                     *)
(***************************************************************************)
\* A request of the user leaves the stop flag set, and may add the load in progress.
LEMMA OvertakenUI ==
  ASSUME OvertakenIsStopped, UIStep
  PROVE  OvertakenIsStopped'
<1>1. UNCHANGED <<pc, job, messages>>
  BY DEF UIStep, thread
<1>2. _bStopLoading => _bStopLoading'
  BY DEF UIStep, Requests, UserAsks, Ask, StopOnly, UserAsksNothing, AskNothing, Loader!ShowImage,
     Loader!SetStopLoading, Loader!NoRequest
<1>3. CASE \E info \in CImageLoad : UserAsks(info)
  <2>1. _bStopLoading' /\ overtaken' = overtaken \cup IF InProgress THEN {Len(messages) + 1} ELSE {}
    BY <1>3 DEF UserAsks, Ask, Loader!ShowImage
  <2>2. \A n \in overtaken' : n \in overtaken \/ (n = Len(messages) + 1 /\ InProgress)
    BY <2>1
  <2>3. InProgress' = InProgress
    BY <1>1 DEF InProgress
  <2> QED BY <1>1, <2>1, <2>2, <2>3 DEF OvertakenIsStopped
<1>4. CASE UNCHANGED overtaken
  BY <1>1, <1>2, <1>4 DEF OvertakenIsStopped, InProgress
<1> QED BY <1>3, <1>4 DEF UIStep, Requests, StopOnly, UserAsksNothing

\* When a message is taken the places of the others move up.
LEMMA OvertakenAnswer ==
  ASSUME OvertakenIsStopped, Loader!TypeOK, AnswerStep
  PROVE  OvertakenIsStopped'
<1> DEFINE At(n, q) == n \in 1 .. Len(q) /\ q[n]._bWasStopped
           Ahead(n, q) == n = Len(q) + 1
<1>1. /\ messages # <<>> /\ messages \in Seq(Loader!Jobs) /\ messages' = Tail(messages)
      /\ overtaken' = {n - 1 : n \in overtaken \ {1}} /\ UNCHANGED <<pc, job>>
  BY DEF AnswerStep, thread, Loader!TypeOK
<1>2. /\ Len(messages) \in Nat \ {0} /\ Len(messages') = Len(messages) - 1
      /\ \A i \in 1 .. Len(messages') : messages'[i] = messages[i + 1]
  BY <1>1
<1>3. _bStopLoading => _bStopLoading'
  BY DEF AnswerStep, Answered, MayAsk, Ask, AskNothing, Loader!ShowImage, Loader!NoRequest
<1>4. ASSUME NEW n \in overtaken, n # 1
      PROVE  \/ n - 1 \in 1 .. Len(messages') /\ messages'[n - 1]._bWasStopped
             \/ /\ n - 1 = Len(messages') + 1
                /\ (InProgress' /\ _bStopLoading') \/ (pc' = "post" /\ job'._bWasStopped)
  <2>1. CASE n \in 1 .. Len(messages) /\ messages[n]._bWasStopped
    <3>1. n - 1 \in 1 .. Len(messages') /\ (n - 1) + 1 = n
      BY <1>2, <1>4, <2>1
    <3>2. messages'[n - 1] = messages[n]
      BY <1>2, <3>1
    <3> QED BY <2>1, <3>1, <3>2
  <2>2. CASE /\ n = Len(messages) + 1
             /\ (InProgress /\ _bStopLoading) \/ (pc = "post" /\ job._bWasStopped)
    <3>1. n - 1 = Len(messages') + 1
      BY <1>2, <2>2
    <3> QED BY <1>1, <1>3, <2>2, <3>1 DEF InProgress
  <2> QED BY <2>1, <2>2 DEF OvertakenIsStopped
<1> QED BY <1>1, <1>4 DEF OvertakenIsStopped

\* The flag is not cleared before the worker has stamped its answer.
LEMMA OvertakenWorker ==
  ASSUME OvertakenIsStopped, Loader!TypeOK, WorkerStep
  PROVE  OvertakenIsStopped'
<1> USE DEF Loader!Goto, Loader!mailbox, Loader!NoJob
<1>0. UNCHANGED overtaken
  BY DEF WorkerStep, Worker
<1>1. CASE Stamp
  <2>1. /\ pc = "stamp" /\ pc' = "post" /\ job \in Loader!Jobs
        /\ job' = [job EXCEPT !._bWasStopped = _bStopLoading] /\ UNCHANGED messages
    BY <1>1 DEF Stamp, Loader!Stamp, Loader!TypeOK
  <2>2. job'._bWasStopped = _bStopLoading
    BY <2>1 DEF Loader!Jobs
  <2>3. InProgress /\ ~InProgress' /\ pc # "post"
    BY <2>1 DEF InProgress
  <2> QED BY <1>0, <2>1, <2>2, <2>3 DEF OvertakenIsStopped
<1>2. CASE (\E loaded \in BOOLEAN : Load(loaded)) \/ Loader!WaitDelay
  <2>1. InProgress' /\ pc # "post" /\ UNCHANGED <<_bStopLoading, messages>>
    BY <1>2 DEF Load, Loader!Load, Loader!WaitDelay, InProgress
  <2>2. pc' # "post"
    BY <2>1 DEF InProgress
  <2> QED BY <1>0, <2>1, <2>2 DEF OvertakenIsStopped
<1>3. CASE Loader!SignalImageLoadComplete
  <2>1. /\ pc = "post" /\ job \in Loader!Jobs /\ messages \in Seq(Loader!Jobs)
        /\ messages' = Append(messages, job)
    BY <1>3 DEF Loader!SignalImageLoadComplete, Loader!TypeOK
  <2>2. /\ Len(messages) \in Nat /\ Len(messages') = Len(messages) + 1
        /\ messages'[Len(messages) + 1] = job
        /\ \A i \in 1 .. Len(messages) : messages'[i] = messages[i]
    BY <2>1
  <2>3. ~InProgress
    BY <2>1 DEF InProgress
  <2> QED BY <1>0, <2>1, <2>2, <2>3 DEF OvertakenIsStopped
<1>4. CASE \/ Loader!TestExit \/ Loader!WakeForLoad \/ Loader!WakeForExit \/ Loader!ResetEvent
           \/ Loader!ClearStop \/ Loader!PopInfo \/ Loader!LeaveScope
  <2>1. ~InProgress /\ pc # "post" /\ UNCHANGED messages
    BY <1>4 DEF Loader!TestExit, Loader!WakeForLoad, Loader!WakeForExit, Loader!ResetEvent,
       Loader!ClearStop, Loader!PopInfo, Loader!LeaveScope, InProgress
  <2> QED BY <1>0, <2>1 DEF OvertakenIsStopped
<1> QED BY <1>1, <1>2, <1>3, <1>4 DEF WorkerStep, Worker

LEMMA OvertakenStep ==
  ASSUME OvertakenIsStopped, Loader!TypeOK, ViewerStep
  PROVE  OvertakenIsStopped'
<1>1. CASE ContinueStep
  <2>1. UNCHANGED <<pc, job, messages, overtaken>> /\ (_bStopLoading => _bStopLoading')
    BY <1>1 DEF ContinueStep, thread, MayAsk, Ask, AskNothing, Loader!ShowImage, Loader!NoRequest
  <2> QED BY <2>1 DEF OvertakenIsStopped, InProgress
<1>2. CASE CloseStep
  <2>1. UNCHANGED <<pc, job, messages, overtaken, _bStopLoading>>
    BY <1>2 DEF CloseStep, Loader!SignalExit, Loader!StopThread
  <2> QED BY <2>1 DEF OvertakenIsStopped, InProgress
<1>3. CASE UNCHANGED vars
  <2>1. UNCHANGED <<pc, job, messages, overtaken, _bStopLoading>>
    BY <1>3 DEF vars, loader
  <2> QED BY <2>1 DEF OvertakenIsStopped, InProgress
<1> QED BY <1>1, <1>2, <1>3, OvertakenUI, OvertakenAnswer, OvertakenWorker DEF ViewerStep

(***************************************************************************)
(* The newest request.                                                     *)
(***************************************************************************)
\* A new request is in the mailbox, a stop gives up what was wanted.
LEMMA NewestUI ==
  ASSUME NewestIsSomewhere, StoppedWantsNothing, UIStep
  PROVE  NewestIsSomewhere'
<1>1. CASE UserAsksNothing /\ (_bStopped' => _bStopped) /\ _path' = _path
  <2>1. UNCHANGED <<_pInfo, _bStopLoading, pc, job, messages, wanted, _path>>
    BY <1>1 DEF UIStep, UserAsksNothing, AskNothing, Loader!NoRequest, thread
  <2>2. _bStopped => wanted = NoPath
    BY DEF StoppedWantsNothing
  <2> QED
    BY <1>1, <2>1, <2>2 DEF NewestIsSomewhere, HasJob, JobIsWanted, MessageIsWanted
<1>2. CASE \E info \in CImageLoad : UserAsks(info)
  BY <1>2, LoadFacts DEF UserAsks, Ask, Loader!ShowImage, NewestIsSomewhere
<1>3. CASE StopOnly \/ wanted' = NoPath
  BY <1>3 DEF StopOnly, NewestIsSomewhere
<1> QED BY <1>1, <1>2, <1>3 DEF UIStep, Requests

\* A message that is not the last leaves the newest request where it is; the last one
\* brings the picture, or its request has been given up.
LEMMA NewestAnswer ==
  ASSUME NewestIsSomewhere, StoppedWantsNothing, Loader!TypeOK, ViewerTypes, AnswerStep
  PROVE  NewestIsSomewhere'
<1>1. CASE \E info \in CImageLoad : Ask(info)
  BY <1>1, LoadFacts DEF Ask, Loader!ShowImage, NewestIsSomewhere
<1>2. CASE wanted' = NoPath
  BY <1>2 DEF NewestIsSomewhere
<1>3. ASSUME ~(\E info \in CImageLoad : Ask(info)), wanted' # NoPath
      PROVE  NewestIsSomewhere'
  <2>1. UNCHANGED <<_pInfo, _bStopLoading, pc, job, wanted, _bStopped>>
    BY <1>3 DEF AnswerStep, Answered, MayAsk, AskNothing, Loader!NoRequest, thread
  <2>2. wanted # NoPath /\ ~_bStopped
    BY <1>3, <2>1 DEF StoppedWantsNothing
  <2>3. CASE _pInfo # NoLoad
    BY <2>1, <2>2, <2>3 DEF NewestIsSomewhere
  <2>4. CASE _pInfo = NoLoad /\ HasJob
    BY <2>1, <2>2, <2>4 DEF NewestIsSomewhere, HasJob, JobIsWanted
  <2>5. CASE _pInfo = NoLoad /\ ~HasJob
    <3>1. messages # <<>> /\ messages \in Seq(Loader!Jobs) /\ messages' = Tail(messages)
      BY DEF AnswerStep, Loader!TypeOK
    <3>2. MessageIsWanted
      BY <2>2, <2>5, <3>1 DEF NewestIsSomewhere
    <3>3. CASE messages' # <<>>
      <4>1. messages'[Len(messages')] = messages[Len(messages)]
        BY <3>1, <3>3, QueueFacts
      <4>2. MessageIsWanted'
        BY <2>1, <3>2, <4>1 DEF MessageIsWanted
      <4> QED BY <2>1, <2>5, <3>3, <4>2 DEF NewestIsSomewhere, HasJob
    <3>4. CASE messages' = <<>>
      <4> DEFINE message == Head(messages)
      <4>1. message = messages[Len(messages)]
        BY <3>1, <3>4, QueueFacts
      <4>2. /\ message.info._path = wanted
            /\ wanted \in Good => message.loaded
            /\ ~message._bWasStopped
        BY <3>2, <4>1 DEF MessageIsWanted
      <4>3. Answered(message)
        BY DEF AnswerStep
      <4> HIDE DEF message
      <4>4. wanted \in Good => _path' = wanted
        BY <1>3, <2>1, <2>2, <4>2, <4>3 DEF Answered
      <4> QED BY <2>1, <2>5, <3>4, <4>4 DEF NewestIsSomewhere, HasJob
    <3> QED BY <3>3, <3>4
  <2> QED BY <2>3, <2>4, <2>5
<1> QED BY <1>1, <1>2, <1>3

\* The worker moves the request on: from the mailbox to its job, from there to the queue.
LEMMA NewestWorker ==
  ASSUME NewestIsSomewhere, Loader!TypeOK, ViewerTypes, WorkerStep
  PROVE  NewestIsSomewhere'
<1> USE DEF Loader!Goto, Loader!mailbox, Loader!exitFlags, Loader!NoJob
<1>0. UNCHANGED <<_path, _bStopped>>
  BY DEF WorkerStep, Worker, shown, modes
<1>1. CASE Stamp
  <2>1. /\ pc = "stamp" /\ pc' = "post" /\ job \in Loader!Jobs
        /\ job' = [job EXCEPT !._bWasStopped = _bStopLoading]
        /\ UNCHANGED _pInfo
    BY <1>1 DEF Stamp, Loader!Stamp, Loader!TypeOK
  <2>2. job'.info = job.info /\ job'.loaded = job.loaded /\ job'._bWasStopped = _bStopLoading
    BY <2>1 DEF Loader!Jobs
  <2>3. CASE _bStopLoading /\ _pInfo = NoLoad
    BY <1>1, <2>3 DEF Stamp, NewestIsSomewhere
  <2>4. CASE ~(_bStopLoading /\ _pInfo = NoLoad)
    <3>1. wanted' = wanted
      BY <1>1, <2>4 DEF Stamp
    <3> QED
      BY <2>1, <2>2, <2>4, <3>1 DEF NewestIsSomewhere, HasJob, JobIsWanted
  <2> QED BY <2>3, <2>4
<1>2. CASE UNCHANGED wanted /\ \E loaded \in BOOLEAN : Load(loaded)
  <2>1. PICK loaded \in BOOLEAN : Load(loaded)
    BY <1>2
  <2>2. /\ pc = "load" /\ job \in Loader!Jobs
        /\ pc' = IF loaded /\ ~_bStopLoading /\ job.info._bDelay THEN "delay" ELSE "stamp"
        /\ job' = [job EXCEPT !.loaded = loaded]
        /\ job.info._path \in Good => loaded \/ _bStopLoading
        /\ UNCHANGED <<_pInfo, _bStopLoading, wanted>>
    BY <1>2, <2>1 DEF Load, Loader!Load, Loader!TypeOK
  <2>3. job'.info = job.info /\ job'.loaded = loaded
    BY <2>2 DEF Loader!Jobs
  <2> QED
    BY <2>2, <2>3 DEF NewestIsSomewhere, HasJob, JobIsWanted
<1>3. CASE UNCHANGED wanted /\ Loader!WaitDelay
  BY <1>3 DEF Loader!WaitDelay, NewestIsSomewhere, HasJob, JobIsWanted
<1>4. CASE UNCHANGED wanted /\ Loader!SignalImageLoadComplete
  <2>1. /\ pc = "post" /\ pc' = "leave" /\ job \in Loader!Jobs
        /\ messages \in Seq(Loader!Jobs) /\ messages' = Append(messages, job)
        /\ UNCHANGED <<_pInfo, wanted>>
    BY <1>4 DEF Loader!SignalImageLoadComplete, Loader!TypeOK
  <2>2. messages' # <<>> /\ messages'[Len(messages')] = job
    BY <2>1
  <2> QED
    BY <2>1, <2>2 DEF NewestIsSomewhere, HasJob, JobIsWanted, MessageIsWanted
<1>5. CASE UNCHANGED wanted /\ Loader!PopInfo
  <2>1. CASE _pInfo = NoLoad
    <3>1. pc = "pop" /\ pc' = "test" /\ UNCHANGED <<_pInfo, messages>>
      BY <1>5, <2>1 DEF Loader!PopInfo
    <3> QED BY <1>0, <1>5, <3>1 DEF NewestIsSomewhere, HasJob, MessageIsWanted
  <2>2. CASE _pInfo # NoLoad
    <3>1. /\ job' = [info |-> _pInfo, loaded |-> FALSE, _bWasStopped |-> FALSE]
          /\ pc' = "load" /\ _pInfo' = NoLoad
      BY <1>5, <2>2 DEF Loader!PopInfo
    <3>2. job'.info = _pInfo
      BY <3>1
    <3> QED BY <1>5, <2>2, <3>1, <3>2 DEF NewestIsSomewhere, HasJob, JobIsWanted
  <2> QED BY <2>1, <2>2
<1>6. CASE /\ UNCHANGED wanted
           /\ \/ Loader!TestExit \/ Loader!WakeForLoad \/ Loader!WakeForExit \/ Loader!ResetEvent
              \/ Loader!ClearStop \/ Loader!LeaveScope
  <2>1. UNCHANGED <<_pInfo, messages>> /\ ~HasJob /\ ~HasJob'
    BY <1>6 DEF Loader!TestExit, Loader!WakeForLoad, Loader!WakeForExit, Loader!ResetEvent,
       Loader!ClearStop, Loader!LeaveScope, HasJob
  <2> QED BY <1>0, <1>6, <2>1 DEF NewestIsSomewhere, MessageIsWanted
<1> QED BY <1>1, <1>2, <1>3, <1>4, <1>5, <1>6 DEF WorkerStep, Worker

LEMMA NewestStep ==
  ASSUME NewestIsSomewhere, StoppedWantsNothing, Loader!TypeOK, ViewerTypes, ViewerStep
  PROVE  NewestIsSomewhere'
<1>1. CASE CloseStep
  <2>1. UNCHANGED <<_pInfo, _bStopLoading, pc, job, messages, wanted, _path, _bStopped>>
    BY <1>1 DEF CloseStep, Loader!SignalExit, Loader!StopThread
  <2> QED BY <2>1 DEF NewestIsSomewhere, HasJob, JobIsWanted, MessageIsWanted
<1>2. CASE UNCHANGED vars
  BY <1>2 DEF vars, loader, shown, modes, NewestIsSomewhere, HasJob, JobIsWanted, MessageIsWanted
<1>3. CASE ContinueStep
  <2>1. CASE \E info \in CImageLoad : Ask(info)
    BY <2>1, LoadFacts DEF Ask, Loader!ShowImage, NewestIsSomewhere
  <2>2. CASE AskNothing
    <3>1. UNCHANGED <<_pInfo, _bStopLoading, pc, job, messages, wanted, _path, _bStopped>>
      BY <1>3, <2>2 DEF ContinueStep, AskNothing, Loader!NoRequest, thread
    <3> QED BY <3>1 DEF NewestIsSomewhere, HasJob, JobIsWanted, MessageIsWanted
  <2> QED BY <1>3, <2>1, <2>2 DEF ContinueStep, MayAsk
<1> QED BY <1>1, <1>2, <1>3, NewestUI, NewestAnswer, NewestWorker DEF ViewerStep

(***************************************************************************)
(* The theorems.                                                           *)
(***************************************************************************)
LEMMA Starts == Init => IInv /\ Loader!Init
<1> SUFFICES ASSUME Init PROVE IInv /\ Loader!Init
  OBVIOUS
<1>1. Loader!Init
  BY DEF Init
<1>2. Loader!TypeOK
  <2>1. messages \in Seq(Loader!Jobs)
    BY <1>1 DEF Loader!Init
  <2> QED BY <1>1, <2>1 DEF Loader!Init, Loader!TypeOK, Loader!Steps, Loader!NoJob
<1>3. ViewerTypes
  <2>1. files \in Folders /\ _nFocusItem = -1 /\ ops = 0
    BY DEF Init
  <2>2. Len(files) \in Nat /\ ops \in 0 .. MaxOps
    BY <2>1, ViewerAssumption, IndexFacts
  <2>3. FolderTyped
    BY <2>1, <2>2 DEF FolderTyped
  <2> QED BY <2>2, <2>3, Typed DEF Init, RestTyped, SlidesTyped
<1>4. HandlerRuns /\ OvertakenIsStopped /\ StoppedWantsNothing /\ NewestIsSomewhere
  BY DEF Init, HandlerRuns, OvertakenIsStopped, StoppedWantsNothing, NewestIsSomewhere
<1>5. Loader!NoLostWakeup
  BY <1>1 DEF Loader!Init, Loader!NoLostWakeup
<1> QED BY <1>1, <1>2, <1>3, <1>4, <1>5 DEF IInv

LEMMA Steps ==
  ASSUME IInv, [Next]_vars
  PROVE  IInv' /\ [Loader!Next]_(Loader!loaderVars)
<1>1. ViewerStep
  BY NextMoves DEF IInv
<1>2. ViewerTypes'
  BY NextMoves DEF IInv
<1>3. [Loader!Next]_(Loader!loaderVars)
  BY <1>1, LoaderStep
<1>4. Loader!TypeOK' /\ Loader!NoLostWakeup'
  BY <1>3, LoaderTypes, LoaderWakes DEF IInv
<1>5. HandlerRuns' /\ OvertakenIsStopped' /\ StoppedWantsNothing' /\ NewestIsSomewhere'
  BY <1>1, RunsStep, OvertakenStep, StoppedStep, NewestStep DEF IInv
<1> QED BY <1>2, <1>3, <1>4, <1>5 DEF IInv

\* The newest request is always in one place: the mailbox, the worker's job, the last
\* message, or on the screen.
THEOREM InductiveInvariant == Spec => []IInv
<1>1. Init => IInv
  BY Starts
<1>2. IInv /\ [Next]_vars => IInv'
  BY Steps
<1> QED BY <1>1, <1>2, PTL DEF Spec

\* Every variable of the viewer and of the loader keeps its type.
THEOREM TypesHold == Spec => []TypeOK
<1>1. IInv => TypeOK
  <2> SUFFICES ASSUME IInv PROVE TypeOK
    OBVIOUS
  <2>1. Len(messages) \in Nat
    BY DEF IInv, Loader!TypeOK
  <2>2. overtaken \subseteq 1 .. Len(messages) + 1
    BY <2>1 DEF IInv, OvertakenIsStopped
  <2> QED BY <2>2 DEF IInv, ViewerTypes, TypeOK
<1> QED BY <1>1, InductiveInvariant, PTL

\* When all is at rest the picture shown is the one last asked for: with the event not
\* set the mailbox is empty, the worker waits and the queue is empty, so the only place
\* left for the newest request is the screen.
THEOREM LastRequestIsShown == Spec => []LastRequestWins
<1>1. IInv => LastRequestWins
  <2> SUFFICES ASSUME IInv, Idle, wanted \in Good, ~_bStopped PROVE _path = wanted
    BY DEF LastRequestWins
  <2>1. wanted # NoPath
    BY ViewerAssumption
  <2>2. _pInfo = NoLoad /\ ~HasJob /\ messages = <<>>
    BY DEF IInv, Idle, Loader!NoLostWakeup, HasJob
  <2> QED BY <2>1, <2>2 DEF IInv, NewestIsSomewhere
<1> QED BY <1>1, InductiveInvariant, PTL

\* A pause holds: while _bStopped is set nothing is wanted, so neither an answer nor the
\* worker's Stamp has anything left to change.
THEOREM PauseIsKept == Spec => PauseHolds
<1> DEFINE Held == _bStopped /\ ~inEnd /\ ops' = ops
                     => UNCHANGED <<_path, _bDirty, _bPlay, slides, folder, wanted>>
<1>1. IInv /\ [Next]_vars => [Held]_vars
  <2> SUFFICES ASSUME IInv, Next, _bStopped, ~inEnd, ops' = ops
               PROVE  UNCHANGED <<_path, _bDirty, _bPlay, slides, folder, wanted>>
    OBVIOUS
  <2>1. wanted = NoPath /\ ops \in Nat
    BY DEF IInv, StoppedWantsNothing, ViewerTypes
  <2>2. ~UserTurn /\ ops' # ops + 1
    BY <2>1 DEF UserTurn
  <2>3. CASE User
    BY <2>2, <2>3 DEF User, Step, Select, HomeSlide, HomeFile, EndSlide, EndFile, Play, Pause, Stop,
       ReloadFileList, OpenFolder, Edit, Reload, ToggleRepeat, SaveAndMove
  <2>4. CASE Continue
    BY <2>4 DEF Continue, EndFilePrevious, LoadNextAfterFocus, IInv, HandlerRuns
  <2>5. CASE CloseWindow
    BY <2>2, <2>5 DEF CloseWindow
  <2>6. CASE StopThread
    BY <2>6 DEF StopThread, shown, modes
  <2>7. CASE OnLoadComplete
    BY <2>7 DEF OnLoadComplete, TakeMessage, IgnoreAnswer, AskNothing, shown
  <2>8. CASE Worker
    BY <2>1, <2>8 DEF Worker, Stamp, shown, modes
  <2> QED BY <2>3, <2>4, <2>5, <2>6, <2>7, <2>8 DEF Next
<1> QED BY <1>1, InductiveInvariant, PTL DEF Spec, PauseHolds

\* The answer of a load that was in progress when the user asked for something else is
\* ignored: the stop flag the request set was still set when the worker stamped it.
THEOREM OvertakenLoadsAreIgnored == Spec => OvertakenIsIgnored
<1> DEFINE Ignored == 1 \in overtaken /\ Len(messages') < Len(messages)
                        => UNCHANGED <<_pInfo, _path, _bDirty, _bPlay, slides, folder, wanted>>
<1>1. IInv /\ [Next]_vars => [Ignored]_vars
  <2> SUFFICES ASSUME IInv, Next, 1 \in overtaken, Len(messages') < Len(messages)
               PROVE  UNCHANGED <<_pInfo, _path, _bDirty, _bPlay, slides, folder, wanted>>
    OBVIOUS
  <2>1. messages \in Seq(Loader!Jobs) /\ Len(messages) \in Nat
    BY DEF IInv, Loader!TypeOK
  <2>2. CASE OnLoadComplete
    <3>1. messages # <<>> /\ Len(messages) # 0 /\ Head(messages) = messages[1]
      BY <2>1, <2>2 DEF OnLoadComplete, TakeMessage
    <3>2. messages[1]._bWasStopped
      BY <2>1, <3>1 DEF IInv, OvertakenIsStopped
    <3>3. IgnoreAnswer(Head(messages).info)
      BY <2>2, <3>1, <3>2 DEF OnLoadComplete
    <3> QED BY <3>3 DEF IgnoreAnswer, AskNothing, Loader!NoRequest, shown
  <2>3. CASE User \/ Continue
    <3>1. UNCHANGED messages
      BY <2>3, UserMoves, ContinueMoves DEF IInv, Continue, UIStep, ContinueStep
    <3> QED BY <2>1, <3>1
  <2>4. CASE CloseWindow \/ StopThread
    <3>1. UNCHANGED messages
      BY <2>4 DEF CloseWindow, StopThread, Loader!SignalExit, Loader!StopThread
    <3> QED BY <2>1, <3>1
  <2>5. CASE Worker
    <3>1. UNCHANGED messages \/ (job \in Loader!Jobs /\ messages' = Append(messages, job))
      BY <2>5 DEF Worker, Stamp, Load, Loader!Goto, Loader!NoJob, Loader!Stamp, Loader!TestExit, Loader!WakeForLoad,
         Loader!WakeForExit, Loader!ResetEvent, Loader!ClearStop, Loader!PopInfo, Loader!WaitDelay,
         Loader!SignalImageLoadComplete, Loader!LeaveScope, Loader!Load, IInv, Loader!TypeOK
    <3> QED BY <2>1, <3>1
  <2> QED BY <2>2, <2>3, <2>4, <2>5 DEF Next
<1> QED BY <1>1, InductiveInvariant, PTL DEF Spec, OvertakenIsIgnored

\* The viewer and the worker together are a behaviour of LoaderThread: what is proved of
\* the thread for any user of it is true in the viewer.
THEOREM ViewerUsesTheLoader == Spec => UsesTheLoader
<1>1. Init => Loader!Init
  BY Starts
<1>2. IInv /\ [Next]_vars => [Loader!Next]_(Loader!loaderVars)
  BY Steps
<1> QED BY <1>1, <1>2, InductiveInvariant, PTL DEF Spec, UsesTheLoader, Loader!Spec
=============================================================================
