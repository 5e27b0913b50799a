----------------------------- MODULE ImageViewer -----------------------------
(***************************************************************************)
(* ImageState and the part of the main frame that drives it: browsing a    *)
(* folder, the slide show, edits that make the picture dirty, and the      *)
(* handling of WM_LOADCOMPLETE.  It is composed with the worker thread of  *)
(* LoaderThread, whose mailbox and messages it uses.                       *)
(*                                                                         *)
(* Handlers of the UI thread run to completion one after another; worker   *)
(* steps interleave with them, also inside a handler that makes two        *)
(* requests.  The items are the files of the open folder in order, or what *)
(* a search has found in several folders: two files of the same name may   *)
(* then be in one list.  Shuffling and sub folders are off, the folder     *)
(* window is not pinned, and no dialog dispatches messages while open.     *)
(***************************************************************************)
EXTENDS Integers, Sequences, SequencesExt

CONSTANTS
  Paths,     \* the files
  Good,      \* those a plug-in can decode
  Folders,   \* the contents a folder may have: sequences of files
  FileName,  \* the name of each file, without its folder
  NoPath,    \* no file: the viewer is empty
  NoLoad,
  MaxOps     \* bound: operations of the user in a behaviour

ASSUME ViewerAssumption ==
  /\ Good \subseteq Paths
  /\ NoPath \notin Paths
  /\ Folders \subseteq Seq(Paths)
  /\ \A f \in Folders : IsInjective(f)
  /\ MaxOps \in Nat

VARIABLES
  _pInfo, _eventRefresh, _bStopLoading, _bExit, _eventExit, pc, job, IsLoading, messages,
  _path,             \* ImageState: the file of the picture shown
  _bDirty,           \* the picture has edits that are not saved
  _bStopped,         \* answers that arrive now are to be ignored
  _bPlay,            \* the slide show advances by itself
  _bSlideShow,       \* the slide show view is open
  _bSlideShowFoundImages,
  _bHasFileList, _items, _nSlideShowItem,   \* the slides and the current one
  files, _nFocusItem,                       \* Folder: its items and the focus
  _bRepeat,          \* App.Options.m_bRepeat
  inEnd,             \* the UI thread is inside End, before it calls PreviousImage
  answering,         \* the request whose OnLoadComplete has made a request and has
                     \* still to call LoadNext
  ops,               \* operations of the user so far
  wanted,            \* history: the last file asked for, NoPath once its answer
                     \* is sure to be ignored
  overtaken          \* history: the places in the queue of the answers of loads that
                     \* were in progress when the user asked for something else

loader == <<_pInfo, _eventRefresh, _bStopLoading, _bExit, _eventExit, pc, job, IsLoading, messages>>
thread == <<_bExit, _eventExit, pc, job, IsLoading>>
slides == <<_bSlideShowFoundImages, _bHasFileList, _items, _nSlideShowItem>>
folder == <<files, _nFocusItem>>
shown  == <<_path, _bDirty>>
modes  == <<_bStopped, _bPlay, _bSlideShow>>
settings == <<_bRepeat, inEnd, answering>>
vars   == <<loader, shown, modes, slides, folder, settings, ops, wanted, overtaken>>

Index == UNION {0 .. Len(f) - 1 : f \in Folders}

\* A request.  _nStartItem is where a walk over undecodable files began.
CImageLoad ==
  [_path : Paths, _bIsSlideShow : BOOLEAN, _bSignalEvent : BOOLEAN, _nStartItem : Index,
   _nLoadItem : Index, _nDirection : -1..1, _bDelay : BOOLEAN]

ASSUME NoLoadAssumption == NoLoad \notin CImageLoad

Loader == INSTANCE LoaderThread WITH Loads <- CImageLoad

Item(list, n) == list[n + 1]

\* The request for the n-th of list.
Request(list, n, slideShow, signal, start, direction, delay) ==
  [_path |-> Item(list, n), _bIsSlideShow |-> slideShow, _bSignalEvent |-> signal,
   _nStartItem |-> start, _nLoadItem |-> n, _nDirection |-> direction, _bDelay |-> delay]

\* One step past either end continues at the other.
Wrap(n, count) == IF n < 0 THEN count - 1 ELSE IF n >= count THEN 0 ELSE n

Ask(info) == Loader!ShowImage(info) /\ wanted' = info._path
AskNothing == Loader!NoRequest /\ UNCHANGED wanted

\* The worker is loading, or has loaded and not yet looked whether it was stopped.
InProgress == pc \in {"load", "delay", "stamp"}

\* Requests in an operation of the user.
UserAsks(info) ==
  /\ Ask(info)
  /\ overtaken' = overtaken \cup IF InProgress THEN {Len(messages) + 1} ELSE {}

UserAsksNothing == AskNothing /\ UNCHANGED overtaken
StopOnly == Loader!SetStopLoading /\ wanted' = NoPath /\ UNCHANGED overtaken

Init ==
  /\ Loader!Init
  /\ _path = NoPath
  /\ _bDirty = FALSE
  /\ _bStopped = FALSE
  /\ _bPlay = FALSE
  /\ _bSlideShow = FALSE
  /\ _bSlideShowFoundImages = FALSE
  /\ _bHasFileList = FALSE
  /\ _items = <<>>
  /\ _nSlideShowItem = -1
  /\ files \in Folders
  /\ _nFocusItem = -1
  /\ _bRepeat \in BOOLEAN
  /\ inEnd = FALSE
  /\ answering = NoLoad
  /\ ops = 0
  /\ wanted = NoPath
  /\ overtaken = {}

(***************************************************************************)
(* The list of slides.                                                     *)
(***************************************************************************)
\* GetItemList keeps the old slides when the folder is empty; otherwise the slide
\* of the focused item becomes the current one.
BuildList ==
  [items |-> IF files = <<>> THEN _items ELSE files,
   current |-> IF files = <<>> THEN -1 ELSE _nFocusItem,
   found |-> FALSE]

\* CheckImageList: the slides are built when they are first needed.
CheckedList ==
  IF _bHasFileList
    THEN [items |-> _items, current |-> _nSlideShowItem, found |-> _bSlideShowFoundImages]
    ELSE BuildList

SetList(list) ==
  /\ _items' = list.items
  /\ _nSlideShowItem' = list.current
  /\ _bSlideShowFoundImages' = list.found
  /\ _bHasFileList' = TRUE

ResetFolderDetails ==
  /\ _items' = <<>>
  /\ _nSlideShowItem' = -1
  /\ _bSlideShowFoundImages' = FALSE
  /\ _bHasFileList' = FALSE

(***************************************************************************)
(* Operations of the user.  Each ends with the state of its last call.     *)
(***************************************************************************)
UIThreadFree == Loader!Running /\ ~inEnd /\ answering = NoLoad

UserTurn ==
  /\ UIThreadFree
  /\ ops < MaxOps
  /\ ops' = ops + 1
  /\ UNCHANGED <<thread, messages>>

\* StepImage in the slide show: the slide nStep away from the current one.
StepSlide(list, nStep, delay, otherwise) ==
  IF list.items = <<>>
    THEN otherwise
    ELSE LET nSeek == Wrap(list.current + nStep, Len(list.items))
         IN  UserAsks(Request(list.items, nSeek, TRUE, TRUE, nSeek, nStep, delay))

\* StepImage in the folder, from item focus.
StepFile(focus, nStep, otherwise) ==
  IF files = <<>>
    THEN otherwise
    ELSE LET nSeek == Wrap(focus + nStep, Len(files))
         IN  UserAsks(Request(files, nSeek, FALSE, TRUE, nSeek, nStep, FALSE))

\* PreviousImage and NextImage: Pause, then StepImage.
Step(nStep) ==
  /\ UserTurn
  /\ _bPlay' = FALSE
  /\ _bStopped' = FALSE
  /\ IF _bSlideShow
       THEN SetList(CheckedList) /\ StepSlide(CheckedList, nStep, FALSE, StopOnly)
       ELSE StepFile(_nFocusItem, nStep, StopOnly) /\ UNCHANGED slides
  /\ UNCHANGED <<shown, _bSlideShow, folder, settings>>

\* LoadImage for the item that has got the focus.
FocusRequest(n) == Request(files, n, FALSE, FALSE, n, 0, FALSE)

\* FolderState::Select, with OnFocusChanged of the normal view: a newly focused
\* item is loaded unless it is the picture shown already.
SelectItem(n) ==
  /\ _nFocusItem' = n
  /\ IF n # _nFocusItem /\ Item(files, n) # _path
       THEN UserAsks(FocusRequest(n)) /\ _bStopped' = FALSE
       ELSE UserAsksNothing /\ UNCHANGED _bStopped
  /\ UNCHANGED <<shown, _bPlay, _bSlideShow, slides, files, _bRepeat>>

Select(n) ==
  /\ UserTurn
  /\ n \in 0 .. Len(files) - 1
  /\ SelectItem(n)
  /\ UNCHANGED <<inEnd, answering>>

\* Mutant of HomeSlide: one past the last slide.
HomeSlideOffByOne ==
  /\ UserTurn
  /\ _bSlideShow
  /\ SetList([CheckedList EXCEPT !.current = Len(CheckedList.items)])
  /\ UserAsksNothing
  /\ UNCHANGED <<shown, modes, folder, settings>>

\* Home makes the last slide the current one and loads nothing; in a folder it
\* focuses the last item.
HomeSlide ==
  /\ UserTurn
  /\ _bSlideShow
  /\ SetList([CheckedList EXCEPT !.current = Len(CheckedList.items) - 1])
  /\ UserAsksNothing
  /\ UNCHANGED <<shown, modes, folder, settings>>

HomeFile == ~_bSlideShow /\ Select(Len(files) - 1)

\* End makes the first item the current one and then steps back, over the end of
\* the list.  In a folder both may ask for a picture.
EndSlide ==
  /\ UserTurn
  /\ _bSlideShow
  /\ LET list == [CheckedList EXCEPT !.current = 0]
     IN  SetList(list) /\ StepSlide(list, -1, FALSE, StopOnly)
  /\ _bPlay' = FALSE
  /\ _bStopped' = FALSE
  /\ UNCHANGED <<shown, _bSlideShow, folder, settings>>

EndFile ==
  /\ UserTurn
  /\ ~_bSlideShow
  /\ inEnd' = TRUE
  /\ IF files = <<>>
       THEN UserAsksNothing /\ UNCHANGED <<shown, modes, slides, folder, _bRepeat>>
       ELSE SelectItem(0)
  /\ UNCHANGED answering

\* The worker may have taken the request for the first item by now.
EndFilePrevious ==
  /\ inEnd
  /\ inEnd' = FALSE
  /\ _bPlay' = FALSE
  /\ _bStopped' = FALSE
  /\ StepFile(_nFocusItem, -1, StopOnly)
  /\ UNCHANGED <<thread, messages, shown, _bSlideShow, slides, folder, _bRepeat, answering, ops>>

Play ==
  /\ UserTurn
  /\ ~_bPlay
  /\ SetList(BuildList)
  /\ _bPlay' = TRUE
  /\ _bSlideShow' = TRUE
  /\ _bStopped' = FALSE
  /\ StepSlide(BuildList, 1, _path # NoPath, UserAsksNothing)
  /\ UNCHANGED <<shown, folder, settings>>

Pause ==
  /\ UserTurn
  /\ _bStopped' = TRUE
  /\ _bPlay' = FALSE
  /\ StopOnly
  /\ UNCHANGED <<shown, _bSlideShow, slides, folder, settings>>

\* Leaving the slide show.
Stop ==
  /\ UserTurn
  /\ _bSlideShow
  /\ _bStopped' = TRUE
  /\ _bPlay' = FALSE
  /\ _bSlideShow' = FALSE
  /\ ResetFolderDetails
  /\ StopOnly
  /\ UNCHANGED <<shown, folder, settings>>

\* Another folder, or the same one after it changed: CMainFrame::OnFolderChanged.
\* The load in progress is left alone.
OpenFolder(f) ==
  /\ UserTurn
  /\ f # files
  /\ files' = f
  /\ _nFocusItem' = -1
  /\ ResetFolderDetails
  /\ UserAsksNothing
  /\ UNCHANGED <<shown, modes, settings>>

ReloadFileList ==
  /\ UserTurn
  /\ SetList([BuildList EXCEPT !.items = IF files = <<>> THEN <<>> ELSE @])
  /\ UserAsksNothing
  /\ UNCHANGED <<shown, modes, folder, settings>>

Edit ==
  /\ UserTurn
  /\ _path # NoPath
  /\ _bDirty' = TRUE
  /\ UserAsksNothing
  /\ UNCHANGED <<_path, modes, slides, folder, settings>>

ToggleRepeat ==
  /\ UserTurn
  /\ _bRepeat' = ~_bRepeat
  /\ UserAsksNothing
  /\ UNCHANGED <<shown, modes, slides, folder, inEnd, answering>>

\* OnClose may save the picture first, and closing may be cancelled.  OnDestroy
\* then ends the UI thread's part in two steps, between which the worker runs on.
CloseWindow ==
  /\ UIThreadFree
  /\ ops < MaxOps
  /\ ops' = ops + 1
  /\ Loader!SignalExit
  /\ _bDirty' \in {_bDirty, FALSE}
  /\ UNCHANGED <<_path, modes, slides, folder, settings, wanted, overtaken>>

StopThread ==
  /\ Loader!StopThread
  /\ UNCHANGED <<shown, modes, slides, folder, settings, ops, wanted, overtaken>>

(***************************************************************************)
(* A picture has been loaded: OnLoadComplete.                              *)
(***************************************************************************)
\* Folder::Find looks for the name alone: the first item of that name, -1 if the
\* open folder has none.
Find(name) == SelectInSeq(files, LAMBDA file : FileName[file] = name) - 1

\* The item with the focus after SelectFolderItem.
FocusOf(info) ==
  LET nItem == Find(FileName[info._path])
  IN  IF info._bSignalEvent /\ nItem # -1 THEN nItem ELSE _nFocusItem

\* SelectFolderItem gives the focus to another file, which is then loaded: one of
\* the same name that is not the file shown.
FocusAsks(info) == FocusOf(info) # _nFocusItem /\ Item(files, FocusOf(info)) # info._path

SetImage(info) ==
  /\ _path' = info._path
  /\ _bDirty' = FALSE
  /\ _nFocusItem' = FocusOf(info)
  /\ UNCHANGED files

\* LoadNext in the slide show: remember the slide, stop at the end of the round
\* unless pictures repeat, and go on when playing or when the file was no picture.
LoadNextSlide(info, loaded) ==
  LET nSeek == Wrap(info._nLoadItem + info._nDirection, Len(_items))
      found == _bSlideShowFoundImages \/ loaded
      play  == IF info._nStartItem = nSeek THEN _bRepeat /\ found ELSE _bPlay
  IN  /\ _nSlideShowItem' = info._nLoadItem
      /\ _bSlideShowFoundImages' = found
      /\ UNCHANGED <<_bHasFileList, _items>>
      /\ IF _items = <<>>
           THEN AskNothing /\ UNCHANGED _bPlay
           ELSE /\ _bPlay' = play
                /\ IF play \/ ~loaded
                     THEN Ask(Request(_items, nSeek, TRUE, TRUE, info._nStartItem,
                                      info._nDirection, loaded \/ info._bDelay))
                     ELSE AskNothing

\* Mutant of LoadNextFile: the walk does not look where it began.
LoadNextFileForEver(info, loaded) ==
  LET nSeek == Wrap(info._nLoadItem + info._nDirection, Len(files))
  IN  /\ IF ~loaded /\ info._nDirection # 0 /\ files # <<>>
           THEN Ask(Request(files, nSeek, FALSE, info._bSignalEvent, info._nStartItem,
                            info._nDirection, FALSE))
           ELSE AskNothing
      /\ UNCHANGED <<_bPlay, slides>>

\* LoadNext in the folder: past a file that is no picture, until the walk is back
\* where it began.
LoadNextFile(info, loaded) ==
  LET nSeek == Wrap(info._nLoadItem + info._nDirection, Len(files))
  IN  /\ IF ~loaded /\ info._nDirection # 0 /\ files # <<>> /\ info._nStartItem # nSeek
           THEN Ask(Request(files, nSeek, FALSE, info._bSignalEvent, info._nStartItem,
                            info._nDirection, FALSE))
           ELSE AskNothing
      /\ UNCHANGED <<_bPlay, slides>>

LoadNext(info, loaded) ==
  \/ info._bIsSlideShow /\ _bSlideShow /\ LoadNextSlide(info, loaded)
  \/ info._bIsSlideShow /\ ~_bSlideShow /\ AskNothing /\ UNCHANGED <<_bPlay, slides>>
  \/ ~info._bIsSlideShow /\ LoadNextFile(info, loaded)

IgnoreAnswer(info) == AskNothing /\ UNCHANGED <<shown, _bPlay, slides, folder>>

\* CanDisplayNewImage: a dirty picture is replaced once it has been saved or the
\* user has given it up.  A failed save or a cancel keeps it, and ends the walk or
\* the slide show without a word.
RefuseAnswer(info) ==
  /\ Loader!NoRequest
  /\ wanted' = IF wanted = info._path THEN NoPath ELSE wanted
  /\ UNCHANGED <<shown, _bPlay, slides, folder>>

\* The picture is shown and its item focused.  When that asks for another file the
\* worker may take this request before LoadNext makes one of its own.
ShowAnswer(info) ==
  /\ SetImage(info)
  /\ \/ ~FocusAsks(info) /\ LoadNext(info, TRUE) /\ UNCHANGED answering
     \/ /\ FocusAsks(info)
        /\ Ask(FocusRequest(FocusOf(info)))
        /\ answering' = info
        /\ UNCHANGED <<_bPlay, slides>>

\* The UI thread takes the oldest message; the others move up.
TakeMessage ==
  /\ UIThreadFree
  /\ messages # <<>>
  /\ messages' = Tail(messages)
  /\ overtaken' = {n - 1 : n \in overtaken \ {1}}
  /\ UNCHANGED <<thread, _bStopped, _bSlideShow, _bRepeat, inEnd, ops>>

HandleAnswer(info, loaded) ==
  \/ loaded /\ _bDirty /\ RefuseAnswer(info) /\ UNCHANGED answering
  \/ loaded /\ ShowAnswer(info)
  \/ ~loaded /\ LoadNext(info, loaded) /\ UNCHANGED <<shown, folder, answering>>

\* Mutants of OnLoadComplete: the user's pause is not looked at, nor the stamp of
\* the worker; one message stands for all that are waiting.
OnLoadCompleteAnyway ==
  /\ TakeMessage
  /\ LET m == Head(messages)
     IN  IF m._bWasStopped
           THEN IgnoreAnswer(m.info) /\ UNCHANGED answering
           ELSE HandleAnswer(m.info, m.loaded)

OnLoadCompleteStopped ==
  /\ TakeMessage
  /\ LET m == Head(messages)
     IN  IF _bStopped
           THEN IgnoreAnswer(m.info) /\ UNCHANGED answering
           ELSE HandleAnswer(m.info, m.loaded)

OnLoadCompleteForAll ==
  /\ UIThreadFree
  /\ messages # <<>>
  /\ messages' = <<>>
  /\ overtaken' = {}
  /\ IgnoreAnswer(Head(messages).info)
  /\ UNCHANGED <<thread, _bStopped, _bSlideShow, settings, ops>>

OnLoadComplete ==
  /\ TakeMessage
  /\ LET m == Head(messages)
     IN  IF m._bWasStopped \/ _bStopped
           THEN IgnoreAnswer(m.info) /\ UNCHANGED answering
           ELSE HandleAnswer(m.info, m.loaded)

\* The rest of an OnLoadComplete that has asked for the focused file.
LoadNextAfterFocus ==
  /\ answering # NoLoad
  /\ LoadNext(answering, TRUE)
  /\ answering' = NoLoad
  /\ UNCHANGED <<thread, messages, shown, _bStopped, _bSlideShow, folder, _bRepeat, inEnd, ops, overtaken>>

(***************************************************************************)
(* Loads made by the UI thread itself.                                     *)
(***************************************************************************)
\* OnLoadComplete for a file of the folder, which never leads to a LoadNext.
ShowLoaded(info, otherwise) ==
  /\ SetImage(info)
  /\ IF FocusAsks(info) THEN UserAsks(FocusRequest(FocusOf(info))) ELSE otherwise

\* LoadNextImage tries the items after the focused one, once round.
Round(nStep) ==
  [k \in 0 .. Len(files) - 1 |->
     (Wrap(_nFocusItem + nStep, Len(files)) + k * nStep) % Len(files)]

SaveAndMove(nStep) ==
  /\ UserTurn
  /\ _path # NoPath
  /\ _bStopped' = FALSE
  /\ LET hits == {k \in DOMAIN Round(nStep) : Item(files, Round(nStep)[k]) \in Good}
     IN  \/ hits = {} /\ _bDirty' = FALSE /\ UserAsksNothing /\ UNCHANGED <<_path, folder>>
         \/ \E first \in hits :
              /\ \A k \in hits : first <= k
              /\ ShowLoaded(Request(files, Round(nStep)[first], FALSE, TRUE, 0, 0, FALSE),
                            Loader!NoRequest /\ wanted' = NoPath /\ UNCHANGED overtaken)
  /\ UNCHANGED <<_bPlay, _bSlideShow, slides, settings>>

\* The file shown has changed on disk and the user wants it again.
Reload ==
  /\ UserTurn
  /\ _path \in Good
  /\ _bStopped' = FALSE
  /\ \/ ShowLoaded([_path |-> _path, _bSignalEvent |-> TRUE], UserAsksNothing)
     \/ _bDirty /\ UserAsksNothing /\ UNCHANGED <<shown, folder>>
  /\ UNCHANGED <<_bPlay, _bSlideShow, slides, settings>>

User ==
  \/ \E nStep \in {-1, 1} : Step(nStep)
  \/ \E n \in 0 .. Len(files) - 1 : Select(n)
  \/ HomeSlide \/ HomeFile \/ EndSlide \/ EndFile
  \/ Play \/ Pause \/ Stop \/ ReloadFileList
  \/ \E f \in Folders : OpenFolder(f)
  \/ Edit \/ Reload \/ ToggleRepeat
  \/ \E nStep \in {-1, 1} : SaveAndMove(nStep)

(***************************************************************************)
(* The worker: a load that is not stopped yields a picture exactly when    *)
(* the file is good; one that is stopped may yield it all the same.        *)
(***************************************************************************)
Load(loaded) ==
  /\ Loader!Load(loaded)
  /\ IF job.info._path \in Good THEN loaded \/ _bStopLoading ELSE ~loaded

\* wanted is given up when the newest request is stamped as stopped.
Stamp ==
  /\ Loader!Stamp
  /\ wanted' = IF _bStopLoading /\ _pInfo = NoLoad THEN NoPath ELSE wanted

Worker ==
  /\ \/ Stamp
     \/ /\ \/ Loader!TestExit \/ Loader!WakeForLoad \/ Loader!WakeForExit \/ Loader!ResetEvent
           \/ Loader!ClearStop \/ Loader!PopInfo \/ Loader!WaitDelay
           \/ Loader!SignalImageLoadComplete \/ Loader!LeaveScope
           \/ \E loaded \in BOOLEAN : Load(loaded)
        /\ UNCHANGED wanted
  /\ UNCHANGED <<shown, modes, slides, folder, settings, ops, overtaken>>

\* The rest of a handler that has made its first request.
Continue == EndFilePrevious \/ LoadNextAfterFocus

Next == User \/ Continue \/ CloseWindow \/ StopThread \/ OnLoadComplete \/ Worker

\* The worker runs whenever it can and the UI thread keeps dispatching messages;
\* the user may do nothing more at any time.
Spec ==
  /\ Init
  /\ [][Next]_vars
  /\ WF_vars(Worker)
  /\ WF_vars(Continue \/ OnLoadComplete)

(***************************************************************************)
(* Properties.                                                             *)
(***************************************************************************)
TypeOK ==
  /\ Loader!TypeOK
  /\ _path \in Paths \cup {NoPath}
  /\ {_bDirty, _bStopped, _bPlay, _bSlideShow, _bSlideShowFoundImages, _bHasFileList, _bRepeat, inEnd}
       \subseteq BOOLEAN
  /\ _items \in Folders \cup {<<>>}
  /\ _nSlideShowItem \in Index \cup {-1, 0}
  /\ files \in Folders
  /\ _nFocusItem \in -1 .. Len(files) - 1
  /\ ops \in 0 .. MaxOps
  /\ wanted \in Paths \cup {NoPath}
  /\ answering \in CImageLoad \cup {NoLoad}
  /\ overtaken \subseteq 1 .. Len(messages) + 1

Idle == /\ pc = "wait" /\ ~_eventRefresh
        /\ messages = <<>> /\ ~inEnd /\ answering = NoLoad

HasGood(list) == \E i \in DOMAIN list : list[i] \in Good

\* When everything has come to rest the picture shown is the one last asked for,
\* whatever answers of earlier requests were still on their way, provided that its
\* file is good and its answer was neither stopped nor refused.  It may have been
\* asked for by the user, by LoadNext or, for a file that has the name of the one
\* just shown, by SelectFolderItem.
LastRequestWins == Idle /\ wanted \in Good /\ ~_bStopped => _path = wanted

\* A load in progress when the user asks for something else changes nothing any
\* more: its answer shows no picture, moves neither focus nor slide, and asks for no
\* other file in place of the user's.  (An answer that was waiting in the queue, or
\* already stamped, may do all of that.)
OvertakenIsIgnored ==
  [][1 \in overtaken /\ Len(messages') < Len(messages)
       => UNCHANGED <<_pInfo, _path, _bDirty, _bPlay, slides, folder, wanted>>]_vars

\* Once the user has paused, nothing that was under way changes the picture, the
\* selection or the slides, or asks for another picture, even if the worker has
\* forgotten the stop flag.
PauseHolds ==
  [][_bStopped /\ ~inEnd /\ ops' = ops => UNCHANGED <<_path, _bDirty, _bPlay, slides, folder, wanted>>]_vars

\* A slide show none of whose files is a picture.
Hopeless == _bSlideShow /\ ~HasGood(_items)

\* The requests that have not been answered yet.
InFlight ==
  ({_pInfo, answering} \ {NoLoad})
    \cup {messages[i].info : i \in DOMAIN messages}
    \cup IF InProgress \/ pc = "post" THEN {job.info} ELSE {}

\* A walk that began at an item the list no longer has, because the folder has been
\* replaced by a shorter one: in a folder without a picture it never comes back to
\* where it began, and a slide show never to the end of its round.
Lost(info) ==
  \/ info._bIsSlideShow /\ info._nStartItem >= Len(_items)
  \/ ~info._bIsSlideShow /\ info._nStartItem >= Len(files) /\ ~HasGood(files)

\* When the user does nothing more, loading comes to an end: a walk over files
\* that are no pictures stops where it began, a slide show stops at the end of its
\* round.  It goes on for ever only when a slide show plays in a loop as it was
\* told to, or finds no picture at all, or when a walk has lost its start.
Settles ==
  \/ <>[]Idle
  \/ []<>(_bPlay /\ _bRepeat)
  \/ <>[]Hopeless
  \/ <>[](\E info \in InFlight : Lost(info))
  \/ <>_eventExit

\* Seen from the worker, the main frame and ImageState are a UI thread as
\* LoaderThread expects it: a handler takes one message at a time, every request is
\* made from a file and an index of a folder, and a handler that makes two (End, and
\* OnLoadComplete when the focus asks and LoadNext after it) makes the second as a
\* request of its own, before which the worker may have taken the first.
UsesTheLoader == Loader!Spec
=============================================================================
