--------------------------- MODULE PictureEditing ---------------------------
(***************************************************************************)
(* ImageState with its undo list and its files: editing, undoing, saving,  *)
(* saving under a new name, reloading a file that has changed, and closing *)
(* the application.                                                        *)
(*                                                                         *)
(* Each of these may open a box, and the message loop of a box dispatches  *)
(* what arrives in the meantime: answers of the loader and the timer that  *)
(* refreshes the folder.  Both can replace the picture under the box, or   *)
(* open one of their own.  So a handler is not one step: `boxes' is the    *)
(* stack of the handlers that wait, the last on top, and each record holds *)
(* what its handler still remembers when the box is answered.  The boxes   *)
(* disable the main window, so commands need an empty stack.               *)
(*                                                                         *)
(* A file that the loader cannot decode holds NoPicture.  A picture is     *)
(* identified by a number; every edit makes a new one.                     *)
(***************************************************************************)
EXTENDS Naturals, Sequences, SequencesExt, FiniteSets

CONSTANTS
  Paths,        \* the files
  NoPath,       \* the empty name
  NoPicture,    \* an empty image
  MaxUndo,      \* SetImageWithHistory drops the oldest entry of a longer list
  MaxDepth,     \* bound: boxes open at once
  MaxAnswers,   \* bound: answers of the loader in the message queue
  MaxPictures,  \* bound: pictures made by edits, drops and other programs
  MaxOps        \* bound: commands of the user

ASSUME EditingAssumption ==
  /\ IsFiniteSet(Paths)
  /\ NoPath \notin Paths
  /\ {MaxUndo, MaxDepth, MaxAnswers, MaxPictures, MaxOps} \subseteq Nat
  /\ Cardinality(Paths) <= MaxPictures
  /\ NoPicture \notin [n : Nat, key : BOOLEAN]

VARIABLES
  Image,        \* ImageState: the picture shown, its file, its undo list
  disk,         \* what each file holds
  m_bAutoSave,  \* App.Options: save without asking
  request,      \* the file the loader was asked for last, until it takes it
  answers,      \* WM_LOADCOMPLETE messages
  boxes,        \* the handlers that wait for the user's answer
  running,
  made,         \* numbers used for pictures
  ops,
  replaced      \* history: the user has asked for another picture in a box

vars == <<Image, disk, m_bAutoSave, request, answers, boxes, running, made, ops, replaced>>

\* key: the picture knows the plug-in that loaded it (GetLoaderName is not empty).
Picture == [n : 1 .. MaxPictures, key : BOOLEAN]
NoName  == Paths \cup {NoPath}
CUndo   == [image : Picture, _bDirty : BOOLEAN]

\* touched: the file is newer than _ft.  onFile, history: the picture the program
\* last read from the file _path or wrote to it; NoPicture once it has destroyed it.
ImageState ==
  [_image : Picture \cup {NoPicture}, _path : NoName, _bDirty : BOOLEAN, _arUndo : Seq(CUndo),
   _bStopped : BOOLEAN, touched : BOOLEAN, onFile : Picture \cup {NoPicture}]

CImageLoad == [_path : Paths, _image : Picture \cup {NoPicture}]

\* What the caller of Save or QuerySave does when it returns true.
Done  == [do |-> "done"]
Then  == [do : {"done", "next", "sheet", "close"}] \cup [do : {"show"}, info : CImageLoad]

\* What is left of a view for a handler that works on it: the picture, and the
\* entries of the undo list.
Opened == [_image : Picture, _arUndo : Seq(CUndo)]

\* Boxes with a caller behind them, boxes of a save that has its file name, and
\* boxes that work on the picture as it was when they were opened.
Boxes ==
  [kind : {"query", "format", "saveas", "failed", "changed"}, then : Then]
    \cup [kind : {"metadata"}, then : Then, path : NoName]
    \cup [kind : {"edit", "undo", "sheet"}, opened : Opened]

TypeOK ==
  /\ Image \in ImageState
  /\ disk \in [Paths -> Picture \cup {NoPicture}]
  /\ m_bAutoSave \in BOOLEAN
  /\ request \in NoName
  /\ answers \in Seq(CImageLoad)
  /\ boxes \in Seq(Boxes)
  /\ \A i \in 1 .. Len(boxes) : boxes[i].kind = "metadata" => boxes[i].path \in Paths
  /\ running \in BOOLEAN
  /\ made \in 0 .. MaxPictures
  /\ ops \in 0 .. MaxOps
  /\ replaced \in BOOLEAN

Empty == [_image |-> NoPicture, _path |-> NoPath, _bDirty |-> FALSE, _arUndo |-> <<>>,
          _bStopped |-> FALSE, touched |-> FALSE, onFile |-> NoPicture]

Init ==
  /\ Image = Empty
  /\ disk \in [Paths -> [n : 1 .. Cardinality(Paths), key : {TRUE}]]
  /\ \A p, q \in Paths : disk[p] = disk[q] => p = q
  /\ m_bAutoSave = FALSE
  /\ request = NoPath
  /\ answers = <<>>
  /\ boxes = <<>>
  /\ running = TRUE
  /\ made = Cardinality(Paths)
  /\ ops = 0
  /\ replaced = FALSE

(***************************************************************************)
(* What happens to the picture.  v is the ImageState so far.               *)
(***************************************************************************)
\* Mutant of SetImage: the undo list is kept.
SetImageKeepsUndo(v, picture, path) ==
  [v EXCEPT !._image = picture, !._path = path, !._bDirty = FALSE,
            !.touched = FALSE, !.onFile = picture]

\* SetImage: the picture is shown as that of file path, and the undo list is emptied.
SetImage(v, picture, path) ==
  [v EXCEPT !._image = picture, !._path = path, !._bDirty = FALSE, !._arUndo = <<>>,
            !.touched = FALSE, !.onFile = picture]

\* The list is trimmed before the picture that is replaced is added to it.
SetImageWithHistory(v, picture) ==
  LET kept == IF Len(v._arUndo) > MaxUndo THEN Tail(v._arUndo) ELSE v._arUndo
  IN  [v EXCEPT !._image = picture, !._bDirty = TRUE,
                !._arUndo = IF v._image = NoPicture
                              THEN kept
                              ELSE Append(kept, [image |-> v._image, _bDirty |-> v._bDirty])]

\* Save has written the picture to path: _bDirty and UpdateFileInfo.
Saved(v, path) ==
  [v EXCEPT !._path = path, !._bDirty = FALSE, !.touched = FALSE, !.onFile = v._image]

Paused(v) == [v EXCEPT !._bStopped = TRUE]
Listening(v) == [v EXCEPT !._bStopped = FALSE]

\* A loaded picture knows its plug-in, whatever wrote the file.
Decoded(picture) == IF picture = NoPicture THEN NoPicture ELSE [picture EXCEPT !.key = TRUE]

NoLoads == UNCHANGED <<request, answers>>

\* The next new picture.
Fresh(key) == [n |-> made + 1, key |-> key]
MakePicture == made < MaxPictures /\ made' = made + 1

Open(below, box) ==
  /\ Len(below) < MaxDepth
  /\ boxes' = Append(below, box)

\* Save or QuerySave returns to its caller, with the boxes below it still open.
GiveUp(below, v) ==
  /\ boxes' = below
  /\ Image' = v
  /\ UNCHANGED <<request, running>>

Resume(then, below, v) ==
  /\ boxes' = below
  /\ CASE then.do = "done" -> Image' = v /\ UNCHANGED <<request, running>>
       [] then.do = "next" ->  \* NextImage: Pause, then StepImage
            /\ Image' = Listening(v)
            /\ request' \in Paths
            /\ UNCHANGED running
       [] then.do = "sheet" -> \* LoadNextImage: the next file that can be decoded, at once
            /\ \/ \E p \in Paths :
                    /\ disk'[p] # NoPicture
                    /\ Image' = SetImage(Listening(v), Decoded(disk'[p]), p)
               \/ (\A p \in Paths : disk'[p] = NoPicture) /\ Image' = Listening(v)
            /\ UNCHANGED <<request, running>>
       [] then.do = "close" -> Image' = v /\ running' = FALSE /\ UNCHANGED request
       [] then.do = "show" ->
            /\ Image' = SetImage(v, then.info._image, then.info._path)
            /\ UNCHANGED <<request, running>>

(***************************************************************************)
(* Saving.                                                                 *)
(***************************************************************************)
\* SaveFile and what follows it.  The picture written is the one shown now.  A
\* write that fails leaves the file alone, or half written: ~CFileTemp moves the
\* temporary file over the real one all the same.
WriteOK(then, below, v, path) ==
  /\ disk' = [disk EXCEPT ![path] = v._image]
  /\ Resume(then, below, Saved(v, path))

\* The file `path' has been destroyed.
Spoilt(v, path) ==
  IF path = v._path THEN [v EXCEPT !.touched = TRUE, !.onFile = NoPicture] ELSE v

\* Mutant of WriteFails: _bDirty is cleared whether the write succeeded or not.
WriteFailsClean(then, below, v, path) ==
  /\ Open(below, [kind |-> "failed", then |-> then])
  /\ UNCHANGED disk
  /\ Image' = [v EXCEPT !._bDirty = FALSE]
  /\ UNCHANGED <<request, running>>

WriteFails(then, below, v, path) ==
  /\ Open(below, [kind |-> "failed", then |-> then])
  /\ \/ UNCHANGED disk /\ Image' = v
     \/ disk' = [disk EXCEPT ![path] = NoPicture] /\ Image' = Spoilt(v, path)
  /\ UNCHANGED <<request, running>>

SaveFile(then, below, v, path) ==
  WriteOK(then, below, v, path) \/ WriteFails(then, below, v, path)

\* Save(strFilePath, strKey): the user may have to accept the loss of meta data.
SaveTo(then, below, v, path) ==
  \/ SaveFile(then, below, v, path)
  \/ /\ Open(below, [kind |-> "metadata", then |-> then, path |-> path])
     /\ Image' = v
     /\ UNCHANGED <<disk, request, running>>

\* Mutant of Save: a picture without a plug-in is saved like any other.
SaveUnnamed(then, below, v) == SaveTo(then, below, v, v._path)

Save(then, below, v) ==
  IF v._image.key
    THEN SaveTo(then, below, v, v._path)
    ELSE /\ Open(below, [kind |-> "format", then |-> then])
         /\ Image' = v
         /\ UNCHANGED <<disk, request, running>>

\* QuerySave, for its two callers.
QuerySave(then, below, v) ==
  IF v._bDirty
    THEN /\ Open(below, [kind |-> "query", then |-> then])
         /\ Image' = v
         /\ UNCHANGED <<disk, request, running>>
    ELSE UNCHANGED disk /\ Resume(then, below, v)

\* Mutant of CanDisplayNewImage: the picture shown is given up unasked.
DisplayUnasked(then, below, v) == UNCHANGED disk /\ Resume(then, below, v)

CanDisplayNewImage(then, below, v) ==
  IF v._bDirty /\ m_bAutoSave
    THEN Save(then, below, v)
    ELSE QuerySave(then, below, v)

Show(path, picture) == [do |-> "show", info |-> [_path |-> path, _image |-> picture]]

(***************************************************************************)
(* Commands of the user.                                                   *)
(***************************************************************************)
Command ==
  /\ running
  /\ boxes = <<>>
  /\ ops < MaxOps
  /\ ops' = ops + 1
  /\ replaced' = FALSE

IsImageShown == Image._image # NoPicture

SameFiles == UNCHANGED <<disk, m_bAutoSave, made>>
SameBoxes == UNCHANGED <<boxes, running>>

\* A file is selected: LoadImage.
Browse(p) ==
  /\ Command
  /\ p # Image._path
  /\ Image' = Listening(Image)
  /\ request' = p
  /\ SameFiles /\ SameBoxes /\ UNCHANGED answers

EditorBox(kind) ==
  [kind |-> kind, opened |-> [_image |-> Image._image, _arUndo |-> Image._arUndo]]

\* Mutant of OpenEditor: the loader is not stopped.
OpenEditorListening(kind) ==
  /\ Command
  /\ IsImageShown
  /\ Image' = Image
  /\ Open(<<>>, EditorBox(kind))
  /\ SameFiles /\ NoLoads /\ UNCHANGED running

\* A filter, with its dialog, and the sheet of CommandEditDescription.  Both
\* stop the loader first.
OpenEditor(kind) ==
  /\ Command
  /\ IsImageShown
  /\ Image' = Paused(Image)
  /\ Open(<<>>, EditorBox(kind))
  /\ SameFiles /\ NoLoads /\ UNCHANGED running

Undo ==
  /\ Command
  /\ Image._arUndo # <<>>
  /\ Image' = Paused(Image)
  /\ Open(<<>>, EditorBox("undo"))
  /\ SameFiles /\ NoLoads /\ UNCHANGED running

SaveCommand ==
  /\ Command
  /\ IsImageShown
  /\ Save(Done, <<>>, Paused(Image))
  /\ UNCHANGED <<m_bAutoSave, made, answers>>

SaveMoveNext ==
  /\ Command
  /\ IsImageShown
  /\ Save([do |-> "next"], <<>>, Image)
  /\ UNCHANGED <<m_bAutoSave, made, answers>>

SaveAs ==
  /\ Command
  /\ IsImageShown
  /\ Open(<<>>, [kind |-> "saveas", then |-> Done])
  /\ SameFiles /\ NoLoads /\ UNCHANGED <<Image, running>>

\* Unload and a picture dropped on the window ask nothing.
Unload ==
  /\ Command
  /\ IsImageShown
  /\ Image' = SetImage(Image, NoPicture, NoPath)
  /\ SameFiles /\ SameBoxes /\ NoLoads

LoadImageFromHGlobal ==
  /\ Command
  /\ MakePicture
  /\ Image' = SetImage(Image, Fresh(FALSE), NoPath)
  /\ UNCHANGED <<disk, m_bAutoSave>>
  /\ SameBoxes /\ NoLoads

ToggleAutoSave ==
  /\ Command
  /\ m_bAutoSave' = ~m_bAutoSave
  /\ UNCHANGED <<Image, disk, made>>
  /\ SameBoxes /\ NoLoads

\* OnClose asks, whether auto-save is on or not.
OnClose ==
  /\ Command
  /\ QuerySave([do |-> "close"], <<>>, Image)
  /\ UNCHANGED <<m_bAutoSave, made, answers>>

(***************************************************************************)
(* What arrives, inside a box or outside.                                  *)
(***************************************************************************)
\* The loader decodes the file it was asked for.
Load ==
  /\ running
  /\ request # NoPath
  /\ Len(answers) < MaxAnswers
  /\ answers' = Append(answers, [_path |-> request, _image |-> Decoded(disk[request])])
  /\ request' = NoPath
  /\ SameFiles /\ SameBoxes /\ UNCHANGED <<Image, ops, replaced>>

\* After a file that cannot be decoded the walk may go on to another.
LoadNext ==
  /\ Head(answers)._image = NoPicture
  /\ request' \in Paths \cup {request}
  /\ UNCHANGED <<Image, disk, running, boxes>>

OnLoadComplete ==
  /\ running
  /\ answers # <<>>
  /\ answers' = Tail(answers)
  /\ LET info == Head(answers)
     IN  \/ Image._bStopped /\ UNCHANGED <<Image, disk, request, running, boxes>>
         \/ ~Image._bStopped /\ LoadNext
         \/ /\ ~Image._bStopped
            /\ info._image # NoPicture
            /\ CanDisplayNewImage(Show(info._path, info._image), boxes, Image)
  /\ UNCHANGED <<m_bAutoSave, made, ops, replaced>>

\* The timer refreshes the folder, and its window looks at the file's time.
OnFolderRefresh ==
  /\ running
  /\ Image.touched
  /\ Image' = [Image EXCEPT !.touched = FALSE]
  /\ Open(boxes, [kind |-> "changed", then |-> Done])
  /\ SameFiles /\ NoLoads /\ UNCHANGED <<running, ops, replaced>>

\* Another program writes a file.
ExternalWrite(p) ==
  /\ running
  /\ MakePicture
  /\ disk' = [disk EXCEPT ![p] = Fresh(TRUE)]
  /\ Image' = [Image EXCEPT !.touched = Image.touched \/ Image._path = p]
  /\ SameBoxes /\ NoLoads /\ UNCHANGED <<m_bAutoSave, ops, replaced>>

(***************************************************************************)
(* The user answers the box on top.                                        *)
(***************************************************************************)
Answer(kind) ==
  /\ running
  /\ boxes # <<>>
  /\ Last(boxes).kind = kind
  /\ UNCHANGED <<m_bAutoSave, answers, ops>>

Below == Front(boxes)
Caller == Last(boxes).then

\* Yes, to `Save changes?'
QueryYes == Answer("query") /\ Save(Caller, Below, Image) /\ UNCHANGED <<made, replaced>>
QueryNo  == Answer("query") /\ UNCHANGED <<disk, made, replaced>> /\ Resume(Caller, Below, Image)

\* Cancel, or the end of a box that leads to nothing.
Cancel ==
  /\ \E kind \in {"query", "format", "saveas", "metadata", "failed", "changed",
                  "edit", "undo", "sheet"} : Answer(kind)
  /\ GiveUp(Below, Image)
  /\ replaced' = (replaced /\ Below # <<>>)
  /\ UNCHANGED <<disk, made>>

FormatOK ==
  /\ Answer("format")
  /\ Open(Below, [kind |-> "saveas", then |-> Caller])
  /\ UNCHANGED <<Image, disk, made, request, running, replaced>>

SaveAsOK ==
  /\ Answer("saveas")
  /\ \E path \in Paths : SaveTo(Caller, Below, Image, path)
  /\ UNCHANGED <<made, replaced>>

MetaDataOK ==
  /\ Answer("metadata")
  /\ SaveFile(Caller, Below, Image, Last(boxes).path)
  /\ UNCHANGED <<made, replaced>>

\* The result of an editor replaces the picture shown now.
EditedImage == SetImageWithHistory(Image, Fresh(Image._image.key))

EditOK ==
  /\ \E kind \in {"edit", "sheet"} : Answer(kind)
  /\ MakePicture
  /\ GiveUp(Below, EditedImage)
  /\ replaced' = FALSE
  /\ UNCHANGED disk

\* The Next and Previous buttons of the sheet, which stays open: OnApply, if the
\* user has changed anything, then SaveAndMoveNext.
SaveAndMoveNext ==
  /\ Answer("sheet")
  /\ replaced' = TRUE
  /\ \/ UNCHANGED made /\ Save([do |-> "sheet"], boxes, Image)
     \/ MakePicture /\ Save([do |-> "sheet"], boxes, EditedImage)

\* OK, to `Undo?'.  The handler holds a plain pointer to the last entry.  When
\* the list has been emptied under the box the entry is freed: its contents may
\* still be there, or the program crashes.
UndoOK ==
  /\ Answer("undo")
  /\ LET entry == Last(Last(boxes).opened._arUndo)
     IN  Image' = [Image EXCEPT !._image = entry.image, !._bDirty = entry._bDirty,
                                !._arUndo = IF @ = <<>> THEN @ ELSE Front(@)]
  /\ boxes' = Below
  /\ running' \in IF Image._arUndo = <<>> THEN BOOLEAN ELSE {TRUE}
  /\ replaced' = FALSE
  /\ UNCHANGED <<disk, made, request>>

\* Yes, to `has changed on disk': Reload decodes the file at once.
Reload ==
  /\ Answer("changed")
  /\ replaced' = (Below # <<>>)
  /\ UNCHANGED made
  /\ LET picture == Decoded(disk[Image._path])
     IN  IF picture = NoPicture
           THEN GiveUp(Below, Image) /\ UNCHANGED disk
           ELSE CanDisplayNewImage(Show(Image._path, picture), Below, Listening(Image))

(***************************************************************************)
(* The specification.                                                      *)
(***************************************************************************)
Commands ==
  \/ \E p \in Paths : Browse(p)
  \/ \E kind \in {"edit", "sheet"} : OpenEditor(kind)
  \/ Undo \/ SaveCommand \/ SaveMoveNext \/ SaveAs \/ Unload
  \/ LoadImageFromHGlobal \/ ToggleAutoSave \/ OnClose

Events == Load \/ OnLoadComplete \/ OnFolderRefresh \/ \E p \in Paths : ExternalWrite(p)

Answers ==
  \/ QueryYes \/ QueryNo \/ Cancel \/ FormatOK \/ SaveAsOK \/ MetaDataOK
  \/ EditOK \/ SaveAndMoveNext \/ UndoOK \/ Reload

Next == Commands \/ Events \/ Answers

Spec == Init /\ [][Next]_vars

(***************************************************************************)
(* Properties.                                                             *)
(***************************************************************************)
\* Undo goes back in time: the undo list holds ever older versions of the picture
\* shown, and MaxUndo + 1 of them at most; a picture just loaded has none.
\* (SetImageWithHistory, Undo and the ResetHistory of every SetImage, whichever
\* of them a box has put between the two halves of another.)
UndoChain ==
  LET versions == [i \in 1 .. Len(Image._arUndo) |-> Image._arUndo[i].image.n]
  IN  /\ Len(Image._arUndo) <= MaxUndo + 1
      /\ \A i, j \in DOMAIN versions : i < j => versions[i] < versions[j]
      /\ Image._image # NoPicture => \A i \in DOMAIN versions : versions[i] < Image._image.n
      /\ Image._image = NoPicture => versions = <<>>

\* While an editor or the undo box works on a picture, that picture and its undo
\* list stay, whatever arrives from the loader, until the user asks for another
\* picture in a box.  (OnBeforeFileOperation sets _bStopped; Reload and
\* LoadNextImage clear it with the box still open.)
PictureStays ==
  \A i \in 1 .. Len(boxes) :
    boxes[i].kind \in {"edit", "undo", "sheet"} /\ ~replaced =>
      /\ Image._image = boxes[i].opened._image
      /\ Image._arUndo = boxes[i].opened._arUndo

InMemory(view) ==
  {view._image} \cup {view._arUndo[i].image : i \in 1 .. Len(view._arUndo)}

\* Neither the picture nor the version made of it in this step is kept.
Lost(picture) ==
  /\ ~running' \/ picture \notin InMemory(Image')
  /\ \A p \in Paths :
       disk'[p] = NoPicture \/ disk'[p].n \notin {picture.n} \cup ((made + 1) .. made')

\* The user's answer to a question, or a command, that gives the picture up.
Consent == QueryNo \/ UndoOK \/ Unload \/ LoadImageFromHGlobal

\* A picture with unsaved changes is lost only when the user gives it up: neither
\* an answer of the loader, nor a save that fails half way through its boxes, nor
\* closing loses it.
AskedBeforeLost == [][Image._bDirty /\ Lost(Image._image) => Consent]_vars

\* The picture differs from its file, and the program takes it for saved.
Unsaved(view) ==
  /\ view._path # NoPath /\ view._image # NoPicture /\ ~view._bDirty
  /\ view.onFile = NoPicture \/ view._image.n # view.onFile.n

\* A save of a picture that already counts as saved destroys its own file.
CleanSaveFails(view) ==
  /\ ~view._bDirty
  /\ view._path \in Paths
  /\ disk' = [disk EXCEPT ![view._path] = NoPicture]
  /\ Image'._image = view._image

\* The program comes to take a picture for saved that is not in two ways only: by
\* Undo, which restores the flag from before the edit, and by a failed save of a
\* picture without changes, which leaves the flag down although the file is gone.
\* A picture with changes never gets there through a save, whatever fails, nor
\* through a box that another picture has come under.
HidesChanges ==
  [][Unsaved(Image') /\ ~Unsaved(Image) => UndoOK \/ CleanSaveFails(Image)]_vars

\* ImageWalker.rc says of Exit that it `prompts to save documents': it does not
\* when the picture shown is not what its file holds, but is taken for saved.
\* (A file that a failed save has destroyed is left to HidesChanges.)
ExitPrompts ==
  [][running /\ ~running' /\ boxes = <<>> /\ IsImageShown
       /\ Image._path # NoPath /\ Image.onFile # NoPicture
         => Image._image.n = Image.onFile.n]_vars
=============================================================================
