----------------------------- MODULE FolderItems -----------------------------
(***************************************************************************)
(* The list of a Folder and the window that shows it.  The focused item,   *)
(* the item a drag is over, the item clicked and the item to be renamed    *)
(* are all kept as indices into _thumbs, while refreshing, sorting,        *)
(* dropping and searching give every index a new meaning.                  *)
(*                                                                         *)
(* A drag, the rename dialog and the progress box of a delete run message  *)
(* loops of their own, in which the timer of the main window still         *)
(* refreshes the list; `box' is the handler that waits.  Commands need     *)
(* none.  Indices are counted from 0, as in the code.                      *)
(***************************************************************************)
EXTENDS Integers, Sequences, SequencesExt, FiniteSets

CONSTANTS
  Files,         \* names of files the folder may hold
  Results,       \* files in its subfolders, which a search may find
  Orders,        \* sort orders
  Rank(_, _),    \* Rank(order, f): the key of f
  None,          \* no box; no name
  MaxOps         \* bound: commands, and changes of the disk, in a behaviour

Names == Files \cup Results

ASSUME ItemsAssumption ==
  /\ IsFiniteSet(Names)
  /\ Files \cap Results = {}
  /\ None \notin Names
  /\ \A o \in Orders, f \in Names : Rank(o, f) \in Nat
  /\ MaxOps \in Nat

VARIABLES
  dir,              \* the files on the disk
  _thumbs,          \* the list: each item is known by its name
  selected,         \* items with THUMB_SELECTED
  _nFocusItem,
  _nSortOrder, _bAssending,
  _dwRefreshFolder, \* the timer is to refresh the list
  searching,        \* the thumbnail thread looks for results
  _strNewCreation,  \* select this file when the list is refreshed
  _nDragOverItem,
  box,
  ops

vars == <<dir, _thumbs, selected, _nFocusItem, _nSortOrder, _bAssending,
          _dwRefreshFolder, searching, _strNewCreation, _nDragOverItem, box, ops>>

Items == ToSet(_thumbs)
Indices == 0 .. Len(_thumbs) - 1
Item(n) == _thumbs[n + 1]

\* Find: -1 when there is none.
Find(list, f) ==
  IF \E i \in DOMAIN list : list[i] = f
    THEN (CHOOSE i \in DOMAIN list : list[i] = f) - 1
    ELSE -1

\* What waits for the user: the rename dialog, which holds the index and shows the
\* name; a drag that began on item n, with the keys to select it if it comes to
\* nothing; a delete.
Boxes ==
  {None}
    \cup [kind : {"rename"}, n : Nat, name : Names]
    \cup [kind : {"drag"}, n : Nat, select : BOOLEAN, ctrl : BOOLEAN, shift : BOOLEAN]
    \cup [kind : {"delete"}, files : SUBSET Names]

TypeOK ==
  /\ dir \subseteq Files
  /\ _thumbs \in Seq(Names) /\ IsInjective(_thumbs)
  /\ selected \subseteq Items
  /\ _nFocusItem \in {-1} \cup Indices
  /\ _nSortOrder \in Orders /\ _bAssending \in BOOLEAN
  /\ _dwRefreshFolder \in BOOLEAN /\ searching \in BOOLEAN
  /\ _strNewCreation \in Files \cup {None}
  /\ _nDragOverItem \in {-1} \cup Indices
  /\ box \in Boxes
  /\ ops \in 0 .. MaxOps

(***************************************************************************)
(* Folder.                                                                 *)
(***************************************************************************)
\* Sort: std::sort leaves items with equal keys in any order.
Sorted(list, order, up) ==
  {s \in SetToSeqs(ToSet(list)) :
     \A i, j \in DOMAIN s : i < j =>
       IF up THEN Rank(order, s[i]) <= Rank(order, s[j])
             ELSE Rank(order, s[i]) >= Rank(order, s[j])}

\* The items of the list that are in some, in their order.
Kept(list, some) ==
  {s \in SetToSeqs(ToSet(list) \cap some) :
     \A i, j \in DOMAIN s : i < j => Find(list, s[i]) < Find(list, s[j])}

\* New files are appended as they are enumerated.
Appended(list, some) == {list \o more : more \in SetToSeqs(some)}

\* Refresh keeps the items whose files are still there and appends the new files.
\* If the Init of a new item fails it stops there, reports success, and removes
\* nothing.
Refreshed ==
  LET new == dir \ Items
  IN  (UNION {Appended(kept, new) : kept \in Kept(_thumbs, dir)})
        \cup (UNION {Appended(_thumbs, some) : some \in (SUBSET new) \ {new}})

\* The items that Select leaves selected.
Selection(n, ctrl, shift) ==
  LET between == IF shift /\ _nFocusItem # -1
                   THEN {i \in Indices : i \in n .. _nFocusItem \/ i \in _nFocusItem .. n}
                   ELSE {n}
      hit == {Item(i) : i \in between}
  IN  IF ctrl THEN (selected \ hit) \cup (hit \ selected) ELSE hit

\* Select returns at once for an index that is not in the list.
Select(n, ctrl, shift) ==
  IF n \in Indices
    THEN _nFocusItem' = n /\ selected' = Selection(n, ctrl, shift)
    ELSE UNCHANGED <<_nFocusItem, selected>>

\* DragSelection: the selected items go where item n is; the loop never comes to
\* the place after the last one.
DragSelection(n) ==
  LET rest == Items \ selected
  IN  IF n \in Indices
        THEN \E before \in Kept(SubSeq(_thumbs, 1, n), rest),
                drawn \in Kept(_thumbs, selected),
                after \in Kept(SubSeq(_thumbs, n + 1, Len(_thumbs)), rest) :
               _thumbs' = before \o drawn \o after
        ELSE _thumbs' \in Kept(_thumbs, rest)

Init ==
  /\ dir \in SUBSET Files
  /\ _nSortOrder \in Orders
  /\ _bAssending = TRUE
  /\ _thumbs \in Sorted(SetToSeq(dir), _nSortOrder, TRUE)
  /\ selected = {}
  /\ _nFocusItem = -1
  /\ _dwRefreshFolder = FALSE
  /\ searching = FALSE
  /\ _strNewCreation = None
  /\ _nDragOverItem = -1
  /\ box = None
  /\ ops = 0

SameList == UNCHANGED <<_thumbs, selected, _nFocusItem>>
SameOrder == UNCHANGED <<_nSortOrder, _bAssending>>
SameDisk == UNCHANGED <<dir, _dwRefreshFolder, _strNewCreation>>

Do == ops < MaxOps /\ ops' = ops + 1
Command == box = None /\ Do

\* The waiting thread has the list refreshed, except while the list shows results.
RefreshInOneSecond == _dwRefreshFolder' = (_dwRefreshFolder \/ ~searching)

(***************************************************************************)
(* Commands of the user.                                                   *)
(***************************************************************************)
\* The keys, a click that starts no drag, a name typed.
SelectItem(n, ctrl, shift) ==
  /\ Command
  /\ Select(n, ctrl, shift)
  /\ SameOrder /\ SameDisk
  /\ UNCHANGED <<_thumbs, searching, _nDragOverItem, box>>

\* SelectAll, SelectInverse, SelectImages and SelectTag leave the focus alone.
SelectMany(some) ==
  /\ Command
  /\ selected' = some
  /\ SameOrder /\ SameDisk
  /\ UNCHANGED <<_thumbs, _nFocusItem, searching, _nDragOverItem, box>>

\* Mutant of SetSortOrder: the focus is not read back.
SetSortOrderOnly(order, up) ==
  /\ Command
  /\ _nSortOrder' = order /\ _bAssending' = up
  /\ _thumbs' \in Sorted(_thumbs, order, up)
  /\ SameDisk
  /\ UNCHANGED <<selected, _nFocusItem, searching, _nDragOverItem, box>>

\* FolderState::Sort marks the focused item before and looks for the mark after.
SetSortOrder(order, up) ==
  /\ Command
  /\ _nSortOrder' = order /\ _bAssending' = up
  /\ _thumbs' \in Sorted(_thumbs, order, up)
  /\ _nFocusItem' = IF _nFocusItem = -1 THEN -1 ELSE Find(_thumbs', Item(_nFocusItem))
  /\ SameDisk
  /\ UNCHANGED <<selected, searching, _nDragOverItem, box>>

\* Mutant of OnFolderRefresh: ResetCounters is left out.
OnFolderRefreshOnly(list, focus, chosen) ==
  LET n == Find(list, _strNewCreation)
  IN  /\ IF n = -1
           THEN _nFocusItem' = focus /\ selected' = chosen /\ UNCHANGED _strNewCreation
           ELSE _nFocusItem' = n /\ selected' = {_strNewCreation} /\ _strNewCreation' = None
      /\ UNCHANGED _nDragOverItem

\* OnFolderRefresh of the folder window: a file just created is selected, and
\* ResetCounters forgets the item a drag is over.
OnFolderRefresh(list, focus, chosen) ==
  LET n == Find(list, _strNewCreation)
  IN  /\ IF n = -1
           THEN _nFocusItem' = focus /\ selected' = chosen /\ UNCHANGED _strNewCreation
           ELSE _nFocusItem' = n /\ selected' = {_strNewCreation} /\ _strNewCreation' = None
      /\ _nDragOverItem' = -1

\* RefreshList reads the index of the focused item before it sorts the list.
RefreshList(full) ==
  \E list \in Refreshed :
    /\ _thumbs' \in IF full THEN Sorted(list, _nSortOrder, _bAssending) ELSE {list}
    /\ OnFolderRefresh(_thumbs',
                       IF _nFocusItem = -1 THEN -1 ELSE Find(list, Item(_nFocusItem)),
                       selected \cap ToSet(list))
    /\ _dwRefreshFolder' = FALSE
    /\ searching' = FALSE
    /\ SameOrder /\ UNCHANGED <<dir, box>>

\* F5, and the end of every copy and move.
RefreshFolder == Command /\ RefreshList(TRUE)

\* Mutant of Search: DeleteAllThumbs forgets the focus.
SearchKeepsFocus ==
  /\ Command
  /\ _thumbs' = <<>> /\ selected' = {}
  /\ searching' = TRUE
  /\ SameOrder /\ SameDisk
  /\ UNCHANGED <<_nFocusItem, _nDragOverItem, box>>

Search ==
  /\ Command
  /\ _thumbs' = <<>> /\ selected' = {} /\ _nFocusItem' = -1
  /\ searching' = TRUE
  /\ SameOrder /\ SameDisk
  /\ UNCHANGED <<_nDragOverItem, box>>

\* A new folder or image: the next refresh is to select it.
CreateNew(f) ==
  /\ Command
  /\ f \in Files \ dir
  /\ dir' = dir \cup {f}
  /\ _strNewCreation' = f
  /\ RefreshInOneSecond
  /\ SameList /\ SameOrder
  /\ UNCHANGED <<searching, _nDragOverItem, box>>

Open(b) ==
  /\ Command
  /\ box' = b
  /\ SameOrder /\ SameDisk
  /\ UNCHANGED <<_thumbs, searching, _nDragOverItem>>

\* The dialog for one file; several are renamed through their items.
Rename ==
  /\ Cardinality(selected) = 1
  /\ _nFocusItem # -1
  /\ Open([kind |-> "rename", n |-> _nFocusItem, name |-> Item(_nFocusItem)])
  /\ UNCHANGED <<selected, _nFocusItem>>

\* OnLButtonDown: an item that is not selected is selected before the drag, one
\* that is selected already only after a drag that has come to nothing.
BeginDrag(n, ctrl, shift) ==
  /\ LET was == Item(n) \in selected
     IN  /\ IF was THEN UNCHANGED <<_nFocusItem, selected>> ELSE Select(n, ctrl, shift)
         /\ Open([kind |-> "drag", n |-> n, select |-> was, ctrl |-> ctrl, shift |-> shift])
  /\ selected' # {}

\* GetSelectedFileList: the delete holds names.
Delete ==
  /\ selected # {}
  /\ Open([kind |-> "delete", files |-> selected])
  /\ UNCHANGED <<selected, _nFocusItem>>

(***************************************************************************)
(* In the box.                                                             *)
(***************************************************************************)
In(kind) == box # None /\ box.kind = kind
Answer(kind) == In(kind) /\ UNCHANGED ops

\* The file renamed is that of the item now at the index.  SetNameOf fails when the
\* file has gone.  A result is renamed in its own folder.
RenameOK(f) ==
  /\ Answer("rename")
  /\ box.n \in Indices
  /\ box' = None
  /\ \/ SameList /\ SameDisk
     \/ LET old == Item(box.n)
        IN  /\ old \in dir /\ f \in Files \ (dir \cup Items)
            /\ dir' = (dir \ {old}) \cup {f}
            /\ _thumbs' = [_thumbs EXCEPT ![box.n + 1] = f]
            /\ selected' = IF old \in selected THEN (selected \ {old}) \cup {f} ELSE selected
            /\ RefreshInOneSecond
            /\ UNCHANGED <<_nFocusItem, _strNewCreation>>
  /\ SameOrder /\ UNCHANGED <<searching, _nDragOverItem>>

Cancel ==
  /\ Answer("rename") \/ Answer("delete")
  /\ box' = None
  /\ SameList /\ SameOrder /\ SameDisk
  /\ UNCHANGED <<searching, _nDragOverItem>>

\* The item under the pointer, or none.
DragOver(n) ==
  /\ Answer("drag")
  /\ _nDragOverItem' = n
  /\ SameList /\ SameOrder /\ SameDisk
  /\ UNCHANGED <<searching, box>>

\* The target is the list itself: the selection moves, the focused index stays.
\* A drop changes nothing else.
Drop ==
  /\ Answer("drag")
  /\ _nDragOverItem # -1
  /\ DragSelection(_nDragOverItem)
  /\ _nDragOverItem' = -1
  /\ box' = None
  /\ SameOrder /\ SameDisk
  /\ UNCHANGED <<selected, _nFocusItem, searching>>

\* The drag ends elsewhere, or is cancelled: then the item clicked may still need
\* its selection.
EndDrag ==
  /\ Answer("drag")
  /\ _nDragOverItem' = -1
  /\ box' = None
  /\ \/ UNCHANGED <<selected, _nFocusItem>>
     \/ box.select /\ Select(box.n, box.ctrl, box.shift)
  /\ SameOrder /\ SameDisk
  /\ UNCHANGED <<_thumbs, searching>>

\* OnAfterDelete: the next item after the focused one that is not selected.
EndDelete ==
  /\ Answer("delete")
  /\ dir' = dir \ box.files
  /\ RefreshInOneSecond
  /\ box' = None
  /\ LET next == {i \in Indices : i > _nFocusItem /\ Item(i) \notin selected}
     IN  Select(IF next = {} THEN -1 ELSE CHOOSE i \in next : \A j \in next : i <= j, FALSE, FALSE)
  /\ SameOrder
  /\ UNCHANGED <<_thumbs, searching, _strNewCreation, _nDragOverItem>>

(***************************************************************************)
(* Under the box, or without one.                                          *)
(***************************************************************************)
\* Another program makes or removes a file.
DiskChanges(f) ==
  /\ Do
  /\ dir' = IF f \in dir THEN dir \ {f} ELSE dir \cup {f}
  /\ RefreshInOneSecond
  /\ SameList /\ SameOrder
  /\ UNCHANGED <<searching, _strNewCreation, _nDragOverItem, box>>

OnTimer == _dwRefreshFolder /\ RefreshList(FALSE) /\ UNCHANGED ops

\* The search thread appends a result.
InsertThumb(f) ==
  /\ searching
  /\ UNCHANGED ops
  /\ f \in (dir \cup Results) \ Items
  /\ _thumbs' = Append(_thumbs, f)
  /\ SameOrder /\ SameDisk
  /\ UNCHANGED <<selected, _nFocusItem, searching, _nDragOverItem, box>>

Commands ==
  \/ \E n \in Indices, ctrl, shift \in BOOLEAN : SelectItem(n, ctrl, shift) \/ BeginDrag(n, ctrl, shift)
  \/ \E some \in SUBSET Items : SelectMany(some)
  \/ \E order \in Orders, up \in BOOLEAN : SetSortOrder(order, up)
  \/ \E f \in Files : CreateNew(f)
  \/ RefreshFolder \/ Search \/ Rename \/ Delete

InBox ==
  \/ \E f \in Files : RenameOK(f)
  \/ \E n \in {-1} \cup Indices : DragOver(n)
  \/ Cancel \/ Drop \/ EndDrag \/ EndDelete

Events ==
  \/ \E f \in Files : DiskChanges(f)
  \/ \E f \in Names : InsertThumb(f)
  \/ OnTimer

Next == Commands \/ InBox \/ Events

Spec == Init /\ [][Next]_vars

(***************************************************************************)
(* Properties.                                                             *)
(***************************************************************************)
\* A file that is in the folder does not vanish from the list, whatever is dropped
\* where, and whatever the timer does to the list under the drag.  Only a search
\* empties the list.  (DragSelection drops the selection for good at an index that
\* is not in the list: it relies on ResetCounters.)
NothingVanishes == [][\A f \in Items \cap dir' : f \in ToSet(_thumbs') \/ Search]_vars

Focused(list, n) == IF n = -1 THEN None ELSE list[n + 1]

\* The user, or a file just created, takes the focus.
TakesFocus ==
  \/ \E n \in Indices, ctrl, shift \in BOOLEAN : SelectItem(n, ctrl, shift) \/ BeginDrag(n, ctrl, shift)
  \/ EndDrag \/ EndDelete \/ Search
  \/ _strNewCreation # None /\ _strNewCreation' = None

\* The focus stays on its item as long as that is in the list, however the indices
\* change: when the list is sorted or refreshed by the timer, or results arrive.
\* RefreshFolder, which sorts after it has looked for the item, and a drop may move
\* the focus to a neighbour.
FocusStays ==
  [][LET f == Focused(_thumbs, _nFocusItem)
     IN  f # None /\ f \in ToSet(_thumbs') /\ Focused(_thumbs', _nFocusItem') # f
           => TakesFocus \/ RefreshFolder \/ Drop]_vars

\* ImageWalker.rc: `Rename the currently selected item'.  The item renamed is the
\* one the dialog shows, or at least one that is selected.
RenamesTheItemShown ==
  [][In("rename") /\ _thumbs' # _thumbs /\ box' = None
       => Item(box.n) \in {box.name} \cup selected]_vars
=============================================================================
