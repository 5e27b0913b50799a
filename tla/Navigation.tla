----------------------------- MODULE Navigation -----------------------------
(***************************************************************************)
(* How the user moves between folders: FolderState opens them, and         *)
(* HistoryState and FavouriteState remember them.  Every folder that is    *)
(* opened, by whatever command or by a refresh that finds the folder gone, *)
(* is reported to CMainFrame::OnFolderChanged, which adds it to the        *)
(* history.  Folders come and go on the disk; the root, the desktop,       *)
(* stays.                                                                  *)
(***************************************************************************)
EXTENDS Integers, Sequences, SequencesExt, FiniteSets

CONSTANTS
  Folders,
  Root,        \* the desktop: it can always be opened
  Parent(_),   \* GetParentItem; the root is its own
  MaxHistory,  \* HistoryAdd keeps so many folders
  MaxSize,     \* FavouriteState::MaxSize
  MaxOps       \* bound: commands, and changes of the disk, in a behaviour

ASSUME NavigationAssumption ==
  /\ Root \in Folders
  /\ \A f \in Folders : Parent(f) \in Folders
  /\ MaxHistory \in Nat \ {0, 1}
  /\ MaxSize \in Nat
  /\ MaxOps \in Nat

VARIABLES
  present,        \* the folders that can be opened
  folder,         \* FolderState: the open folder
  m_history,      \* HistoryState
  m_iHistoryPos,  \* counted from 0
  _items,         \* FavouriteState
  ops,
  stray,          \* history: the last move through the history opened nothing
  left            \* history: the folder that was left for the open one, as long as
                  \* the user has not moved through the history since

vars == <<present, folder, m_history, m_iHistoryPos, _items, ops, stray, left>>

Nowhere == <<>>

TypeOK ==
  /\ present \subseteq Folders /\ Root \in present
  /\ folder \in Folders
  /\ m_history \in Seq(Folders) /\ Len(m_history) <= MaxHistory
  /\ m_iHistoryPos \in 0 .. Len(m_history) - 1
  /\ _items \in Seq(Folders)
  /\ ops \in 0 .. MaxOps
  /\ stray \in BOOLEAN
  /\ left \in Folders \cup {Nowhere}

Item(n) == m_history[n + 1]

(***************************************************************************)
(* FavouriteState.                                                         *)
(***************************************************************************)
\* Mutant of Added: the folder is not looked for among the favourites.
AddedAgain(items, f) ==
  Append(IF Len(items) > MaxSize THEN Tail(items) ELSE items, f)

\* The items without the first one that is f.
Without(items, f) ==
  IF \E i \in 1 .. Len(items) : items[i] = f
    THEN RemoveAt(items, CHOOSE i \in 1 .. Len(items) :
                           items[i] = f /\ \A j \in 1 .. i - 1 : items[j] # f)
    ELSE items

\* Add: the folder moves to the end; the oldest goes when more than MaxSize remain.
Added(items, f) ==
  LET others == Without(items, f)
  IN  Append(IF Len(others) > MaxSize THEN Tail(others) ELSE others, f)

\* UseItem: the item used becomes the newest.
Used(items, n) == Append(RemoveAt(items, n), items[n])

(***************************************************************************)
(* HistoryState and FolderState.                                           *)
(***************************************************************************)
\* Mutant of HistoryAdd: the folders ahead are kept.
HistoryAddKeepsAhead(f) ==
  IF Item(m_iHistoryPos) = f
    THEN UNCHANGED <<m_history, m_iHistoryPos, left>>
    ELSE LET longer == Append(m_history, f)
         IN  /\ m_history' = IF Len(longer) > MaxHistory THEN Tail(longer) ELSE longer
             /\ m_iHistoryPos' = Len(m_history') - 1
             /\ left' = IF stray THEN Nowhere ELSE folder

\* HistoryAdd, once the history has folders: those ahead are erased, and the
\* oldest one when there are too many.
HistoryAdd(f) ==
  IF Item(m_iHistoryPos) = f
    THEN UNCHANGED <<m_history, m_iHistoryPos, left>>
    ELSE LET longer == Append(SubSeq(m_history, 1, m_iHistoryPos + 1), f)
         IN  /\ m_history' = IF Len(longer) > MaxHistory THEN Tail(longer) ELSE longer
             /\ m_iHistoryPos' = Len(m_history') - 1
             /\ left' = IF stray THEN Nowhere ELSE folder

\* Mutant of Open: OnFolderChanged is not told.
OpenUnseen(f) ==
  /\ folder' = IF f \in present THEN f ELSE folder
  /\ UNCHANGED <<m_history, m_iHistoryPos, stray, left>>

\* OpenFolder: Init fails for a folder that has gone.  A folder that is open
\* already is opened again.
Open(f) ==
  IF f \in present
    THEN folder' = f /\ HistoryAdd(f) /\ stray' = FALSE
    ELSE UNCHANGED <<folder, m_history, m_iHistoryPos, stray, left>>

Init ==
  /\ present \in {p \in SUBSET Folders : Root \in p}
  /\ folder \in present
  /\ m_history = <<folder>>
  /\ m_iHistoryPos = 0
  /\ _items = <<>>
  /\ ops = 0
  /\ stray = FALSE
  /\ left = Nowhere

Do == ops < MaxOps /\ ops' = ops + 1
NoMove == UNCHANGED <<folder, m_history, m_iHistoryPos, stray, left>>

\* The address bar, the tree, or a folder in the list.
OpenFolder(f) == Do /\ Open(f) /\ UNCHANGED <<present, _items>>

OpenParent == Do /\ folder # Root /\ Open(Parent(folder)) /\ UNCHANGED <<present, _items>>

\* RefreshList finds the folder gone and opens its parent.
RefreshList == Do /\ folder \notin present /\ Open(Parent(folder)) /\ UNCHANGED <<present, _items>>

\* Mutant of OnHistory: the index is not checked against the end of the list.
OnHistoryUnchecked(n) ==
  /\ Do
  /\ m_iHistoryPos + n >= 0
  /\ m_iHistoryPos' = m_iHistoryPos + n
  /\ left' = Nowhere
  /\ UNCHANGED <<present, folder, m_history, _items, stray>>

\* SetHistoryPos moves before the folder is opened: if that fails the position
\* stays on a folder that is not shown.
OnHistory(n) ==
  /\ Do
  /\ m_iHistoryPos + n \in 0 .. Len(m_history) - 1
  /\ m_iHistoryPos' = m_iHistoryPos + n
  /\ LET f == Item(m_iHistoryPos')
     IN  /\ folder' = IF f \in present THEN f ELSE folder
         /\ stray' = (f # folder')
  /\ left' = Nowhere
  /\ UNCHANGED <<present, m_history, _items>>

OnGoTo(n) ==
  /\ Do
  /\ _items' = Used(_items, n)
  /\ Open(_items[n])
  /\ UNCHANGED present

\* OnCopyTo and OnMoveTo use the item and copy files there.
OnCopyTo(n) ==
  /\ Do
  /\ _items' = Used(_items, n)
  /\ NoMove
  /\ UNCHANGED present

\* The user picks a folder, beginning at the newest favourite.
GoToNewLocation(f) ==
  /\ Do
  /\ f \in present
  /\ _items' = Added(_items, f)
  /\ Open(f)
  /\ UNCHANGED present

CopyToNewLocation(f) ==
  /\ Do
  /\ f \in present
  /\ _items' = Added(_items, f)
  /\ NoMove
  /\ UNCHANGED present

GoToAddCurrent ==
  /\ Do
  /\ _items' = Added(_items, folder)
  /\ NoMove
  /\ UNCHANGED present

MoveToClear ==
  /\ Do
  /\ _items' = <<>>
  /\ NoMove
  /\ UNCHANGED present

\* Another program removes a folder or makes one.
DiskChanges(f) ==
  /\ Do
  /\ f # Root
  /\ present' = IF f \in present THEN present \ {f} ELSE present \cup {f}
  /\ NoMove
  /\ UNCHANGED _items

\* Closing writes the favourites and the open folder, and starting reads them:
\* the desktop is opened when the folder is gone.
Restart ==
  /\ Do
  /\ folder' = IF folder \in present THEN folder ELSE Root
  /\ m_history' = <<folder'>>
  /\ m_iHistoryPos' = 0
  /\ stray' = FALSE
  /\ left' = Nowhere
  /\ UNCHANGED <<present, _items>>

Next ==
  \/ \E f \in Folders : OpenFolder(f) \/ GoToNewLocation(f) \/ CopyToNewLocation(f) \/ DiskChanges(f)
  \/ \E n \in -MaxHistory .. MaxHistory : OnHistory(n)
  \/ \E n \in 1 .. Len(_items) : OnGoTo(n) \/ OnCopyTo(n)
  \/ OpenParent \/ RefreshList \/ GoToAddCurrent \/ MoveToClear \/ Restart

Spec == Init /\ [][Next]_vars

(***************************************************************************)
(* Properties.                                                             *)
(***************************************************************************)
\* The history stands at the open folder, unless the last move through it met a
\* folder that has gone.  (Every way to open a folder ends in HistoryAdd, except
\* the moves, which set the position themselves, and before they open anything.)
HistoryShowsFolder == ~stray => Item(m_iHistoryPos) = folder

\* One step back from the open folder is the folder the user left for it, whatever
\* was erased or trimmed.  It is not when that folder was left while the history
\* stood at another one: then the folder left is nowhere in the history.
BackReturns ==
  left # Nowhere /\ ~stray => m_iHistoryPos > 0 /\ Item(m_iHistoryPos - 1) = left

\* No folder is twice among the favourites, and there are MaxSize + 1 at most:
\* Add trims before it appends, UseItem moves an item to the end.
FavouritesDiffer ==
  /\ \A i, j \in 1 .. Len(_items) : _items[i] = _items[j] => i = j
  /\ Len(_items) <= MaxSize + 1

\* HistoryState is a pair of stacks: the list before the position and the list
\* after it.
Buttons ==
  INSTANCE BrowserHistory WITH
    Places <- Folders,
    Remembered <- MaxHistory,
    back <- SubSeq(m_history, 1, m_iHistoryPos),
    here <- Item(m_iHistoryPos),
    forward <- SubSeq(m_history, m_iHistoryPos + 2, Len(m_history))

\* The Back and Forward buttons keep what they promise: each command is a visit, a
\* move or nothing.
ImplementsBrowserHistory == Buttons!Browsing
=============================================================================
