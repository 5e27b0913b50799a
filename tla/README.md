# ImageWalker in TLA+

ImageWalker is a picture browser for Windows: one UI thread, a thread that decodes the picture
the user is waiting for, a thread that makes thumbnails or searches, a thread that waits for the
open folder to change on disk, and a thread that writes the thumbnail cache. They share flags,
mailboxes and lists, many of them without a lock. These modules model that code, TLC checks them
on small instances, and TLAPS proves every safety property that TLC checks for every instance.

Sources are under `src/Source/Main`; file names below are relative to it.

## 1. Inventory

| Part | State | Operations | Interacts with |
|---|---|---|---|
| Picture loader thread, `ImageLoaderThread.h` | one-place mailbox `_pInfo`, auto-reset event, `_bStopLoading`, `_bExit`, the load in hand | `ShowImage`, `SetStopLoading`, `StopThread`, the loop `DecodeAndScale` | called by the viewer state; posts `WM_LOADCOMPLETE` |
| Viewer state, browsing, `ImageState.h`, `State.cpp` | picture and its path, play, stop and slide-show flags, the list of slides | next, previous, home, end, play, pause, stop, answers of the loader, save and move, reload | asks the loader; reads and moves the focus of the folder, which may ask the loader in its turn |
| Viewer state, editing, `ImageState.h`, `Main.cpp` | picture, dirty flag, undo list, the time of its file | edit, undo, save, save as, reload, unload, drop, close, each with its boxes | replaced by answers of the loader; reads and writes the files |
| Folder view, `FolderState.h`, `FolderWindowImpl.h` | the open `Folder`, the search and thumbnail flags, the time of a pending refresh | open, refresh, search, sort, select, the timer | aborts and wakes the two threads below |
| Thumbnail and search thread, `FolderLoadThread.h` | its own `pFolder`, `_bAbort`, `_bPause`, `_searchSpec`, an event | abort, start a search, pause, the loop `Process` | works on the `Folder` it took, writes the thumbnail cache |
| Waiting thread, `FolderLoadThread.h` | a change notification, an event | reset, the loop | makes a refresh due in a second |
| Folder and items, `Folder.cpp`, `Items.h`, `SearchSpec.h` | the list of thumbnails and their flags, focus, selection, counters | refresh, insert, delete, load begin and end, select, sort, reorder | shared by all threads |
| Folder window, `FolderWindowImpl.h`, `FolderWindow.h`, `Commands.h` | the item a drag is over, the item clicked, the item a dialog is about | select, drag, drop, rename, delete, the timer | keeps indices into the list of items |
| Thumbnail cache, `ThumbnailCache.cpp`, `Transactions.h` | map of thumbnails that wait, prepared statements, database, an event | find, queue, take, save in a batch, clear, compact, close | thumbnail thread, UI thread (web pages, options), its own saving thread |
| Favourites and history, `State.h` | two bounded lists, a position | add, use, clear, back, forward, restart | told by the main frame of every folder that is opened |
| Locks, `Core.h`, `ReadWriteLock.h` | critical sections | | everything; nothing uses `ReadWriteLock` |
| Main frame, views, commands | windows, menus | dispatch | everything |
| Loaders, image processing, printing, mail, scanning, shell extensions, `Libraries` | | | |

What makes each part right, and what makes that hard:

* *Loader.* The newest request is answered, in order, once; a superseded load gives way; closing
  ends the worker. Hard: the worker resets its event and clears the stop flag outside the lock.
* *Viewer.* The picture shown is the one last asked for; a pause holds; walks over files that are
  no pictures end. Hard: answers arrive late, and handling one may make another request, or two: items are
  selected by file name, and two files may have the same one.
* *Editing.* A picture with unsaved changes goes only when the user agrees; undo leads back to older
  versions of the picture shown. Hard: every box runs a message loop, in which an answer of the loader or the timer
  may replace the picture or open another box; a save may fail half way and leave half a file.
* *Folder view.* When all is quiet the folder shows its own files, or all that match, each with the
  thumbnail of its present content. Hard: the threads are told to stop but not waited for; the
  thread itself clears the abort flag; results found for an old question arrive late.
* *Folder window.* No file vanishes from the list, and the focus stays on its file. Hard: everything is
  remembered by its index, and the timer refreshes the list under a drag or a dialog.
* *History.* Back returns to the folder that was left. Hard: the position moves before the folder is opened, and
  folders disappear.
* *Cache.* A row holds the picture of its own file and is no older than it says; what is queued is saved;
  the thread that saves ends. Hard: the queue is taken before it is saved, keys read long ago are used for
  updates, statements keep their bindings, any database call may fail, the process may end at any time.

`PROJECT.json` lists the single hazards at their lines.

## 2. Modules

    LoaderThread ---- LoaderRequests ---- LoaderRequestsProof   (theorems)
         |                  `------------ MCLoaderRequests      (TLC)
         `- INSTANCE -- ImageViewer ----- ImageViewerProof      (theorems)
                            `------------ MCImageViewer         (TLC)
    PictureEditing -- PictureEditingProof                       (theorems)
         `--------------------------------- MCPictureEditing    (TLC)
    DecodeThumbs ---- DecodeThumbsProof                         (theorems)
         `--------------------------------- MCDecodeThumbs      (TLC)
    FolderItems ----- FolderItemsProof                          (theorems)
         `--------------------------------- MCFolderItems       (TLC)
    BrowserHistory
         `- INSTANCE -- Navigation ------ NavigationProof       (theorems)
                            `------------ MCNavigation          (TLC)
    ThumbnailCache -- ThumbnailCacheProof -- ThumbnailKeysProof (theorems)
         `--------------------------------- MCThumbnailCache    (TLC)

**LoaderThread** is `ImageLoaderThread`: one action for each call of the UI thread and one for each
statement of `DecodeAndScale` that touches shared state. `pc` is the place in the loop: `test`
(while), `wait`, `reset` and `clear` (lines 137, 138), `pop`, `load`, `delay`, `stamp` (157), `post`
(158), `leave` (the end of the scope that holds `IsLoading`). `ShowImage` is one step: `PopInfo` is
excluded by the lock, and the worker's other steps commute with its statements. A request is a member of
`Loads`; a load may fail or succeed; a delay may end at any time.

**LoaderRequests** numbers the requests and remembers what is needed to say what became of them:
the newest (`asked`), the newest at the user's last stop (`lastStop`), the last one made between
`_bStopLoading = false` and `PopInfo` (`inWindow`) and the newest answered (`answered`).

**ImageViewer** is `ImageState` with the handlers of the main frame that drive it, composed with
the loader by `Loader == INSTANCE LoaderThread`. Handlers of the UI thread are atomic, as Windows
runs them, except the two that ask for a picture twice, as the worker may take the first request
before the second is made: `End` in a folder (`inEnd`), and `OnLoadComplete` when the focus asks (`answering`).
Files are full paths; `FileName` gives the name of each, `Good` are those that decode. `SelectFolderItem`
looks for the name alone (`Find`), so an answer may focus a file of the same name in another folder; the
normal view then asks for that file (`FocusAsks`), because its path is not the picture's, and `LoadNext` runs
after it. `Edit` stands for every tool that calls `SetImageWithHistory`. Saving succeeds or fails freely. `wanted`
is a history variable: the file the newest request asked for, whoever made it, or none when its answer is sure to be
ignored or refused. `overtaken` is another: the places in the message queue that the answers of loads have or will
have that were in progress when the user asked for something else.

**PictureEditing** is the other half of `ImageState`: what is shown, the undo list, and the files. A
handler that opens a box is cut there: `boxes` is the stack of the handlers that wait, each with what it still
remembers, and the answer to the box on top goes on with that. Commands need an empty stack, because a box disables the
main window; answers of the loader and the timer do not, and may push boxes of their own. What the caller
of `Save` or `QuerySave` does afterwards is data (`then`): nothing, the next slide, the next picture of the
property sheet, closing, or showing the answer that came. A picture is a number, and each edit takes the
next one; a file that cannot be decoded holds `NoPicture`. `WriteOK` and `WriteFails` are the
outcomes of `SaveFile`: a failed write leaves the file alone or half written (`Streams.h:686`). `onFile` and `replaced`
are history variables: what the program last read from the file or wrote to it, `NoPicture` once a write of its own has
destroyed it (`Spoilt`), and whether the user has asked for another picture inside a box since the last command. Browsing is reduced to asking for a file and getting its answer; the details are
those of `ImageViewer`.

**DecodeThumbs** is the folder view. An operation of the UI thread is a sequence of steps (`ui`),
one for each shared flag, event or list it changes, because the threads look at them without a lock.
`FolderState`'s lock is held where `Locked` says. The thumbnail thread has a step for each look at a
flag and each change of the list: it takes the folder, clears the abort flag, looks at
`IsSearchMode`, then enumerates, matches and inserts (or, in `LeaveOut`, gives up a directory, its items or the directories in
it when the shell fails), or begins, makes and ends thumbnails, then
waits. `isCurrent` and `old` say whether its `pFolder` is still the open one, and what is in it if not. Opening the
open directory again makes a new folder, as in the code. `missed` is a history variable: the files the round has left out
because of a failure; `NoSpec` are the criteria before the first search.
A thumbnail has the time of its file as the folder knows it (`time`); which version its pixels show is left
out, as no property depends on it. A folder that was searched in may have several thumbnails of one file (`n` tells
them apart); a refresh keeps one of them, which one depends on the order of the list. The waiting thread and the
programs that rewrite files are actions too.

**FolderItems** is the list of a folder with the window that shows it, indices counted from 0 as in the
code. `Sorted` and `Refreshed` are sets: `std::sort` leaves equal items in any order, and an item whose
`Init` fails ends the enumeration and removes nothing. `box` is the handler that waits: a rename dialog with the
index it was opened for, a drag, a delete with the names it will delete. `OnTimer`, `InsertThumb` and `DiskChanges`
happen inside a box as well as outside.

**Navigation** is `HistoryState`, `FavouriteState` and the part of `FolderState` that opens folders; every way to open a
folder ends in `HistoryAdd`, as `OnFolderChanged` does. Folders disappear and come back on the disk. `stray` and
`left` are history variables: whether the last move through the history opened nothing, and the folder that was
left for the open one. **BrowserHistory** is what the two buttons promise: a stack of places behind, one of places
ahead. `Navigation` implements it with `back` the list before the position, `here` the item at it and `forward`
the list after it.

**ThumbnailCache** is the cache with the two threads that load through it and the one that saves.
A load (`FolderItemLoader::LoadImage`) has the steps `find`, `decode`, `queue`, `done`; `load[c].item` is
its `FolderItem`, with the write time of the listing and the key of the row that `Find` has seen. The
saving thread's `pc` is the place in `Process` and `ProcessItems`: `test`, `wait`, `take`, `begin`, `save`.
Everything under `ThumbnailCache._cs` is one step, and so the threads interleave between BEGIN, each
`UpdateThumbInCache` and COMMIT. A command of the UI thread (clear, compact, a new size, closing) is a
sequence of such steps (`ui`). SQLite is external: `view` is the database as the one connection sees it,
`stored` what a new process would find; a failing call leaves the transaction open or rolls it
back, closing and crashing roll back, and `seq` is the counter of AUTOINCREMENT. The program starts, is
closed, or crashes, and starts again on what is stored. `_pThumbTransaction` remembers the image bound
last to each statement, and becomes `dangling` when the destructor of a failed statement throws; each
later use of it throws or does nothing. A picture is the time of the last write it shows, and its size.

## 3. Runs

| Run | Instance | Shows |
|---|---|---|
| `loader_requests` | 3 requests, each a picture or a held slide | all loader properties, 90 thousand states |
| `viewer` | folders `<<a,b>>`, `<<a>>`, `<<a,c>>`, `<<c,d>>` and the empty one, `c` and `d` decode and have the same name, 3 operations | safety of the viewer, 1.9 million states |
| `viewer_progress` | the same, 2 operations, 68 thousand states | `Settles` and `UsesTheLoader` |
| `thumbs` | directory p with `a`, and q below it with `b`; two searches, one for everything, one for `a`; 3 operations, one rewrite | safety of the folder view, 3.5 million states |
| `thumbs_progress` | the same, 2 operations, no rewrite | `ThumbsArrive`, `CloseEndsTheThread` |
| `thumbnail_cache` | 2 files, one rewrite of each, woken at 2 thumbnails, 4 operations, one failing call | safety of the cache, 1.7 million states |
| `cache_progress` | 1 file, 3 operations, one failing call | `QueuedIsTaken`, `CloseEndsTheSaving` |
| `picture_edit` | 2 files, undo limit 1, boxes 2 deep, 1 answer, 5 pictures, 4 commands | safety of editing and saving, 2.6 million states |
| `exit_prompt` | the same, boxes 1 deep, 5 commands | violated: see 6 |
| `navigation` | root, `a`, `c`, and `b` in `a`; history of 4, favourites limit 2, 7 operations | history and favourites, and that `BrowserHistory` is implemented, 600 thousand states |
| `folder_items` | 3 files, 1 search result, 2 orders with one tie, 3 operations | the list and its indices, 350 thousand states |
| `stale_rename` | the same | violated: see 6 |

*Bounds.* Three requests let one be in the mailbox, one in the worker's hands and one
answered and still in the queue, and let a newer one replace each of these; the mailbox holds one, so a
fourth only repeats this. Two files are the shortest list in which stepping past an end differs
from standing still, one undecodable file the shortest folder in which a walk from a longer one loses its start, two
files of one name are needed for the focus to go to the wrong one, and three operations let the user interrupt an
interrupted answer. A slide show that has lost its start needs four (Step, Play, OpenFolder, Play): `Lost` excepts it
after reading the code, not because the run meets it. For the folder
view the interesting cases need an operation under way, one that overtakes it, and one more that finds
what is left; two directories are needed to have a folder that is not the thread's, a file below the
directory to have a result that is not one of its files. One rewrite is enough, as a second
only repeats the comparison of times. In the cache two files are needed for one to take the other's row
or picture; the four operations are loads, rewrites, commands, crashes and quits in any order, so that a row is
made, the cache cleared or the program restarted, and the key used again; the files are
interchangeable (symmetry, in the safety run only). `MaxQueue`, which is 64 in the code, is 1: more than one
thumbnail wakes the thread. Editing needs two files, one to be shown over the other; the undo limit is 1
instead of 10, so that the third edit trims the list; two boxes let one be opened over another; five pictures are
the two of the files and three edits or writes of others. The proofs cover all the other sizes. Seven
operations fill a history of 4, trim it, move in it and leave it, with a folder that disappears meanwhile; three
operations on a list are a search, drag, sort or dialog, a change of the disk under it, and one more. Timers, answers and
results do not count. `MaxAsks`, `MaxOps`, `MaxWrites`, `MaxFails`, `MaxDepth`, `MaxAnswers` and
`MaxPictures` are the only bounds; all but `MaxWrites`, `MaxFails` and the last three count calls of the user.
Symmetry is used in the safety runs of the cache and of editing.

Deadlock is not checked: all these systems may stop, when the user does nothing or has closed the
application, and a program that has used up its operations stays closed.

*Fairness.* The worker threads are weakly fair: they run at a low priority, but Windows boosts
starved threads, and every wait of theirs except the one for events has a time limit. The UI thread finishes
what it has begun and goes on dispatching messages. The user and other programs are not fair: nothing obliges them
to act. In `DecodeThumbs` a paused thread may stay paused (`CommandViewPause`, `Commands.h:1218`), and `ThumbsArrive` is about the
one that does not. For the same reason `SyncCache` is not fair in `ThumbnailCache`, nor are the user and the loads of the UI
thread there, and a program that is down need not be started. `PictureEditing`, `FolderItems` and `Navigation` state no
fairness: everything in them waits for the user.

## 4. Properties

*Loader.* `NoLostWakeup`, `InOrder`, `SupersededIsStopped`, `StoppedHasCause`, `NewestIsAnswered`,
`CloseEndsTheWorker`. `StoppedHasCause` is as strong as the code allows: it names the window of
lines 138 to 140 in which a request marks itself as stopped and is then never shown.

*Viewer.* `LastRequestWins` (at rest the picture shown is the one last asked for, by the user, by `LoadNext` or
by a focus that an answer has moved), `OvertakenIsIgnored` (a load in progress when the user asks for something else changes
nothing any more, neither the picture nor the newer request), `PauseHolds` (after
a pause no late answer changes anything), `Settles` (walks end, unless they have lost their start), `UsesTheLoader`
(the viewer's steps are steps of the loader's specification, so that what is shown of
`LoaderThread` holds of the composition as far as its actions are concerned).

*Editing.* `AskedBeforeLost` (a picture with unsaved changes, or the version made of it in the same step, stays in
memory or on the disk unless the user's command or answer gives it up), `PictureStays` (under an editor or the undo
box the picture and its undo list stay), `UndoChain` (versions get older and are few), `HidesChanges` (the program comes to
take a picture for saved that is not what its file holds only by Undo, or by a failed save of a picture without changes).

*Folder view.* At rest, that is when the UI thread is idle and the thumbnail thread waits with
its event reset: `EveryThumbIsLoaded` and `SearchIsComplete` (all that matches is there, except what this very search
left out at an item or directory the shell failed to read). Always: `ShowsItsFiles`, a folder that was not
searched in shows its files once each, though the thread may still be inserting results in
the one left behind. `ThumbsArrive` and `CloseEndsTheThread` under fairness.

*Folder window.* `NothingVanishes` (a file of the folder leaves the list only by a search), `FocusStays` (the focus stays
on its file, whatever becomes of the indices, except in F5 and a drop).

*History.* `HistoryShowsFolder`, `BackReturns`, `FavouritesDiffer`, and
`ImplementsBrowserHistory`, the refinement.

*Cache.* `RowsAreTrue` and `FoundIsNotOlder` (no row, found or stored, is older than it says or shows
another file's picture), `QueuedIsRemembered` (the auto-reset event loses no wake-up),
`UpdateKeepsTheFile` (no key read earlier overwrites the row of another file, also after a clear or a
restart, as long as no call fails), `SavedUnlessDisturbed` (what is taken from the queue gets its row and
is stored, also while closing), `QueuedIsTaken` (what was queued is taken, unless the thumbnail thread stays with its folder
for ever, as a paused one may), `CloseEndsTheSaving`. Not promised, because not so: that the
thumbnail found in the queue is of the present file, that a file has one row, that a size changed is
a size kept.

Each property of a passing run has a mutant of the code that breaks it: operators marked
`Mutant of` in the modules.

## 5. Proofs

`LoaderRequestsProof` proves for every set of requests and every bound `MaxAsks`:
`TypeCorrect`, `WakeupIsNeverLost`, `AnswersInOrder`, `SupersededLoadIsStopped` and `StopHasCause`, the
five safety properties of `loader_requests`. They assume what `LoadsAssumption`, `MaxAsksAssumption` and
`NumberedLoads` say of the constants.

They follow from one inductive invariant, `IInv`, proved from `Init`, for each action and for
stuttering. Its parts are the five properties themselves and two facts about the stop flag.
`AnswersInOrder` rests on the types and on the numbers of the answers, the job in hand and the mailbox
lying above one another; `SupersededLoadIsStopped` rests on that order. `StoppedHasCause` is not
inductive: the flag is copied into the load only at `stamp`, so the invariant must explain the flag before.
`FlagHasCause` says that a flag the load in hand would see has one of the three causes, and `FlagInWindow` that
a flag set between `ClearStop` and `PopInfo` was raised there by the newest request or by the user.
One step per action, with a case for each part the action can disturb.

`ThumbnailCacheProof` proves for every set of files and every bound, from `CacheAssumption` alone:
`CacheTypeCorrect`, `RowsStayTrue`, `FoundIsFresh` and `NothingQueuedIsForgotten`. None of these is
inductive. `RowsStayTrue` needs that the items in the queue and in the batch are true to their files, which
needs that a load about to be queued holds a picture decoded after the listing (`LoadOK`: the write
time of an item is never later than that of its file). As every queued item has an image, what is still
bound to a statement is never used; that is how the mutant that queues empty images breaks it.
`NothingQueuedIsForgotten` needs that the decoding thread is `busy` while one of its loads is under way.
The lemmas `LoadStep`, `QueueStep`, `DataStep` and `RestStep` each keep one part of `IInv`, with the others as
hypotheses; `NextCases` lists the actions once for all four.

`ThumbnailKeysProof` goes on from there and proves `UpdatesKeepTheFile` and `BatchesAreSaved`, which say what becomes of
a key that an item has carried from the database, through the queue, to a batch saved much later. Both need an invariant
about all carried keys (`Carried`: those of the loads, the queue and the batch). While no call has failed a carried key lies within the
counter of AUTOINCREMENT and names one file, in the database as the connection sees it (`CarriedOK`), and keys name one
file across the two databases (`KeysOK`), as closing or a crash puts the stored one in the place of the other. The
statements are those of the open database (`StatementsOK`), so nothing is saved once it is closed, when `CarriedOK` no
longer holds; and a program that is not running carries nothing (`DownOK`), so nothing outlives a restart. As long as
nothing is cleared, the row of each carried key is there and a batch has its transaction (`BatchOK`). `CarriedStep` says once where a
key can come from, and `DataCases` what may happen to the rows; the rest is about rows and numbers only.

`NavigationProof` proves for every tree of folders and every limit, from `NavigationAssumption` (a history of two at
least): `TypesHold`, `HistoryFollows`, `BackLeadsBack`, `FavouritesStayDistinct` and `HistoryIsTwoStacks`.
The invariant is the conjunction of the properties with one more part: after a move that opened nothing there is
no folder to go back to (`StrayForgets`), without which the next `HistoryAdd` would break `BackReturns`. Lemmas say what
trimming, erasing and appending leave of a list. The refinement shows that the first state is a
`Start`, and each action a `Visit`, `GoBack`, `GoForward`, `Restart` or a stutter of `BrowserHistory`; its hard case is
`HistoryAdd`, which erases, appends and trims in one step.

`PictureEditingProof` proves for every set of files, every undo limit and every depth of boxes, from
`EditingAssumption`: `TypesHold`, `UndoGoesBack`, `PictureStaysUnderEditor`, `NothingLostUnasked` and `ChangesStayKnown`. None
of the five properties is inductive. `UndoOK` puts back an entry of the list as it was when the box was opened,
so the invariant says what the present list has to do with that one: it is the same, or has been emptied because
the picture of a file was shown (`Fits`). `PictureStays` needs that the loader is stopped and only boxes of
the timer lie over an editor (`Stays`). That `Save` of a picture with a plug-in has a file to write to needs that a
picture without a file has no plug-in, and neither have its versions (`KeyOK`). The lemmas of the section
on saving (`ResumeOK`, `WriteOKSettles` to `CanDisplaySettles`) are about any caller, picture and stack of boxes, and say
both what the step leaves behind (`Settled`) and that the picture is kept (`Keeps`); each action cites the one
it calls. `HidesChanges` needs that every save leaves the picture `Known`: it is either as it was, dirty, saved, or the failed
save of a picture without changes.

`ImageViewerProof` proves for all folders and files and every bound, from `ViewerAssumption` and `NoLoadAssumption`:
`TypesHold`, `LastRequestIsShown`, `OvertakenLoadsAreIgnored`, `PauseIsKept` and `ViewerUsesTheLoader`. `LastRequestWins` speaks of the state of rest only; the
invariant says where the newest request is before (`NewestIsSomewhere`): in the mailbox, else in the worker's job,
else it is answered by the last message, else its picture is shown. A request can be lost on the way only where `wanted` gives it up: by a
stop, by a `Stamp` that has seen the flag, by a refusal. That a load of a good file which ends without a picture will be
stamped as stopped is part of it (`JobIsWanted`), and so is that after a pause nothing is wanted (`StoppedWantsNothing`),
without which `Play` over no files would bring an old request back to life; `PauseHolds` needs the same part, as a `Stamp` may
come after the pause. A load that was overtaken still has the stop flag over it or the stop in its answer (`OvertakenIsStopped`),
because the worker clears the flag only in its next round. A handler that has made one of two
requests runs in an application that is not closed, and an `OnLoadComplete` in one that is not paused (`HandlerRuns`). Every
handler is reduced to one of four effects on the mailbox (`Requests`), to one of the four answers (`Answered`) or to the rest of a
handler (`ContinueStep`); from these follow the invariant and that each step is a step of `LoaderThread` or leaves it alone,
whose types and `NoLostWakeup` are then kept for any user of it. What `Find` returns is proved for every list and every way to
name files (`FindFacts`), so nothing rests on names being different.

`FolderItemsProof` proves for all files and search results, every ranking of them and every bound, from
`ItemsAssumption` (finitely many names; a result is not a file of the folder): `TypesHold`, `ItemsAreKept` and
`FocusIsKept`. A list is a sequence without repetitions, so what sorting, refreshing and dragging do is said of its set
of items: each makes an arrangement of the items it keeps (`ArrangementFacts`, `KeptFacts`), and putting
disjoint arrangements together repeats nothing (`JoinFacts`). The invariant adds to the types that only a drag has
an item under it (`DragOnly`): the timer's refresh lets a drag forget that item, and with the types this is why
`DragSelection` never gets an index past the end and always puts the selection back. `FocusIsKept` needs that an index found by
`Find` holds what was looked for, that results are appended and a renamed item stays in its place.

`DecodeThumbsProof` proves for all files, directories and searches and every bound, from `ThumbsAssumption` (finitely many
files; the files of a directory are among those of its tree; at least one time of writing): `TypesHold`, `ThumbsAreLoaded`,
`SearchesAreComplete` and `FilesAreShown`. The two properties at rest say nothing until the thread has gone through a
round, so the invariant says what a round has got done (`RoundOK`): if nobody has asked the thread for anything since it last woke up
(`Quiet`: no step of the UI thread left, no event set), then its folder is the open one, its abort flag is clear once it has been cleared,
the mode it chose still holds, and every file the search wants is still to be enumerated, in its hand, in the
folder, or left out by this round because of a failure (`missed`). This is inductive because every operation of the UI thread that changes the folder, the mode, the criteria or the
abort flag ends with setting the event, or with closing; that is what `UIFacts` gets from the list of what the UI thread may have
left to do (`Plans`). An abort that `_bAbort = false` forgets is harmless for the same reason. `EveryThumbIsLoaded` needs also
`LoadingOK`: a thumbnail marked as loading is the one in the thread's hand, in whichever folder it is, so `GetNextThumbToLoad`
passes over none that nobody loads. `ShowsItsFiles` needs `SearchOK`: results are inserted in the open folder only after
`DeleteAllThumbs` has marked it as searched, and search mode is left before a folder replaces it; and `FilesOK`, which says
of each file that its thumbnails are one and the same (`Cardinality` comes in only at the end). Closing is in `ExitOK`: `_bExit` or the end of
the thread means that the exit event was set. `StepCases` leaves four kinds of steps to consider for the parts about
the data; `ChangedFacts` says once that changing thumbnails in place keeps one for each file.

Not proved, only model-checked: liveness (`NewestIsAnswered`, `CloseEndsTheWorker`, `Settles`, `ThumbsArrive`,
`CloseEndsTheThread`, `QueuedIsTaken`, `CloseEndsTheSaving`). It needs fairness and ENABLED, out of the reach of the proof system
used here. Every invariant and action property of the passing runs is the statement of a theorem.

## 6. Where the code does not do what is said of it

* `ExitPrompts` - the menu says of Exit that it "prompts to save documents" (`ImageWalker.rc:2714`). Undo restores the
  dirty flag from before the edit (`ImageState.h:837`); after edit, save, undo the picture shown is not what
  its file holds, and the program closes without asking.
* `RenamesTheItemShown` - "Rename the currently selected item" (`ImageWalker.rc:2558`): the dialog keeps the
  index (`Commands.h:870`), the timer refreshes the list under it, and another file is renamed.

Met while reading and modelled, or left as a remark. Against a sentence of the repository:

* With "Repeat images" off a slide show over files that are no pictures never ends: `ImageState.h:410` goes
  on when the last file was not loaded, whatever the play flag says.
* "To cancel a search and stop displaying search results click refresh" (`src/Help/Search.html:27`): a
  result in the thread's hands is inserted after the refresh.
* `Folder.cpp:1255` strips the loaded flag of a file that has changed, "so we can reload it": a load under
  way sets it again with the old pixels.
* `WaitForIdle` of the test driver (`MainTestDriver.h:101`) waits for `IsSearching` to fall; a search aborted before the
  thread has looked at it leaves the flag set.
* "Changing the thumbnail size will cause the thumbnail cache to be reset" (`ImageWalker.rc:3103`):
  `ViewOptions.cpp:182` deletes the rows, but not the thumbnails that wait to be saved; they are inserted
  afterwards in the old size, and found from then on.
* `FolderState::OpenFolder` says "Dont set if currently is the same address"; the flag it tests never falls, so the open
  folder is opened again each time.

With no sentence against them:

* Viewer. A walk that began at an index the folder no longer has, as a shorter one has been opened meanwhile, never comes back
  to where it began: in a folder of files that are no pictures it asks for one after the other for ever, since opening a folder
  does not stop the load in progress (`Step` in `<<a,b>>`, then `OpenFolder(<<a>>)`). In a slide show the same loses the
  end of the round. `Settles` excepts both (`Lost`).
* Viewer. A picture that arrives selects its item by name: when the open folder has another file of that name, that file gets the
  focus, is asked for, and is shown in the end though nobody asked for it, also over a picture the user has asked for since. The
  same happens between two files of one name in the results of a search. An answer already stamped or queued when the user asks
  for something else may replace the user's picture, and its `LoadNext` the user's request.
* Viewer. `Home` makes the last slide the current one and loads nothing, and `End` the first and then steps
  back over the end; a refused save, a folder replaced or a lost request leaves the play flag set with nothing
  loading; a picture loaded by save-and-move is replaced by the answer of an older request.
* Editing. Unloading, and a picture dropped on the window, ask nothing about unsaved changes. Save-as keeps the plug-in of
  the picture: the next save writes the old format under the new name. Reloading a changed picture and answering
  Yes, or with auto-save on, first overwrites what the other program wrote and then shows it from before the
  save. When one answer is handled inside the box of another, the older picture is shown last. A write that fails
  may destroy the file; a picture that had no unsaved changes then goes on counting as saved (`ImageState.h:909`), though it is
  in memory only, and is given up without a question. The picture written after the boxes of a save is the one shown by then, under the name of
  the one the save was asked for. An undo box whose list was emptied meanwhile uses a freed entry.
  The time of the file is taken when the picture is shown, not when it is decoded: a write in between is not noticed.
* History. Back to a folder that has gone leaves the position there, and the folder left is nowhere in the
  history any more.
* Folder window. F5 looks for the focused item before it sorts, and moves the focus; the keys for "Modified" and "Created" are
  exchanged; `IsItemDropTarget` is inverted, so that a drag hardly ever reorders; a drop leaves the focus index;
  after a drag that came to nothing the item at the old index is selected; after a delete the first item may be
  selected; a control-click may leave the focus on an item that is not selected, which Rename then renames; a new
  item whose `Init` fails ends a refresh that reports success and keeps items that have gone.
* Folder view. A search gives up a directory, with those below it, at the first item whose `Init` fails
  (`FolderLoadThread.h:286`), and passes over directories it cannot bind or enumerate; nothing tells the user that the search is
  incomplete. The timer's refresh ends a search started within the second; the waiting thread closes its
  notification and asks for a new one (`FolderLoadThread.h:54`), so a change in between is not seen.
* Cache. A thumbnail that waits to be saved is found for its file whenever that was written
  (`ThumbnailCache.cpp:239`); a file loaded again while its first thumbnail is in the saving thread's hands gets two
  rows; web pages queue theirs through the same map; a program that dies between `sqlite3_open` and `CreateDatabase`
  never has a cache again; a COMMIT that fails and leaves its transaction open makes every later BEGIN fail, and the
  thumbnails taken for it are lost.

## 7. Not modelled

* Decoding, scaling, rendering, file formats: numeric code, a nondeterministic outcome in the models.
* Shuffling and recursion into sub folders in the list of slides; the pinned folder window; renaming several
  files at once; tags and counters; layout and scrolling.
* In `PictureEditing` only the box opened last is answered: under the box of `OnFolderRefresh`, whose owner is the main
  frame, the property sheet stays enabled in the code and may go on first. The message box of a file name that cannot be
  checked in `Save` (`ImageState.h:883`) changes nothing and is left out.
* In `ThumbnailCache` no load begins once the exit event is set; in the code one may, and end unsaved.
* The dialogs of `ImageViewer`'s handlers, which `PictureEditing` has, and the slide show of `PictureEditing`, which
  `ImageViewer` has: the two are one object in the code and are not composed, as their product is out of
  TLC's reach.
* In `DecodeThumbs` the order, selection and focus of the list, directories that are removed and files made or
  deleted (`FolderItems` and `Navigation` have them without the thread); a refresh that an `Init` ends half way; the `*.iw` cache file; a search of My Pictures.
* The bytes of the database; hashes of file names that collide (`Find` compares the names); what
  becomes of the memory after the use of a statement that was freed.
* Words torn by unlocked writes: each flag and the search criteria change in one step.
* Time: a delay, a second or the 20 s of `StopThread` may pass at any moment.
* Windows, menus, registry, printing, mail, scanning, shell extensions and vendored libraries.

* `ReadWriteLock.h`: nothing in the program uses it.

## 8. Plan

Done: the loader and the viewer, the folder view, the cache, editing, the list of items, favourites and history,
and the proofs of their safety properties.
Left, in this order:

1. An abstract map from file to thumbnails that `ThumbnailCache` implements while no call fails.
2. `DecodeThumbs`: directories that disappear, files made and deleted.
3. The list of slides with shuffling and sub folders (`GetItemList`, `AddItem`).
