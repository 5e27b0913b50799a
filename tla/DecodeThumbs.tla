---------------------------- MODULE DecodeThumbs ----------------------------
(***************************************************************************)
(* The folder view: FolderState and its Folder on the UI thread, the       *)
(* DecodeThumbsThread that loads the thumbnails of the folder or fills it  *)
(* with search results, and the thread that waits for the folder to change *)
(* on disk.                                                                *)
(*                                                                         *)
(* An operation of the UI thread is a sequence of steps, because the       *)
(* threads share their flags without a lock.  A thumbnail is a record, and *)
(* which version of its file its pixels show is left out.                  *)
(*                                                                         *)
(* Files are rewritten, not made or removed; the order of a folder, its    *)
(* selection and its *.iw files are left out.                              *)
(***************************************************************************)
EXTENDS Naturals, Sequences, FiniteSets, FiniteSetsExt

CONSTANTS
  Files,       \* files, wherever they are
  Dirs,        \* directories the user may open
  Listing,     \* Listing[d]: the files of directory d
  Tree,        \* Tree[d]: those files and the ones below d
  Specs,       \* what may be searched for
  NoSpec,      \* the criteria before the first search
  Matching,    \* Matching[s]: the files that match s
  MaxWrites,   \* bound: the time of the last write; the files are from time 1
  MaxOps       \* bound: operations of the user in a behaviour

ASSUME ThumbsAssumption ==
  /\ IsFiniteSet(Files)
  /\ Listing \in [Dirs -> SUBSET Files]
  /\ Tree \in [Dirs -> SUBSET Files]
  /\ \A d \in Dirs : Listing[d] \subseteq Tree[d]
  /\ Matching \in [Specs \cup {NoSpec} -> SUBSET Files]
  /\ MaxWrites \in Nat \ {0}
  /\ MaxOps \in Nat

VARIABLES
  disk,           \* the time each file was last written
  folder,         \* FolderState._pFolder: its directory and its thumbnails
  searched,       \* history: that Folder object has been searched in
  IsSearchMode, IsSearching, IsThumbnailing,
  refreshDue,     \* _dwRefreshFolder holds a time
  _searchSpec,
  _bAbort, _bPause, _bExit, _eventExit,
  _eventFolderChange,   \* of the thumbnail thread
  ui,             \* the steps the UI thread has yet to do in its operation
  pc,             \* where the thumbnail thread is in Process
  isCurrent,      \* its pFolder is still FolderState._pFolder
  old,            \* the thumbnails of its pFolder, once that has been replaced
  todo,           \* the files DecodeFolder has not enumerated yet
  found,          \* the file it has in hand
  missed,         \* history: files it has left out in this round because of a failure
  job,            \* the thumbnail being loaded
  watched,        \* the directory the change notification is for, or none
  changed,        \* that notification is signalled
  _eventWatch,    \* _eventFolderChange of the waiting thread
  ops             \* operations of the user so far

place  == <<folder, searched, isCurrent, old, job>>
modes  == <<IsSearchMode, IsSearching, IsThumbnailing>>
asks   == <<refreshDue, _searchSpec>>
events == <<_eventFolderChange, _eventWatch>>
ends   == <<_bPause, _bExit, _eventExit>>
scan   == <<pc, todo, found, missed>>
notice == <<watched, changed>>
vars   == <<disk, place, modes, asks, _bAbort, events, ends, ui, scan, notice, ops>>

NoDir == "none"
NoFile == "none"
NotFound == [file |-> NoFile, time |-> 0]
Versions == 0 .. MaxWrites

\* n tells thumbnails of the same file apart.
Thumbs == [file : Files, n : Nat, time : Versions, loaded : BOOLEAN, loading : BOOLEAN]

NewThumb(f, n) ==
  [file |-> f, n |-> n, time |-> disk[f], loaded |-> FALSE, loading |-> FALSE]

OfFile(f, thumbs) == {t \in thumbs : t.file = f}
Serial(f, thumbs) == CHOOSE n \in 0 .. Cardinality(OfFile(f, thumbs)) :
                       \A t \in OfFile(f, thumbs) : t.n # n

\* Folder::Refresh: one thumbnail is kept for each file of the directory, and loses
\* its loaded flag if the file has changed; the others go.  Which of several for one
\* file is kept depends on the order of the list.
OnePerFile(kept, thumbs) == \A t \in thumbs : \E u \in kept : OfFile(t.file, kept) = {u}

Compared(t) == [t EXCEPT !.time = disk[t.file], !.loaded = t.loaded /\ t.time = disk[t.file]]

RefreshedThumb(f, kept) ==
  IF OfFile(f, kept) = {} THEN NewThumb(f, 0) ELSE Compared(CHOOSE t \in OfFile(f, kept) : TRUE)

Refreshed(dir, kept) == {RefreshedThumb(f, kept) : f \in Listing[dir]}

NoJob == [file |-> NoFile, n |-> 0, live |-> FALSE]

\* The thumbnail being loaded may leave the folder.
SetThumbs(thumbs) ==
  /\ folder' = [folder EXCEPT !.thumbs = thumbs]
  /\ job' = IF isCurrent /\ ~\E t \in thumbs : t.file = job.file /\ t.n = job.n
              THEN [job EXCEPT !.live = FALSE]
              ELSE job

Init ==
  /\ disk = [f \in Files |-> 1]
  /\ \E d \in Dirs : folder = [dir |-> d, thumbs |-> {NewThumb(f, 0) : f \in Listing[d]}]
  /\ searched = FALSE
  /\ IsSearchMode = FALSE
  /\ IsSearching = FALSE
  /\ IsThumbnailing = FALSE
  /\ refreshDue = FALSE
  /\ _searchSpec = NoSpec
  /\ _bAbort = FALSE
  /\ _bPause = FALSE
  /\ _bExit = FALSE
  /\ _eventExit = FALSE
  /\ _eventFolderChange = TRUE
  /\ ui = <<>>
  /\ pc = "top"
  /\ isCurrent = FALSE
  /\ old = {}
  /\ todo = {}
  /\ found = NotFound
  /\ missed = {}
  /\ job = NoJob
  /\ watched = NoDir
  /\ changed = FALSE
  /\ _eventWatch = TRUE
  /\ ops = 0

(***************************************************************************)
(* The UI thread.                                                          *)
(***************************************************************************)
Do(step) == ui # <<>> /\ Head(ui) = step /\ ui' = Tail(ui)

UserTurn(steps) ==
  /\ ui = <<>>
  /\ ~_eventExit
  /\ ops < MaxOps
  /\ ui' = steps
  /\ ops' = ops + 1

\* FolderState holds its lock while it aborts the thread and for all of Search.
Locked == ui # <<>> /\ Head(ui) \in {"leave", "delete", "mode", "searching", "start"}

\* Every operation first aborts the thread: it begins with that assignment.
Begin(steps) ==
  /\ UserTurn(steps)
  /\ _bAbort' = TRUE
  /\ UNCHANGED <<place, modes, asks, events, ends>>

BeginSearch == Begin(<<"leave", "delete", "mode", "searching", "start">>)
BeginOpenFolder == Begin(<<"leave", "set", "reset">>)
RefreshFolder == Begin(<<"leave", "abort", "leave", "undue", "refresh", "strip", "reset">>)

\* A second after the folder has changed.
OnTimer ==
  /\ ui = <<>>
  /\ ~_eventExit
  /\ refreshDue
  /\ ui' = <<"abort", "leave", "undue", "refresh", "reset">>
  /\ UNCHANGED <<place, modes, asks, _bAbort, events, ends, ops>>

\* DecodeThumbsThread::Abort
Abort ==
  /\ Do("abort")
  /\ _bAbort' = TRUE
  /\ UNCHANGED <<place, modes, asks, events, ends, ops>>

LeaveSearchMode ==
  /\ Do("leave")
  /\ IsSearchMode' = FALSE
  /\ UNCHANGED <<place, IsSearching, IsThumbnailing, asks, _bAbort, events, ends, ops>>

DeleteAllThumbs ==
  /\ Do("delete")
  /\ SetThumbs({})
  /\ searched' = TRUE
  /\ UNCHANGED <<isCurrent, old, modes, asks, _bAbort, events, ends, ops>>

\* DecodeThumbsThread::StartSearch, an assignment at a time.
SetSearchMode ==
  /\ Do("mode")
  /\ IsSearchMode' = TRUE
  /\ UNCHANGED <<place, IsSearching, IsThumbnailing, asks, _bAbort, events, ends, ops>>

SetSearching ==
  /\ Do("searching")
  /\ IsSearching' = TRUE
  /\ UNCHANGED <<place, IsSearchMode, IsThumbnailing, asks, _bAbort, events, ends, ops>>

\* Mutant of StartSearch: the thread is not woken.
StartSearchNoEvent ==
  /\ Do("start")
  /\ _searchSpec' \in Specs
  /\ UNCHANGED <<place, modes, refreshDue, _bAbort, events, ends, ops>>

StartSearch ==
  /\ Do("start")
  /\ _searchSpec' \in Specs
  /\ _eventFolderChange' = TRUE
  /\ UNCHANGED <<place, modes, refreshDue, _bAbort, _eventWatch, ends, ops>>

\* A directory, perhaps the one that is open: the new Folder is filled, then it
\* replaces the old one.
SetFolder ==
  /\ Do("set")
  /\ \E d \in Dirs :
       folder' = [dir |-> d, thumbs |-> {NewThumb(f, 0) : f \in Listing[d]}]
  /\ searched' = FALSE
  /\ old' = IF isCurrent THEN folder.thumbs ELSE old
  /\ isCurrent' = FALSE
  /\ UNCHANGED <<job, modes, asks, _bAbort, events, ends, ops>>

SetRefreshFolder ==
  /\ Do("undue")
  /\ refreshDue' = FALSE
  /\ UNCHANGED <<place, modes, _searchSpec, _bAbort, events, ends, ops>>

Refresh ==
  /\ Do("refresh")
  /\ \E kept \in SUBSET folder.thumbs :
       /\ OnePerFile(kept, folder.thumbs)
       /\ SetThumbs(Refreshed(folder.dir, kept))
  /\ UNCHANGED <<searched, isCurrent, old, modes, asks, _bAbort, events, ends, ops>>

ResetLoadedFlag ==
  /\ Do("strip")
  /\ SetThumbs({[t EXCEPT !.loaded = FALSE] : t \in folder.thumbs})
  /\ UNCHANGED <<searched, isCurrent, old, modes, asks, _bAbort, events, ends, ops>>

\* Mutant of ResetThreads: only the waiting thread is reset.
ResetWaiter ==
  /\ Do("reset")
  /\ _eventWatch' = TRUE
  /\ UNCHANGED <<place, modes, asks, _bAbort, _eventFolderChange, ends, ops>>

ResetThreads ==
  /\ Do("reset")
  /\ _eventFolderChange' = TRUE
  /\ _eventWatch' = TRUE
  /\ UNCHANGED <<place, modes, asks, _bAbort, ends, ops>>

SetPause ==
  /\ UserTurn(<<>>)
  /\ _bPause' = ~_bPause
  /\ UNCHANGED <<place, modes, asks, _bAbort, events, _bExit, _eventExit>>

\* OnDestroy: the event, then the flag of this thread.
SignalExit ==
  /\ UserTurn(<<"stop">>)
  /\ _eventExit' = TRUE
  /\ UNCHANGED <<place, modes, asks, _bAbort, events, _bPause, _bExit>>

StopThread ==
  /\ Do("stop")
  /\ _bExit' = TRUE
  /\ UNCHANGED <<place, modes, asks, _bAbort, events, _bPause, _eventExit, ops>>

User ==
  /\ BeginSearch \/ BeginOpenFolder \/ RefreshFolder \/ SetPause \/ SignalExit
  /\ UNCHANGED <<disk, scan, notice>>

\* What the UI thread has begun it finishes, and its timer ticks.
UIContinues ==
  /\ \/ Abort \/ LeaveSearchMode \/ DeleteAllThumbs \/ SetSearchMode \/ SetSearching \/ StartSearch
     \/ SetFolder \/ SetRefreshFolder \/ Refresh \/ ResetLoadedFlag \/ ResetThreads
     \/ StopThread \/ OnTimer
  /\ UNCHANGED <<disk, scan, notice>>

(***************************************************************************)
(* The thumbnail thread: Process.                                          *)
(***************************************************************************)
Goto(from, to) == pc = from /\ pc' = to

Mine == IF isCurrent THEN folder.thumbs ELSE old

SetMine(thumbs) ==
  IF isCurrent
    THEN folder' = [folder EXCEPT !.thumbs = thumbs] /\ UNCHANGED old
    ELSE old' = thumbs /\ UNCHANGED folder

TestExit ==
  /\ _bExit
  /\ Goto("top", "done")
  /\ UNCHANGED <<place, modes, _bAbort, _eventFolderChange, todo, found>>

GetFolder ==
  /\ ~_bExit
  /\ ~Locked
  /\ Goto("top", "clear")
  /\ isCurrent' = TRUE
  /\ old' = {}
  /\ missed' = {}
  /\ UNCHANGED <<folder, searched, job, modes, _bAbort, _eventFolderChange, todo, found>>

\* Mutant of ClearAbort: the thread never takes notice of a new round.
ClearAbortForgotten ==
  /\ Goto("clear", "choose")
  /\ UNCHANGED <<place, modes, _bAbort, _eventFolderChange, todo, found>>

\* An abort that comes before this step is forgotten.
ClearAbort ==
  /\ Goto("clear", "choose")
  /\ _bAbort' = FALSE
  /\ UNCHANGED <<place, modes, _eventFolderChange, todo, found>>

\* DecodeFolder starts at the directory of the thread's own folder.
ChooseSearch ==
  /\ IsSearchMode
  /\ Goto("choose", "enum")
  /\ IsSearching' = TRUE
  /\ \E d \in Dirs :
       /\ isCurrent => d = folder.dir
       /\ todo' = Tree[d]
  /\ UNCHANGED <<place, IsSearchMode, IsThumbnailing, _bAbort, _eventFolderChange, found>>

ChooseThumbs ==
  /\ ~IsSearchMode
  /\ Goto("choose", "next")
  /\ IsThumbnailing' = TRUE
  /\ UNCHANGED <<place, IsSearchMode, IsSearching, _bAbort, _eventFolderChange, todo, found>>

GoesOn == IsSearchMode /\ ~_bExit /\ ~_bAbort

\* The next file of the directory or of one below it.
EnumNext ==
  /\ GoesOn
  /\ Goto("enum", "match")
  /\ \E f \in todo : found' = [file |-> f, time |-> disk[f]] /\ todo' = todo \ {f}
  /\ UNCHANGED <<place, modes, _bAbort, _eventFolderChange>>

\* What DecodeFolder leaves out when it returns at an item of d that Init cannot
\* read, or cannot bind to d at all; when it cannot enumerate the items of d; and
\* when it cannot enumerate the directories in d.
Portions(d) == {Tree[d], Listing[d], Tree[d] \ Listing[d]}

\* It leaves them out as well when a flag ends one of its loops, and the next loop
\* may find the flags as they were before.
LeaveOut ==
  /\ pc = "enum"
  /\ \E d \in Dirs : \E portion \in Portions(d) :
       /\ portion \cap todo # {}
       /\ todo' = todo \ portion
       /\ missed' = IF GoesOn THEN missed \cup (portion \cap todo) ELSE missed
  /\ UNCHANGED <<pc, place, modes, _bAbort, _eventFolderChange, found>>

\* DoMatch makes the thumbnail of a file that matches.
DoMatch ==
  /\ Goto("match", IF found.file \in Matching[_searchSpec] THEN "insert" ELSE "enum")
  /\ found' = IF found.file \in Matching[_searchSpec]
                THEN found
                ELSE NotFound
  /\ UNCHANGED <<place, modes, _bAbort, _eventFolderChange, todo>>

\* Mutant of InsertThumb: the result goes to the folder that is open now.
InsertInOpenFolder ==
  /\ Goto("insert", "enum")
  /\ SetThumbs(folder.thumbs \cup
                 {[file |-> found.file, n |-> Serial(found.file, folder.thumbs),
                   time |-> found.time,
                   loaded |-> TRUE, loading |-> FALSE]})
  /\ found' = NotFound
  /\ UNCHANGED <<searched, isCurrent, old, modes, _bAbort, _eventFolderChange, todo>>

InsertThumb ==
  /\ Goto("insert", "enum")
  /\ SetMine(Mine \cup {[file |-> found.file, n |-> Serial(found.file, Mine),
                         time |-> found.time,
                         loaded |-> TRUE, loading |-> FALSE]})
  /\ found' = NotFound
  /\ UNCHANGED <<searched, isCurrent, job, modes, _bAbort, _eventFolderChange, todo>>

EndSearch ==
  /\ todo = {} \/ ~GoesOn
  /\ Goto("enum", "wait")
  /\ todo' = {}
  /\ IsSearching' = FALSE
  /\ UNCHANGED <<place, IsSearchMode, IsThumbnailing, _bAbort, _eventFolderChange, found>>

\* Mutant of LoadJobBegin: a job is begun when there is no thumbnail to load.
LoadJobBeginUnchecked ==
  /\ ~_bAbort /\ ~_bExit /\ ~_bPause
  /\ Goto("next", "load")
  /\ job' = [NoJob EXCEPT !.live = TRUE]
  /\ \A t \in Mine : t.loaded \/ t.loading
  /\ UNCHANGED <<folder, searched, isCurrent, old, modes, _bAbort, _eventFolderChange, todo, found>>

\* GetNextThumbToLoad and LoadJobBegin.  A paused thread sleeps.
LoadJobBegin ==
  /\ ~_bAbort /\ ~_bExit /\ ~_bPause
  /\ Goto("next", "load")
  /\ \E t \in Mine :
       /\ ~t.loaded /\ ~t.loading
       /\ SetMine((Mine \ {t}) \cup {[t EXCEPT !.loading = TRUE]})
       /\ job' = [file |-> t.file, n |-> t.n, live |-> TRUE]
  /\ UNCHANGED <<searched, isCurrent, modes, _bAbort, _eventFolderChange, todo, found>>

LoadImage ==
  /\ Goto("load", "jobend")
  /\ UNCHANGED <<place, modes, _bAbort, _eventFolderChange, todo, found>>

\* The thumbnail is marked as loaded whatever has happened to it meanwhile.
LoadJobEnd ==
  /\ Goto("jobend", "next")
  /\ SetMine({IF job.live /\ t.file = job.file /\ t.n = job.n
                THEN [t EXCEPT !.loaded = TRUE, !.loading = FALSE]
                ELSE t : t \in Mine})
  /\ job' = NoJob
  /\ UNCHANGED <<searched, isCurrent, modes, _bAbort, _eventFolderChange, todo, found>>

\* Mutant of EndThumbs: the loop does not look at _bExit.
EndThumbsExceptAtExit ==
  /\ _bAbort \/ (~_bPause /\ \A t \in Mine : t.loaded \/ t.loading)
  /\ Goto("next", "wait")
  /\ IsThumbnailing' = FALSE
  /\ UNCHANGED <<place, IsSearchMode, IsSearching, _bAbort, _eventFolderChange, todo, found>>

EndThumbs ==
  /\ _bAbort \/ _bExit \/ (~_bPause /\ \A t \in Mine : t.loaded \/ t.loading)
  /\ Goto("next", "wait")
  /\ IsThumbnailing' = FALSE
  /\ UNCHANGED <<place, IsSearchMode, IsSearching, _bAbort, _eventFolderChange, todo, found>>

WakeForChange ==
  /\ Goto("wait", "top")
  /\ _eventFolderChange
  /\ _eventFolderChange' = FALSE
  /\ UNCHANGED <<place, modes, _bAbort, todo, found>>

WakeForExit ==
  /\ Goto("wait", "done")
  /\ ~_eventFolderChange
  /\ _eventExit
  /\ UNCHANGED <<place, modes, _bAbort, _eventFolderChange, todo, found>>

Worker ==
  /\ \/ GetFolder \/ LeaveOut
     \/ /\ \/ TestExit \/ ClearAbort \/ ChooseSearch \/ ChooseThumbs
           \/ EnumNext \/ DoMatch \/ InsertThumb \/ EndSearch
           \/ LoadJobBegin \/ LoadImage \/ LoadJobEnd \/ EndThumbs
           \/ WakeForChange \/ WakeForExit
        /\ UNCHANGED missed
  /\ UNCHANGED <<disk, asks, _eventWatch, ends, ui, notice, ops>>

(***************************************************************************)
(* The waiting thread, and other programs.                                 *)
(***************************************************************************)
\* WaitForFolderToChangeThread drops its notification, signalled or not, and
\* asks for one of the folder that is open now.
WatchFolder ==
  /\ ~_eventExit
  /\ _eventWatch
  /\ ~Locked
  /\ _eventWatch' = FALSE
  /\ watched' = folder.dir
  /\ changed' = FALSE
  /\ UNCHANGED asks

\* RefreshInOneSecond
FolderHasChanged ==
  /\ ~_eventExit
  /\ ~_eventWatch
  /\ changed
  /\ ~Locked
  /\ changed' = FALSE
  /\ refreshDue' = (refreshDue \/ ~IsSearchMode)
  /\ UNCHANGED <<_searchSpec, _eventWatch, watched>>

Waiter ==
  /\ WatchFolder \/ FolderHasChanged
  /\ UNCHANGED <<disk, place, modes, _bAbort, _eventFolderChange, ends, ui, scan, ops>>

Written == {disk[f] : f \in Files}

WriteFile ==
  /\ Max(Written) < MaxWrites
  /\ \E f \in Files :
       /\ disk' = [disk EXCEPT ![f] = Max(Written) + 1]
       /\ changed' = (changed \/ (watched \in Dirs /\ f \in Listing[watched]))
  /\ UNCHANGED <<place, modes, asks, _bAbort, events, ends, ui, scan, watched, ops>>

Next == User \/ UIContinues \/ Worker \/ Waiter \/ WriteFile

\* Every thread runs when it can; the user and other programs need do nothing.
Spec ==
  /\ Init
  /\ [][Next]_vars
  /\ WF_vars(UIContinues)
  /\ WF_vars(Worker)
  /\ WF_vars(Waiter)

(***************************************************************************)
(* Properties.                                                             *)
(***************************************************************************)
TypeOK ==
  /\ disk \in [Files -> Versions]
  /\ folder.dir \in Dirs
  /\ folder.thumbs \in SUBSET Thumbs
  /\ old \in SUBSET Thumbs
  /\ {searched, IsSearchMode, IsSearching, IsThumbnailing, refreshDue, _bAbort, _bPause, _bExit,
      _eventExit, _eventFolderChange, _eventWatch, isCurrent, changed} \subseteq BOOLEAN
  /\ _searchSpec \in Specs \cup {NoSpec}
  /\ ui \in Seq({"abort", "leave", "delete", "mode", "searching", "start", "set", "undue",
                "refresh", "strip", "reset", "stop"})
  /\ pc \in {"top", "clear", "choose", "enum", "match", "insert", "next", "load",
             "jobend", "wait", "done"}
  /\ todo \in SUBSET Files
  /\ missed \in SUBSET Files
  /\ found = NotFound \/ (found.file \in Files /\ found.time \in Versions)
  /\ job = NoJob \/ job.file \in Files
  /\ watched \in Dirs \cup {NoDir}
  /\ ops \in 0 .. MaxOps

\* Both threads have done what they were asked to do.
Rest == ui = <<>> /\ pc = "wait" /\ ~_eventFolderChange /\ ~_eventExit

\* When the thread comes to rest no thumbnail of the open folder is left
\* without its image, although the thread may have served a folder the user has
\* left, and forgets an abort that comes before `_bAbort = false`.
EveryThumbIsLoaded == Rest /\ ~IsSearchMode => \A t \in folder.thumbs : t.loaded

\* When the thread comes to rest after a search everything that matches what was
\* last searched for is in the folder, although an aborted search may have read
\* the new criteria and the new search may have been taken for the old one.  Only
\* what that very search has left out because the shell failed may be missing:
\* one item that cannot be read hides the rest of its directory and all below it.
SearchIsComplete ==
  Rest /\ IsSearchMode =>
    \A f \in (Tree[folder.dir] \cap Matching[_searchSpec]) \ missed :
      \E t \in folder.thumbs : t.file = f

\* A folder that was never searched in shows each of its files once and nothing
\* else, even if the thread is still inserting results of a search in the folder
\* the user has just left: it inserts them where it found them.
ShowsItsFiles ==
  ~searched => /\ \A t \in folder.thumbs : t.file \in Listing[folder.dir]
               /\ \A f \in Listing[folder.dir] : Cardinality(OfFile(f, folder.thumbs)) = 1

\* The thumbnails of the open folder always arrive, unless the user searches,
\* pauses or closes the application.
ThumbsArrive ==
  []<>((\A t \in folder.thumbs : t.loaded) \/ IsSearchMode \/ _bPause \/ _eventExit)

\* Closing ends the thread, also when it is paused.
CloseEndsTheThread == _bExit ~> pc = "done"
=============================================================================
