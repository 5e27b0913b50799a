--------------------------- MODULE ThumbnailCache ---------------------------
(***************************************************************************)
(* The thumbnail cache: thumbnails found or made by the decoding thread    *)
(* and by the UI thread (pages with thumbnails), the map of thumbnails     *)
(* that wait to be saved, the thread that saves them in batches, and the   *)
(* SQLite database, which the program may leave at any moment.             *)
(*                                                                         *)
(* Each action between two steps of a thread is one critical section of    *)
(* ThumbnailCache._cs.  The database is external: transactions, automatic  *)
(* roll back, statements that fail and keys that are not used again are    *)
(* modelled as SQLite documents them.  A picture is the time of the last   *)
(* write its pixels show.                                                  *)
(***************************************************************************)
EXTENDS Naturals, Sequences, FiniteSets, FiniteSetsExt

CONSTANTS
  Files,           \* picture files
  Decoder, UI,     \* the two threads that load thumbnails
  MaxQueue,        \* thumbnails that may wait before the thread is woken: 64
  MaxWrites,       \* bound: the time of the last write; the files are from time 1
  MaxOps,          \* bound: loads, writes, commands and restarts in a behaviour
  MaxFails         \* bound: database calls that fail

ASSUME CacheAssumption ==
  /\ Decoder # UI
  /\ MaxQueue \in Nat
  /\ MaxWrites \in Nat \ {0}
  /\ MaxOps \in Nat
  /\ MaxFails \in Nat

VARIABLES
  disk,               \* the time each file was last written
  size,               \* App.Options._sizeThumbImage
  phase,              \* of the program: down, opened (in the constructor), up
  step, load,         \* what each thread is doing, and its FolderItemLoader
  busy,               \* the decoding thread has a folder in hand
  _itemsToUpdate,
  _event, _eventExit, _bExit,
  pc, thumbList,      \* the saving thread
  _pThumbTransaction,
  _db,                \* the database is open
  isFile, isTable,    \* its file, and its tables, exist
  needsCreate,        \* bNeedsCreate
  view, stored,       \* the database as the connection and as a new process sees it
  inTransaction,
  ui,                 \* the steps the UI thread has yet to do
  ops, fails,         \* operations and failures so far
  undisturbed         \* history: nothing failed or was cleared in this session

files    == <<disk, size>>
loads    == <<step, load, busy>>
queue    == <<_itemsToUpdate, _event>>
ends     == <<_eventExit, _bExit>>
writer   == <<pc, thumbList>>
database == <<_db, isFile, isTable, needsCreate, view, stored, inTransaction>>
bounds   == <<ops, fails, undisturbed>>
vars == <<files, phase, loads, queue, ends, writer, _pThumbTransaction, database, ui, bounds>>

Clients == {Decoder, UI}
Sizes == {1, 2}
NoId == 0
NoImage == [of |-> "none", time |-> 0, size |-> 0]
Images == [of : Files, time : 1 .. MaxWrites, size : Sizes]
Ids == Nat \ {NoId}

\* A FolderItem: the write time it was listed with, the row Find has seen, its
\* image, and (history) the thread that loaded it.
ItemsWith(images) == [file : Files, written : 1 .. MaxWrites, id : {NoId} \cup Ids,
                      image : images, by : Clients]
Items == ItemsWith(Images)
Rows == [id : Ids, file : Files, written : 1 .. MaxWrites, image : Images]
Databases == [rows : SUBSET Rows, seq : Nat]
Loads == [item : ItemsWith(Images \cup {NoImage}), size : Sizes,
          from : {"nowhere", "queue", "database", "file"}]
NoLoad == [item |-> NoImage, size |-> 0, from |-> "nowhere"]
Transactions == [state : {"none", "ready", "dangling"}, findFailed : BOOLEAN,
                 insert : Images \cup {NoImage}, update : Images \cup {NoImage}]
NoTransaction == [state |-> "none", findFailed |-> FALSE, insert |-> NoImage, update |-> NoImage]
Dangling == [NoTransaction EXCEPT !.state = "dangling"]
NewTransaction == [NoTransaction EXCEPT !.state = "ready"]

Init ==
  /\ disk = [f \in Files |-> 1]
  /\ size = 1
  /\ phase = "down"
  /\ isFile = FALSE
  /\ isTable = FALSE
  /\ view = [rows |-> {}, seq |-> 0]
  /\ stored = view
  /\ ops = 0
  /\ fails = 0
  /\ step = [c \in Clients |-> "idle"]
  /\ load = [c \in Clients |-> NoLoad]
  /\ busy = FALSE
  /\ _itemsToUpdate = {}
  /\ _event = FALSE
  /\ _eventExit = FALSE
  /\ _bExit = FALSE
  /\ pc = "test"
  /\ thumbList = {}
  /\ _pThumbTransaction = NoTransaction
  /\ _db = FALSE
  /\ needsCreate = FALSE
  /\ inTransaction = FALSE
  /\ ui = <<>>
  /\ undisturbed = TRUE

Operation == ops < MaxOps /\ ops' = ops + 1
Running == phase = "up"

\* One more database call fails, which the code may or may not notice.
Fails ==
  /\ fails < MaxFails
  /\ fails' = fails + 1
  /\ undisturbed' = FALSE

(***************************************************************************)
(* The database and its prepared statements.                               *)
(***************************************************************************)
\* Outside a transaction every write is stored at once.
Write(db) ==
  /\ view' = db
  /\ stored' = IF inTransaction THEN stored ELSE db

RollBack ==
  /\ view' = stored
  /\ inTransaction' = FALSE

\* What GetThumbTransaction leaves in _pThumbTransaction: without a database or
\* its tables the statements cannot be prepared and it throws.
Prepared ==
  CASE _pThumbTransaction.state # "none" -> _pThumbTransaction
    [] _db /\ isTable                    -> NewTransaction
    [] OTHER                             -> NoTransaction

\* What CloseTransactions may do.  The destructor of a statement whose last step
\* failed throws, and _pThumbTransaction keeps its value; what a second delete
\* does is not defined.
CloseOutcomes ==
  CASE _pThumbTransaction.state = "dangling" ->
         [now : {Dangling, NoTransaction}, threw : BOOLEAN]
    [] _pThumbTransaction.findFailed -> {[now |-> Dangling, threw |-> TRUE]}
    [] OTHER -> {[now |-> NoTransaction, threw |-> FALSE]}

(***************************************************************************)
(* The program starts, ends, or dies.                                      *)
(***************************************************************************)
\* sqlite3_open makes the file if it is not there.
OpenDatabase ==
  /\ phase = "down"
  /\ needsCreate' = ~isFile
  /\ \/ /\ phase' = "opened"
        /\ _db' = TRUE
        /\ isFile' = TRUE
        /\ UNCHANGED <<fails, undisturbed>>
     \/ /\ Fails
        /\ phase' = "up"
        /\ UNCHANGED <<_db, isFile>>
  /\ UNCHANGED <<files, loads, queue, ends, writer, _pThumbTransaction,
                 isTable, view, stored, inTransaction, ui, ops>>

CreateDatabase ==
  /\ phase = "opened"
  /\ phase' = "up"
  /\ isTable' = (isTable \/ needsCreate)
  /\ UNCHANGED <<files, loads, queue, ends, writer, _pThumbTransaction,
                 _db, isFile, needsCreate, view, stored, inTransaction, ui, bounds>>

\* The process is gone: what was not stored is rolled back.
Gone ==
  /\ phase' = "down"
  /\ view' = stored
  /\ step' = [c \in Clients |-> "idle"]
  /\ load' = [c \in Clients |-> NoLoad]
  /\ busy' = FALSE
  /\ _itemsToUpdate' = {}
  /\ _event' = FALSE
  /\ _eventExit' = FALSE
  /\ _bExit' = FALSE
  /\ pc' = "test"
  /\ thumbList' = {}
  /\ _pThumbTransaction' = NoTransaction
  /\ _db' = FALSE
  /\ needsCreate' = FALSE
  /\ inTransaction' = FALSE
  /\ ui' = <<>>
  /\ undisturbed' = TRUE
  /\ UNCHANGED <<files, isFile, isTable, stored, fails>>

Crash == phase # "down" /\ Operation /\ Gone

\* The user writes a picture with another program.
WriteFile ==
  /\ Operation
  /\ \E f \in Files : disk[f] < MaxWrites /\ disk' = [disk EXCEPT ![f] = @ + 1]
  /\ UNCHANGED <<size, phase, loads, queue, ends, writer, _pThumbTransaction,
                 database, ui, fails, undisturbed>>

(***************************************************************************)
(* Loading a thumbnail: FolderItemLoader::LoadImage.                       *)
(***************************************************************************)
SetLoad(c, where, l) ==
  /\ step' = [step EXCEPT ![c] = where]
  /\ load' = [load EXCEPT ![c] = l]

Known(l, id) == [l EXCEPT !.item.id = id]
Got(l, image, from) == [l EXCEPT !.item.image = image, !.from = from]

\* A folder lists a file with the time it then has.  Only a web page with
\* thumbnails of its own size skips the cache.
BeginLoad(c) ==
  /\ Running
  /\ step[c] = "idle"
  /\ ~_eventExit
  /\ c = UI => ui = <<>>
  /\ Operation
  /\ \E f \in Files : \E t \in 1 .. disk[f] :
       LET item == [file |-> f, written |-> t, id |-> NoId, image |-> NoImage, by |-> c]
       IN  \/ SetLoad(c, "find", [item |-> item, size |-> size, from |-> "nowhere"])
           \/ /\ c = UI
              /\ \E s \in Sizes :
                   SetLoad(c, "decode", [item |-> item, size |-> s, from |-> "nowhere"])
  /\ busy' = (busy \/ c = Decoder)
  /\ UNCHANGED <<files, phase, queue, ends, writer, _pThumbTransaction, database, ui,
                 fails, undisturbed>>

Same(f) == {t \in _itemsToUpdate : t.file = f}

\* A thumbnail that waits to be saved is taken, whenever it was made.
FindInQueue(c) ==
  /\ step[c] = "find"
  /\ \E t \in Same(load[c].item.file) :
       SetLoad(c, "done", Got(load[c], t.image, "queue"))
  /\ UNCHANGED <<files, phase, busy, queue, ends, writer, _pThumbTransaction, database, ui, bounds>>

RowsOf(f) == {r \in view.rows : r.file = f}
LastId(rows) ==
  IF rows = {} THEN {NoId} ELSE {r.id : r \in {r \in rows : \A s \in rows : s.id <= r.id}}

\* Mutant of FindInDatabase: the write time is not compared.
FindAnyVersion(c) ==
  LET rows == RowsOf(load[c].item.file)
  IN  /\ step[c] = "find"
      /\ Same(load[c].item.file) = {}
      /\ Prepared.state = "ready"
      /\ ~Prepared.findFailed
      /\ IF rows = {}
           THEN SetLoad(c, "decode", load[c])
           ELSE \E r \in rows :
                  SetLoad(c, "done", Got(Known(load[c], r.id), r.image, "database"))
      /\ _pThumbTransaction' = Prepared
      /\ UNCHANGED <<files, phase, busy, queue, ends, writer, database, ui, bounds>>

\* ThumbTransaction::Find reads the rows of the file in the order of their keys
\* until one was made for the write time of the item, and keeps the key of the last.
FindInDatabase(c) ==
  LET item == load[c].item
      rows == RowsOf(item.file)
      hits == {r \in rows : r.written = item.written /\ r.image # NoImage}
  IN  /\ step[c] = "find"
      /\ Same(item.file) = {}
      /\ Prepared.state = "ready"
      /\ ~Prepared.findFailed
      /\ IF hits = {}
           THEN \E id \in LastId(rows) : SetLoad(c, "decode", Known(load[c], id))
           ELSE \E r \in hits :
                  /\ \A h \in hits : r.id <= h.id
                  /\ SetLoad(c, "done", Got(Known(load[c], r.id), r.image, "database"))
      /\ _pThumbTransaction' = Prepared
      /\ UNCHANGED <<files, phase, busy, queue, ends, writer, database, ui, bounds>>

\* An exception is caught, and the thumbnail is not found.  A statement that
\* failed throws once more when it is reset for the next search.
FindThrows(c) ==
  /\ step[c] = "find"
  /\ Same(load[c].item.file) = {}
  /\ \/ /\ Prepared.state # "ready" \/ Prepared.findFailed
        /\ SetLoad(c, "decode", load[c])
        /\ _pThumbTransaction' = [Prepared EXCEPT !.findFailed = FALSE]
        /\ UNCHANGED <<fails, undisturbed>>
     \/ /\ Prepared.state = "ready" /\ ~Prepared.findFailed
        /\ Fails
        /\ \E id \in {NoId} \cup {r.id : r \in RowsOf(load[c].item.file)} :
             SetLoad(c, "decode", Known(load[c], id))
        /\ _pThumbTransaction' = [Prepared EXCEPT !.findFailed = TRUE]
  /\ UNCHANGED <<files, phase, busy, queue, ends, writer, database, ui, ops>>

\* Mutant of Decode: a picture that could not be read is queued too.
DecodeUnchecked(c) ==
  /\ step[c] = "decode"
  /\ \E image \in {NoImage, [of |-> load[c].item.file, time |-> disk[load[c].item.file],
                             size |-> load[c].size]} :
       SetLoad(c, IF load[c].size = size THEN "queue" ELSE "done",
               Got(load[c], image, "file"))
  /\ UNCHANGED <<files, phase, busy, queue, ends, writer, _pThumbTransaction, database, ui, bounds>>

\* The picture is read from its file, or cannot be.  Only one of the size of
\* the cache is to be queued.
Decode(c) ==
  /\ step[c] = "decode"
  /\ \/ LET f == load[c].item.file
            image == [of |-> f, time |-> disk[f], size |-> load[c].size]
        IN  SetLoad(c, IF load[c].size = size THEN "queue" ELSE "done",
                    Got(load[c], image, "file"))
     \/ SetLoad(c, "done", load[c])
  /\ UNCHANGED <<files, phase, busy, queue, ends, writer, _pThumbTransaction, database, ui, bounds>>

\* Mutant of QueueThumbCacheUpdate: a list takes the place of the map.
PushThumbCacheUpdate(c) ==
  /\ step[c] = "queue"
  /\ _itemsToUpdate' = _itemsToUpdate \cup {load[c].item}
  /\ _event' = (_event \/ Cardinality(_itemsToUpdate') > MaxQueue)
  /\ SetLoad(c, "done", load[c])
  /\ UNCHANGED <<files, phase, busy, ends, writer, _pThumbTransaction, database, ui, bounds>>

QueueThumbCacheUpdate(c) ==
  LET item == load[c].item
  IN  /\ step[c] = "queue"
      /\ _itemsToUpdate' = (_itemsToUpdate \ Same(item.file)) \cup {item}
      /\ _event' = (_event \/ Cardinality(_itemsToUpdate') > MaxQueue)
      /\ SetLoad(c, "done", load[c])
      /\ UNCHANGED <<files, phase, busy, ends, writer, _pThumbTransaction, database, ui, bounds>>

EndLoad(c) ==
  /\ step[c] = "done"
  /\ SetLoad(c, "idle", NoLoad)
  /\ UNCHANGED <<files, phase, busy, queue, ends, writer, _pThumbTransaction, database, ui, bounds>>

\* Mutant of SyncCache: only a thread that waits is woken, as by PulseEvent.
PulseCache ==
  /\ busy
  /\ step[Decoder] = "idle"
  /\ busy' = FALSE
  /\ _event' = (_event \/ pc = "wait")
  /\ UNCHANGED <<files, phase, step, load, _itemsToUpdate, ends, writer, _pThumbTransaction,
                 database, ui, bounds>>

\* The decoding thread is through with its folder or search: SyncCache.
SyncCache ==
  /\ busy
  /\ step[Decoder] = "idle"
  /\ busy' = FALSE
  /\ _event' = TRUE
  /\ UNCHANGED <<files, phase, step, load, _itemsToUpdate, ends, writer, _pThumbTransaction,
                 database, ui, bounds>>

(***************************************************************************)
(* ThumbnailCacheThread::Process.                                          *)
(***************************************************************************)
TestExit ==
  /\ Running
  /\ pc = "test"
  /\ pc' = IF _bExit THEN "ended" ELSE "wait"
  /\ UNCHANGED <<files, phase, loads, queue, ends, thumbList, _pThumbTransaction, database, ui, bounds>>

\* Mutant of Wake: only the thread's own event is waited for.
WakeForWorkOnly ==
  /\ pc = "wait"
  /\ _event
  /\ _event' = FALSE
  /\ pc' = "take"
  /\ UNCHANGED <<files, phase, loads, _itemsToUpdate, ends, thumbList,
                 _pThumbTransaction, database, ui, bounds>>

\* The first of the two events wins when both are set.
Wake ==
  /\ pc = "wait"
  /\ IF _event
       THEN /\ _event' = FALSE
            /\ pc' = "take"
            /\ UNCHANGED _bExit
       ELSE /\ _eventExit
            /\ _bExit' = TRUE
            /\ pc' = "test"
            /\ UNCHANGED _event
  /\ UNCHANGED <<files, phase, loads, _itemsToUpdate, _eventExit, thumbList,
                 _pThumbTransaction, database, ui, bounds>>

GetNextUpdateThumbnails ==
  /\ pc = "take"
  /\ thumbList' = _itemsToUpdate
  /\ _itemsToUpdate' = {}
  /\ pc' = IF _itemsToUpdate = {} THEN "test" ELSE "begin"
  /\ UNCHANGED <<files, phase, loads, _event, ends, _pThumbTransaction, database, ui, bounds>>

\* Mutant of BeginTransaction: the thread gives up when BEGIN fails.
BeginOrEnd ==
  /\ pc = "begin"
  /\ IF _db /\ ~inTransaction
       THEN /\ inTransaction' = TRUE
            /\ pc' = "save"
            /\ UNCHANGED thumbList
       ELSE /\ thumbList' = {}
            /\ pc' = "ended"
            /\ UNCHANGED inTransaction
  /\ UNCHANGED <<files, phase, loads, queue, ends, _pThumbTransaction, _db, isFile, isTable,
                 needsCreate, view, stored, ui, bounds>>

\* When BEGIN fails, as it does inside a transaction, the list is dropped.
BeginTransaction ==
  /\ pc = "begin"
  /\ \/ /\ _db /\ ~inTransaction
        /\ inTransaction' = TRUE
        /\ pc' = "save"
        /\ UNCHANGED <<thumbList, fails, undisturbed>>
     \/ /\ \/ (~_db \/ inTransaction) /\ UNCHANGED <<fails, undisturbed>>
           \/ _db /\ ~inTransaction /\ Fails
        /\ thumbList' = {}
        /\ pc' = "test"
        /\ UNCHANGED inTransaction
  /\ UNCHANGED <<files, phase, loads, queue, ends, _pThumbTransaction, _db, isFile, isTable,
                 needsCreate, view, stored, ui, ops>>

Row(id, t, image) == [id |-> id, file |-> t.file, written |-> t.written, image |-> image]

\* BindThumbImage leaves the image of the last thumbnail bound if t has none.
Bound(last, t) == IF t.image = NoImage THEN last ELSE t.image

\* Mutant of InsertThumb: without AUTOINCREMENT the key follows the largest in use.
InsertReusingKeys(t) ==
  LET image == Bound(Prepared.insert, t)
      id == Max({0} \cup {r.id : r \in view.rows}) + 1
  IN  /\ Write([rows |-> view.rows \cup {Row(id, t, image)}, seq |-> id])
      /\ _pThumbTransaction' = [Prepared EXCEPT !.insert = image]

\* AUTOINCREMENT: a key is never used again.
InsertThumb(t) ==
  LET image == Bound(Prepared.insert, t)
  IN  /\ Write([rows |-> view.rows \cup {Row(view.seq + 1, t, image)}, seq |-> view.seq + 1])
      /\ _pThumbTransaction' = [Prepared EXCEPT !.insert = image]

\* The row may be gone.
UpdateThumb(t) ==
  LET image == Bound(Prepared.update, t)
  IN  /\ Write([view EXCEPT !.rows = {IF r.id = t.id THEN Row(t.id, t, image) ELSE r : r \in @}])
      /\ _pThumbTransaction' = [Prepared EXCEPT !.update = image]

Save(t) ==
  /\ Prepared.state = "ready"
  /\ IF t.id = NoId THEN InsertThumb(t) ELSE UpdateThumb(t)
  /\ UNCHANGED <<inTransaction, fails, undisturbed>>

\* A statement that fails is undone, alone or with the whole transaction.
\* Closing the statements then throws too.
SaveFails ==
  /\ Prepared.state = "ready"
  /\ Fails
  /\ _pThumbTransaction' = Dangling
  /\ \/ UNCHANGED <<view, inTransaction>>
     \/ inTransaction /\ RollBack
  /\ UNCHANGED stored

SaveUnprepared ==
  /\ Prepared.state # "ready"
  /\ \E outcome \in CloseOutcomes : _pThumbTransaction' = outcome.now
  /\ UNCHANGED <<view, stored, inTransaction, fails, undisturbed>>

UpdateThumbInCache ==
  /\ pc = "save"
  /\ \E t \in thumbList :
       /\ thumbList' = thumbList \ {t}
       /\ Save(t) \/ SaveFails \/ SaveUnprepared
  /\ UNCHANGED <<files, phase, loads, queue, ends, pc, _db, isFile, isTable, needsCreate, ui, ops>>

\* Mutant of Commit: a thread that is to end does not wait for the disk.
CommitUnlessExit ==
  /\ pc = "save"
  /\ thumbList = {}
  /\ pc' = "test"
  /\ stored' = IF inTransaction /\ ~_bExit THEN view ELSE stored
  /\ inTransaction' = (inTransaction /\ _bExit)
  /\ UNCHANGED <<files, phase, loads, queue, ends, thumbList, _pThumbTransaction, _db, isFile,
                 isTable, needsCreate, view, ui, bounds>>

\* COMMIT has no effect after a roll back.  It may fail and leave the
\* transaction open, when another program reads the database, or roll it back.
Commit ==
  /\ pc = "save"
  /\ thumbList = {}
  /\ pc' = "test"
  /\ \/ /\ inTransaction
        /\ stored' = view
        /\ inTransaction' = FALSE
        /\ UNCHANGED <<view, fails, undisturbed>>
     \/ /\ inTransaction /\ Fails
        /\ UNCHANGED stored
        /\ UNCHANGED <<view, inTransaction>> \/ RollBack
     \/ /\ ~inTransaction
        /\ UNCHANGED <<view, stored, inTransaction, fails, undisturbed>>
  /\ UNCHANGED <<files, phase, loads, queue, ends, thumbList, _pThumbTransaction,
                 _db, isFile, isTable, needsCreate, ui, ops>>

(***************************************************************************)
(* Commands of the UI thread.                                              *)
(***************************************************************************)
Command(steps) ==
  /\ Running
  /\ ui = <<>>
  /\ step[UI] = "idle"
  /\ ~_eventExit
  /\ Operation
  /\ ui' = steps
  /\ UNCHANGED <<phase, loads, queue, _bExit, writer, _pThumbTransaction, database,
                 disk, fails, undisturbed>>

OnClear == Command(<<"clear">>) /\ UNCHANGED <<size, _eventExit>>
OnCompact == Command(<<"vacuum">>) /\ UNCHANGED <<size, _eventExit>>
OnResize == Command(<<"clear", "vacuum">>) /\ size' \in Sizes \ {size} /\ UNCHANGED _eventExit

\* The other threads are told to end, and have a time to do so.
OnDestroy == Command(<<"drop", "stop", "close">>) /\ _eventExit' = TRUE /\ UNCHANGED size

Do(command) == ui # <<>> /\ Head(ui) = command /\ ui' = Tail(ui)

Clear ==
  /\ Do("clear")
  /\ undisturbed' = FALSE
  /\ \E outcome \in CloseOutcomes :
       /\ _pThumbTransaction' = outcome.now
       /\ \/ ~outcome.threw /\ _db /\ isTable /\ Write([view EXCEPT !.rows = {}]) /\ UNCHANGED fails
          \/ (outcome.threw \/ ~_db \/ ~isTable) /\ UNCHANGED <<view, stored, fails>>
          \/ ~outcome.threw /\ Fails /\ UNCHANGED <<view, stored>>
  /\ UNCHANGED <<files, phase, loads, queue, ends, writer, _db, isFile, isTable, needsCreate,
                 inTransaction, ops>>

\* Compacting changes no row, and is refused inside a transaction.
Vacuum ==
  /\ Do("vacuum")
  /\ \E outcome \in CloseOutcomes : _pThumbTransaction' = outcome.now
  /\ UNCHANGED <<files, phase, loads, queue, ends, writer, database, bounds>>

DropQueue ==
  /\ Do("drop")
  /\ _itemsToUpdate' = {}
  /\ UNCHANGED <<files, phase, loads, _event, ends, writer, _pThumbTransaction, database, bounds>>

StopThread ==
  /\ Do("stop")
  /\ _bExit' = TRUE
  /\ UNCHANGED <<files, phase, loads, queue, _eventExit, writer, _pThumbTransaction, database, bounds>>

\* The thread has ended, or 30 s have passed.  An open transaction is rolled back.
Close ==
  /\ Do("close")
  /\ \E outcome \in CloseOutcomes : _pThumbTransaction' = outcome.now
  /\ _db' = FALSE
  /\ RollBack
  /\ UNCHANGED <<files, phase, loads, queue, ends, writer, isFile, isTable, needsCreate, stored, bounds>>

\* The process ends after its window is destroyed.
Quit == Running /\ _eventExit /\ ui = <<>> /\ Gone /\ UNCHANGED ops

LoadSteps(c) ==
  \/ FindInQueue(c) \/ FindInDatabase(c) \/ FindThrows(c)
  \/ Decode(c) \/ QueueThumbCacheUpdate(c) \/ EndLoad(c)

SaveSteps ==
  \/ TestExit \/ Wake \/ GetNextUpdateThumbnails
  \/ BeginTransaction \/ UpdateThumbInCache \/ Commit

Commands == Clear \/ Vacuum \/ DropQueue \/ StopThread \/ Close

Next ==
  \/ OpenDatabase \/ CreateDatabase \/ Crash \/ Quit \/ WriteFile
  \/ \E c \in Clients : BeginLoad(c) \/ LoadSteps(c)
  \/ SyncCache
  \/ SaveSteps
  \/ OnClear \/ OnCompact \/ OnResize \/ OnDestroy
  \/ Commands

\* The threads go on; the user, crashes and other programs need not.  SyncCache is
\* not fair: CommandViewPause may hold the decoding thread in its folder for ever.
Fairness ==
  /\ WF_vars(LoadSteps(Decoder))
  /\ WF_vars(SaveSteps)
  /\ WF_vars(Commands)

Spec == Init /\ [][Next]_vars /\ Fairness

(***************************************************************************)
(* Properties.                                                             *)
(***************************************************************************)
\* The variables keep their types.
TypeOK ==
  /\ disk \in [Files -> 1 .. MaxWrites]
  /\ size \in Sizes
  /\ phase \in {"down", "opened", "up"}
  /\ step \in [Clients -> {"idle", "find", "decode", "queue", "done"}]
  /\ load \in [Clients -> Loads \cup {NoLoad}]
  /\ \A c \in Clients : step[c] # "idle" => load[c] \in Loads
  /\ _itemsToUpdate \subseteq Items
  /\ thumbList \subseteq Items
  /\ \A s, t \in _itemsToUpdate : s.file = t.file => s = t
  /\ pc \in {"test", "wait", "take", "begin", "save", "ended"}
  /\ _pThumbTransaction \in Transactions
  /\ view \in Databases
  /\ stored \in Databases
  /\ busy \in BOOLEAN /\ _event \in BOOLEAN /\ _eventExit \in BOOLEAN /\ _bExit \in BOOLEAN
  /\ _db \in BOOLEAN /\ isFile \in BOOLEAN /\ isTable \in BOOLEAN /\ needsCreate \in BOOLEAN
  /\ inTransaction \in BOOLEAN /\ undisturbed \in BOOLEAN
  /\ ui \in Seq({"clear", "vacuum", "drop", "stop", "close"})
  /\ ops \in 0 .. MaxOps /\ fails \in 0 .. MaxFails

\* An image of the right file, at least as new as the time it is filed under.
IsTrue(t) == t.image.of = t.file /\ t.image.time >= t.written

\* A row holds the picture of its own file, at least as new as the write time it
\* is filed under: whatever stays bound to a statement, whichever key an item
\* carries after a clear, a roll back or a restart.
RowsAreTrue == \A r \in view.rows \cup stored.rows : IsTrue(r)

\* A thumbnail found in the database is not older than the listing it is for.
\* (One found in the queue may be: FindAndLoadThumbFromCache does not ask.)
FoundIsNotOlder ==
  \A c \in Clients :
    load[c].from = "database" => IsTrue(load[c].item)

\* What the decoding thread has queued is not forgotten: until it is taken, that
\* thread is still to call SyncCache, or the saving thread is to wake or awake.
QueuedIsRemembered ==
  (\E t \in _itemsToUpdate : t.by = Decoder) => busy \/ _event \/ pc = "take"

\* An item that has seen a row never overwrites the row of another file, even
\* after the cache was cleared, as long as no call fails.  (A roll back gives
\* the keys back, and then it may.)
UpdateKeepsTheFile ==
  [][fails' = 0 =>
       \A r \in view.rows, s \in view'.rows : r.id = s.id => r.file = s.file]_vars

\* While no call fails and nobody clears the cache, each thumbnail taken from
\* the queue gets its row, and the rows of a batch are stored when it ends.
SavedUnlessDisturbed ==
  [][undisturbed' /\ _db' /\ isTable /\ pc = "save" =>
       /\ \A t \in thumbList \ thumbList' :
            \E r \in view'.rows : r.file = t.file /\ r.written = t.written /\ r.image = t.image
       /\ pc' # "save" => stored' = view]_vars

\* A thumbnail queued by the decoding thread is taken by the saving thread in the
\* end, unless the decoding thread stays with its folder for ever, as a paused one
\* does: the thumbnails queued before the pause then wait with it.
QueuedIsTaken ==
  \A f \in Files :
    (\E t \in _itemsToUpdate : t.file = f /\ t.by = Decoder)
      ~> \/ _eventExit
         \/ ~\E t \in _itemsToUpdate : t.file = f /\ t.by = Decoder
         \/ []busy

\* The saving thread ends when the program is closed.
CloseEndsTheSaving == _eventExit ~> (pc = "ended" \/ phase = "down")
=============================================================================
