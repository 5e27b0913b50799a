------------------------- MODULE ThumbnailCacheProof -------------------------
(***************************************************************************)
(* Proofs about ThumbnailCache, for every set of files and every bound.    *)
(***************************************************************************)
EXTENDS ThumbnailCache, TLAPS

USE CacheAssumption

\* What the three operators on a load in hand do.
LEMMA KnownFacts ==
  ASSUME NEW l \in Loads, NEW id \in {NoId} \cup Ids
  PROVE  /\ Known(l, id) \in Loads
         /\ Known(l, id).item.file = l.item.file
         /\ Known(l, id).item.written = l.item.written
         /\ Known(l, id).item.id = id
         /\ Known(l, id).item.image = l.item.image
         /\ Known(l, id).item.by = l.item.by
         /\ Known(l, id).from = l.from
  BY DEF Known, Loads, ItemsWith

LEMMA GotFacts ==
  ASSUME NEW l \in Loads, NEW image \in Images \cup {NoImage}, NEW from,
         from = "queue" \/ from = "database" \/ from = "file"
  PROVE  /\ Got(l, image, from) \in Loads
         /\ Got(l, image, from).item.file = l.item.file
         /\ Got(l, image, from).item.written = l.item.written
         /\ Got(l, image, from).item.id = l.item.id
         /\ Got(l, image, from).item.image = image
         /\ Got(l, image, from).item.by = l.item.by
         /\ Got(l, image, from).from = from
  BY DEF Got, Loads, ItemsWith

(***************************************************************************)
(* The inductive invariant, in four parts: the loads, the queue and the    *)
(* batch, the database, and the rest.                                      *)
(***************************************************************************)
LoadOK ==
  /\ disk \in [Files -> 1 .. MaxWrites]
  /\ step \in [Clients -> {"idle", "find", "decode", "queue", "done"}]
  /\ load \in [Clients -> Loads \cup {NoLoad}]
  /\ busy \in BOOLEAN
  /\ step[Decoder] # "idle" => busy
  /\ \A c \in Clients :
       /\ step[c] # "idle" => /\ load[c] \in Loads
                              /\ load[c].item.by = c
                              /\ load[c].item.written <= disk[load[c].item.file]
       /\ step[c] = "queue" => IsTrue(load[c].item)
       /\ load[c].from = "database" => IsTrue(load[c].item)

QueueOK ==
  /\ _itemsToUpdate \subseteq Items
  /\ thumbList \subseteq Items
  /\ \A s, t \in _itemsToUpdate : s.file = t.file => s = t
  /\ \A t \in _itemsToUpdate \cup thumbList : IsTrue(t)
  /\ QueuedIsRemembered

DataOK ==
  /\ _pThumbTransaction \in Transactions
  /\ view \in Databases
  /\ stored \in Databases
  /\ RowsAreTrue

RestOK ==
  /\ size \in Sizes
  /\ phase \in {"down", "opened", "up"}
  /\ pc \in {"test", "wait", "take", "begin", "save", "ended"}
  /\ _event \in BOOLEAN /\ _eventExit \in BOOLEAN /\ _bExit \in BOOLEAN
  /\ _db \in BOOLEAN /\ isFile \in BOOLEAN /\ isTable \in BOOLEAN /\ needsCreate \in BOOLEAN
  /\ inTransaction \in BOOLEAN /\ undisturbed \in BOOLEAN
  /\ ui \in Seq({"clear", "vacuum", "drop", "stop", "close"})
  /\ ops \in 0 .. MaxOps /\ fails \in 0 .. MaxFails

IInv == LoadOK /\ QueueOK /\ DataOK /\ RestOK

LEMMA InitIInv == Init => IInv
  <1> SUFFICES ASSUME Init PROVE IInv
    OBVIOUS
  <1>1. LoadOK
    <2>1. disk \in [Files -> 1 .. MaxWrites]
      BY DEF Init
    <2>2. \A c \in Clients : step[c] = "idle" /\ load[c] = NoLoad
      BY DEF Init
    <2>3. NoLoad.from = "nowhere"
      BY DEF NoLoad
    <2>4. step \in [Clients -> {"idle", "find", "decode", "queue", "done"}]
      BY DEF Init
    <2>5. load \in [Clients -> Loads \cup {NoLoad}]
      BY DEF Init
    <2>6. busy \in BOOLEAN /\ Decoder \in Clients
      BY DEF Init, Clients
    <2>7. QED
      BY <2>1, <2>2, <2>3, <2>4, <2>5, <2>6 DEF LoadOK
  <1>2. QueueOK
    BY DEF Init, QueueOK, QueuedIsRemembered
  <1>3. DataOK
    BY DEF Init, DataOK, RowsAreTrue, Databases, Transactions, NoTransaction
  <1>4. RestOK
    <2>1. ui \in Seq({"clear", "vacuum", "drop", "stop", "close"})
      BY DEF Init
    <2>2. ops \in 0 .. MaxOps /\ fails \in 0 .. MaxFails
      BY DEF Init
    <2>3. QED
      BY <2>1, <2>2 DEF Init, RestOK, Sizes
  <1>5. QED
    BY <1>1, <1>2, <1>3, <1>4 DEF IInv

\* The steps of Next by what they are about.
LEMMA NextCases ==
  ASSUME [Next]_vars
  PROVE  \/ UNCHANGED vars
         \/ OpenDatabase \/ CreateDatabase \/ Crash \/ Quit \/ WriteFile
         \/ \E c \in Clients : \/ BeginLoad(c) \/ FindInQueue(c) \/ FindInDatabase(c) \/ FindThrows(c)
                               \/ Decode(c) \/ QueueThumbCacheUpdate(c) \/ EndLoad(c)
         \/ SyncCache
         \/ TestExit \/ Wake \/ GetNextUpdateThumbnails
         \/ BeginTransaction \/ UpdateThumbInCache \/ Commit
         \/ OnClear \/ OnCompact \/ OnResize \/ OnDestroy
         \/ Clear \/ Vacuum \/ DropQueue \/ StopThread \/ Close
  BY DEF Next, LoadSteps, SaveSteps, Commands

\* The steps that leave the loads and the files alone.
LEMMA LoadFrame ==
  ASSUME \/ UNCHANGED vars
         \/ OpenDatabase \/ CreateDatabase
         \/ TestExit \/ Wake \/ GetNextUpdateThumbnails
         \/ BeginTransaction \/ UpdateThumbInCache \/ Commit
         \/ OnClear \/ OnCompact \/ OnResize \/ OnDestroy
         \/ Clear \/ Vacuum \/ DropQueue \/ StopThread \/ Close
  PROVE  UNCHANGED <<disk, step, load, busy>>
  BY DEF vars, files, loads, OpenDatabase, CreateDatabase, TestExit, Wake,
         GetNextUpdateThumbnails, BeginTransaction, UpdateThumbInCache, Commit, OnClear, OnCompact,
         OnResize, OnDestroy, Command, Clear, Vacuum, DropQueue, StopThread, Close

\* A step of a load that is to go on.
LEMMA SetLoadStep ==
  ASSUME LoadOK, NEW c \in Clients, NEW where \in {"find", "decode", "queue", "done"}, NEW l \in Loads,
         SetLoad(c, where, l),
         l.item.by = c, l.item.written <= disk[l.item.file],
         where = "queue" => IsTrue(l.item),
         l.from = "database" => IsTrue(l.item),
         disk' = disk, busy' \in BOOLEAN, busy => busy', c = Decoder => busy'
  PROVE  LoadOK'
  BY DEF LoadOK, SetLoad, IsTrue, Clients

LEMMA LoadStep == IInv /\ [Next]_vars => LoadOK'
  <1> SUFFICES ASSUME IInv, [Next]_vars PROVE LoadOK'
    OBVIOUS
  <1>0. LoadOK /\ QueueOK /\ DataOK
    BY DEF IInv
  <1>1. CASE UNCHANGED <<disk, step, load, busy>>
    BY <1>0, <1>1 DEF LoadOK, IsTrue
  <1>2. CASE Crash \/ Quit
    <2>1. /\ disk' = disk /\ busy' = FALSE
          /\ step' = [c \in Clients |-> "idle"] /\ load' = [c \in Clients |-> NoLoad]
      BY <1>2 DEF Crash, Quit, Gone, files
    <2>2. NoLoad.from = "nowhere" /\ Decoder \in Clients
      BY DEF NoLoad, Clients
    <2>3. \A c \in Clients : step'[c] = "idle" /\ load'[c] = NoLoad
      BY <2>1
    <2>4. /\ step' \in [Clients -> {"idle", "find", "decode", "queue", "done"}]
          /\ load' \in [Clients -> Loads \cup {NoLoad}]
      BY <2>1
    <2>5. QED
      BY <1>0, <2>1, <2>2, <2>3, <2>4 DEF LoadOK
  <1>3. CASE WriteFile
    <2>1. PICK f \in Files : disk[f] < MaxWrites /\ disk' = [disk EXCEPT ![f] = disk[f] + 1]
      BY <1>3 DEF WriteFile
    <2>2. UNCHANGED <<step, load, busy>>
      BY <1>3 DEF WriteFile, loads
    <2>3. disk' \in [Files -> 1 .. MaxWrites] /\ \A g \in Files : disk[g] <= disk'[g]
      BY <1>0, <2>1 DEF LoadOK
    <2>4. \A c \in Clients : step[c] # "idle" =>
             /\ load[c].item.file \in Files
             /\ load[c].item.written \in Nat
             /\ disk[load[c].item.file] \in Nat
      BY <1>0 DEF LoadOK, Loads, ItemsWith
    <2>5. \A c \in Clients : step[c] # "idle" => load[c].item.written <= disk'[load[c].item.file]
      BY <1>0, <2>3, <2>4 DEF LoadOK
    <2>6. QED
      BY <1>0, <2>2, <2>3, <2>5 DEF LoadOK, IsTrue
  <1>4. ASSUME NEW c \in Clients, BeginLoad(c) PROVE LoadOK'
    <2>1. \E f \in Files : \E t \in 1 .. disk[f] : \E where \in {"find", "decode"}, s \in Sizes :
            SetLoad(c, where, [item |-> [file |-> f, written |-> t, id |-> NoId, image |-> NoImage,
                                         by |-> c], size |-> s, from |-> "nowhere"])
      BY <1>4 DEF BeginLoad, IInv, RestOK
    <2>a. PICK f \in Files, t \in Nat, where \in {"find", "decode"}, s \in Sizes :
            /\ t \in 1 .. disk[f]
            /\ SetLoad(c, where, [item |-> [file |-> f, written |-> t, id |-> NoId, image |-> NoImage,
                                            by |-> c], size |-> s, from |-> "nowhere"])
      BY <2>1
    <2> DEFINE l == [item |-> [file |-> f, written |-> t, id |-> NoId, image |-> NoImage,
                               by |-> c], size |-> s, from |-> "nowhere"]
    <2>2. l \in Loads /\ l.item.by = c /\ l.item.written <= disk[l.item.file] /\ l.from = "nowhere"
      BY <1>0, <2>a DEF Loads, ItemsWith, LoadOK
    <2>3. disk' = disk /\ busy' \in BOOLEAN /\ (busy => busy') /\ (c = Decoder => busy')
      BY <1>4 DEF BeginLoad, files
    <2> HIDE DEF l
    <2>4. QED
      BY <1>0, <2>a, <2>2, <2>3, SetLoadStep DEF l
  <1>5. ASSUME NEW c \in Clients, step[c] # "idle", UNCHANGED <<disk, busy>>
        PROVE  /\ load[c] \in Loads
               /\ load[c].item.by = c
               /\ load[c].item.written <= disk[load[c].item.file]
               /\ load[c].from = "database" => IsTrue(load[c].item)
               /\ busy' \in BOOLEAN /\ (busy => busy') /\ (c = Decoder => busy')
    BY <1>0, <1>5 DEF LoadOK
  <1>6. ASSUME NEW c \in Clients, FindInQueue(c) PROVE LoadOK'
    <2>1. step[c] # "idle" /\ UNCHANGED <<disk, busy>>
      BY <1>6 DEF FindInQueue, files
    <2>2. PICK t \in Items : SetLoad(c, "done", Got(load[c], t.image, "queue"))
      BY <1>0, <1>6 DEF FindInQueue, Same, QueueOK
    <2>3. t.image \in Images \cup {NoImage}
      BY DEF Items, ItemsWith
    <2>4. QED
      BY <1>0, <1>5, <2>1, <2>2, <2>3, GotFacts, SetLoadStep
  <1>7. ASSUME NEW c \in Clients, FindInDatabase(c) PROVE LoadOK'
    <2>1. step[c] # "idle" /\ UNCHANGED <<disk, busy>>
      BY <1>7 DEF FindInDatabase, files
    <2>2. CASE \E id \in {NoId} \cup Ids : SetLoad(c, "decode", Known(load[c], id))
      <3>1. PICK id \in {NoId} \cup Ids : SetLoad(c, "decode", Known(load[c], id))
        BY <2>2
      <3>2. IsTrue(load[c].item) => IsTrue(Known(load[c], id).item)
        BY <1>5, <2>1, KnownFacts DEF IsTrue
      <3>3. QED
        BY <1>0, <1>5, <2>1, <3>1, <3>2, KnownFacts, SetLoadStep
    <2>3. CASE \E r \in view.rows : /\ r.file = load[c].item.file
                                    /\ r.written = load[c].item.written
                                    /\ SetLoad(c, "done", Got(Known(load[c], r.id), r.image, "database"))
      <3>1. PICK r \in view.rows : /\ r.file = load[c].item.file
                                   /\ r.written = load[c].item.written
                                   /\ SetLoad(c, "done", Got(Known(load[c], r.id), r.image, "database"))
        BY <2>3
      <3>2. r \in Rows /\ IsTrue(r)
        BY <1>0 DEF DataOK, Databases, RowsAreTrue
      <3>3. r.id \in {NoId} \cup Ids /\ r.image \in Images \cup {NoImage}
        BY <3>2 DEF Rows
      <3> DEFINE k == Known(load[c], r.id)
                 l == Got(k, r.image, "database")
      <3>4. /\ k \in Loads /\ k.item.file = load[c].item.file
            /\ k.item.written = load[c].item.written /\ k.item.by = load[c].item.by
        BY <1>5, <2>1, <3>3, KnownFacts
      <3> HIDE DEF k
      <3>5. /\ l \in Loads /\ l.item.file = load[c].item.file
            /\ l.item.written = load[c].item.written /\ l.item.by = load[c].item.by
            /\ l.item.image = r.image
        BY <3>3, <3>4, GotFacts
      <3>6. SetLoad(c, "done", l)
        BY <3>1 DEF k
      <3> HIDE DEF l
      <3>7. IsTrue(l.item)
        BY <3>1, <3>2, <3>5 DEF IsTrue
      <3>8. QED
        BY <1>0, <1>5, <2>1, <3>5, <3>6, <3>7, SetLoadStep
    <2>4. \A r \in view.rows : r.id \in Ids
      BY <1>0 DEF DataOK, Databases, Rows
    <2>5. QED
      BY <1>7, <2>2, <2>3, <2>4 DEF FindInDatabase, RowsOf, LastId
  <1>8. ASSUME NEW c \in Clients, FindThrows(c) PROVE LoadOK'
    <2>1. step[c] # "idle" /\ UNCHANGED <<disk, busy>>
      BY <1>8 DEF FindThrows, files
    <2>2. CASE SetLoad(c, "decode", load[c])
      BY <1>0, <1>5, <2>1, <2>2, SetLoadStep
    <2>3. CASE \E id \in {NoId} \cup Ids : SetLoad(c, "decode", Known(load[c], id))
      <3>1. PICK id \in {NoId} \cup Ids : SetLoad(c, "decode", Known(load[c], id))
        BY <2>3
      <3>2. IsTrue(load[c].item) => IsTrue(Known(load[c], id).item)
        BY <1>5, <2>1, KnownFacts DEF IsTrue
      <3>3. QED
        BY <1>0, <1>5, <2>1, <3>1, <3>2, KnownFacts, SetLoadStep
    <2>4. \A r \in view.rows : r.id \in Ids
      BY <1>0 DEF DataOK, Databases, Rows
    <2>5. QED
      BY <1>8, <2>2, <2>3, <2>4 DEF FindThrows, RowsOf
  <1>9. ASSUME NEW c \in Clients, Decode(c) PROVE LoadOK'
    <2>1. step[c] # "idle" /\ UNCHANGED <<disk, busy>>
      BY <1>9 DEF Decode, files
    <2> DEFINE f == load[c].item.file
               image == [of |-> f, time |-> disk[f], size |-> load[c].size]
               l == Got(load[c], image, "file")
    <2>2. CASE SetLoad(c, "done", load[c])
      BY <1>0, <1>5, <2>1, <2>2, SetLoadStep
    <2>3. CASE \E where \in {"queue", "done"} : SetLoad(c, where, l)
      <3>1. image \in Images \cup {NoImage}
        BY <1>0, <1>5, <2>1 DEF Loads, ItemsWith, Images, LoadOK
      <3>2. image.of = f /\ image.time = disk[f]
        OBVIOUS
      <3> HIDE DEF image
      <3>3. /\ l \in Loads /\ l.item.file = f /\ l.item.image = image /\ l.from = "file"
            /\ l.item.written = load[c].item.written /\ l.item.by = load[c].item.by
        BY <1>5, <2>1, <3>1, GotFacts
      <3>4. f \in Files /\ disk[f] \in Nat /\ load[c].item.written \in Nat
        BY <1>0, <1>5, <2>1 DEF Loads, ItemsWith, LoadOK
      <3> HIDE DEF l
      <3>5. IsTrue(l.item)
        BY <1>5, <2>1, <3>2, <3>3, <3>4 DEF IsTrue
      <3> HIDE DEF f
      <3>6. QED
        BY <1>0, <1>5, <2>1, <2>3, <3>3, <3>5, SetLoadStep DEF f
    <2>4. QED
      BY <1>9, <2>2, <2>3 DEF Decode
  <1>10. ASSUME NEW c \in Clients, QueueThumbCacheUpdate(c) PROVE LoadOK'
    <2>1. step[c] # "idle" /\ UNCHANGED <<disk, busy>> /\ SetLoad(c, "done", load[c])
      BY <1>10 DEF QueueThumbCacheUpdate, files
    <2>2. QED
      BY <1>0, <1>5, <2>1, SetLoadStep
  <1>11. ASSUME NEW c \in Clients, EndLoad(c) PROVE LoadOK'
    BY <1>0, <1>11 DEF EndLoad, SetLoad, LoadOK, files, NoLoad, IsTrue, Clients
  <1>12. CASE SyncCache
    BY <1>0, <1>12 DEF SyncCache, LoadOK, files, IsTrue
  <1>13. QED
    BY <1>1, <1>2, <1>3, <1>4, <1>6, <1>7, <1>8, <1>9, <1>10, <1>11, <1>12, NextCases, LoadFrame

LEMMA QueueStep == IInv /\ [Next]_vars => QueueOK'
  <1> SUFFICES ASSUME IInv, [Next]_vars PROVE QueueOK'
    OBVIOUS
  <1>0. LoadOK /\ QueueOK
    BY DEF IInv
  <1>1. CASE UNCHANGED <<_itemsToUpdate, _event, pc, thumbList>> /\ (busy => busy')
    BY <1>0, <1>1 DEF QueueOK, QueuedIsRemembered, IsTrue
  <1>2. CASE OpenDatabase \/ CreateDatabase \/ WriteFile \/ UNCHANGED vars
    BY <1>1, <1>2 DEF OpenDatabase, CreateDatabase, WriteFile, vars, loads, queue, writer
  <1>3. CASE Crash \/ Quit
    BY <1>3 DEF Crash, Quit, Gone, QueueOK, QueuedIsRemembered
  <1>4. ASSUME NEW c \in Clients,
               \/ BeginLoad(c) \/ FindInQueue(c) \/ FindInDatabase(c) \/ FindThrows(c)
               \/ Decode(c) \/ EndLoad(c)
        PROVE  QueueOK'
    BY <1>1, <1>4 DEF BeginLoad, FindInQueue, FindInDatabase, FindThrows, Decode, EndLoad, queue, writer
  <1>5. ASSUME NEW c \in Clients, QueueThumbCacheUpdate(c) PROVE QueueOK'
    <2> DEFINE item == load[c].item
    <2>1. /\ _itemsToUpdate' = (_itemsToUpdate \ Same(item.file)) \cup {item}
          /\ _event => _event'
          /\ UNCHANGED <<busy, pc, thumbList>>
          /\ step[c] = "queue"
      BY <1>5 DEF QueueThumbCacheUpdate, writer
    <2>2. load[c] \in Loads /\ item.by = c /\ IsTrue(item) /\ (c = Decoder => busy)
      BY <1>0, <2>1 DEF LoadOK
    <2>3. item \in ItemsWith(Images \cup {NoImage})
      BY <2>2 DEF Loads
    <2>4. item.image # NoImage
      BY <2>2, <2>3 DEF ItemsWith, IsTrue, NoImage
    <2>5. item \in Items
      BY <2>3, <2>4 DEF Items, ItemsWith
    <2> HIDE DEF item
    <2>6. _itemsToUpdate' \subseteq Items /\ thumbList' \subseteq Items
      BY <1>0, <2>1, <2>5 DEF QueueOK
    <2>7. \A s, t \in _itemsToUpdate' : s.file = t.file => s = t
      BY <1>0, <2>1 DEF QueueOK, Same
    <2>8. \A t \in _itemsToUpdate' \cup thumbList' : IsTrue(t)
      BY <1>0, <2>1, <2>2 DEF QueueOK, item
    <2>9. QueuedIsRemembered'
      BY <1>0, <2>1, <2>2 DEF QueueOK, QueuedIsRemembered
    <2>10. QED
      BY <2>6, <2>7, <2>8, <2>9 DEF QueueOK, IsTrue
  <1>6. CASE SyncCache
    BY <1>0, <1>6 DEF SyncCache, QueueOK, QueuedIsRemembered, IsTrue, writer
  <1>7. CASE TestExit \/ Wake
    BY <1>0, <1>7 DEF TestExit, Wake, QueueOK, QueuedIsRemembered, IsTrue, loads, queue
  <1>8. CASE GetNextUpdateThumbnails
    BY <1>0, <1>8 DEF GetNextUpdateThumbnails, QueueOK, QueuedIsRemembered, IsTrue
  <1>9. CASE BeginTransaction
    BY <1>0, <1>9 DEF BeginTransaction, QueueOK, QueuedIsRemembered, IsTrue, queue, loads
  <1>10. CASE UpdateThumbInCache
    <2>1. /\ thumbList' \subseteq thumbList
          /\ UNCHANGED <<_itemsToUpdate, _event, pc, busy>>
      BY <1>10 DEF UpdateThumbInCache, queue, loads
    <2>2. QED
      BY <1>0, <2>1 DEF QueueOK, QueuedIsRemembered, IsTrue
  <1>11. CASE Commit
    BY <1>0, <1>11 DEF Commit, QueueOK, QueuedIsRemembered, IsTrue, queue, loads
  <1>12. CASE OnClear \/ OnCompact \/ OnResize \/ OnDestroy
    BY <1>1, <1>12 DEF OnClear, OnCompact, OnResize, OnDestroy, Command, queue, loads, writer
  <1>13. CASE Clear \/ Vacuum \/ StopThread \/ Close
    BY <1>1, <1>13 DEF Clear, Vacuum, StopThread, Close, queue, loads, writer
  <1>14. CASE DropQueue
    BY <1>0, <1>14 DEF DropQueue, QueueOK, QueuedIsRemembered, IsTrue, loads, writer
  <1>15. QED
    BY <1>2, <1>3, <1>4, <1>5, <1>6, <1>7, <1>8, <1>9, <1>10, <1>11, <1>12, <1>13, <1>14, NextCases

LEMMA TransactionFacts ==
  ASSUME DataOK
  PROVE  /\ Prepared \in Transactions
         /\ \A outcome \in CloseOutcomes : outcome.now \in Transactions
  <1>1. NoTransaction \in Transactions /\ Dangling \in Transactions /\ NewTransaction \in Transactions
    BY DEF NoTransaction, Dangling, NewTransaction, Transactions
  <1>2. Prepared \in Transactions
    BY <1>1 DEF Prepared, DataOK
  <1>3. \A outcome \in CloseOutcomes : outcome.now \in Transactions
    BY <1>1 DEF CloseOutcomes
  <1>4. QED
    BY <1>2, <1>3

\* Databases whose rows are true, closed under what the code writes.
TrueDatabases == {db \in Databases : \A r \in db.rows : IsTrue(r)}

LEMMA DataAgain ==
  ASSUME _pThumbTransaction' \in Transactions, view' \in TrueDatabases, stored' \in TrueDatabases
  PROVE  DataOK'
  BY DEF DataOK, TrueDatabases, RowsAreTrue, IsTrue

\* A thumbnail that shows something binds its own image, and makes a true row.
LEMMA SavedFacts ==
  ASSUME DataOK, NEW t \in Items, IsTrue(t), Save(t)
  PROVE  _pThumbTransaction' \in Transactions /\ view' \in TrueDatabases /\ stored' \in TrueDatabases
  <1>1. t.image \in Images /\ t.image # NoImage
    BY DEF Items, ItemsWith, Images, NoImage
  <1>2. \A last : Bound(last, t) = t.image
    BY <1>1 DEF Bound
  <1>3. ASSUME NEW id \in Ids
        PROVE  Row(id, t, t.image) \in Rows /\ IsTrue(Row(id, t, t.image))
    BY <1>1 DEF Row, Rows, IsTrue, Items, ItemsWith
  <1>4. /\ view \in TrueDatabases /\ stored \in TrueDatabases
        /\ view.rows \subseteq Rows /\ view.seq \in Nat /\ \A r \in view.rows : IsTrue(r)
    BY DEF DataOK, TrueDatabases, RowsAreTrue, Databases
  <1>5. CASE t.id = NoId
    <2> DEFINE db == [rows |-> view.rows \cup {Row(view.seq + 1, t, t.image)}, seq |-> view.seq + 1]
    <2>1. view.seq + 1 \in Ids
      BY <1>4 DEF Ids, NoId
    <2>2. db \in TrueDatabases
      BY <1>3, <1>4, <2>1 DEF TrueDatabases, Databases
    <2>3. Write(db) /\ _pThumbTransaction' = [Prepared EXCEPT !.insert = t.image]
      BY <1>2, <1>5 DEF Save, InsertThumb
    <2> HIDE DEF db
    <2>4. view' \in TrueDatabases /\ stored' \in TrueDatabases
      BY <1>4, <2>2, <2>3 DEF Write
    <2>5. _pThumbTransaction' \in Transactions
      BY <1>1, <2>3, TransactionFacts DEF Transactions
    <2>6. QED
      BY <2>4, <2>5
  <1>6. CASE t.id # NoId
    <2> DEFINE new == {IF r.id = t.id THEN Row(t.id, t, t.image) ELSE r : r \in view.rows}
               db == [view EXCEPT !.rows = new]
    <2>1. t.id \in Ids
      BY <1>6 DEF Items, ItemsWith
    <2>2. new \subseteq Rows /\ \A r \in new : IsTrue(r)
      BY <1>3, <1>4, <2>1
    <2>3. view \in [rows : SUBSET Rows, seq : Nat]
      BY DEF DataOK, Databases
    <2> HIDE DEF new
    <2>4. db \in TrueDatabases
      BY <2>2, <2>3 DEF TrueDatabases, Databases
    <2>5. Write(db) /\ _pThumbTransaction' = [Prepared EXCEPT !.update = t.image]
      BY <1>2, <1>6 DEF Save, UpdateThumb, new
    <2> HIDE DEF db
    <2>6. view' \in TrueDatabases /\ stored' \in TrueDatabases
      BY <1>4, <2>4, <2>5 DEF Write
    <2>7. _pThumbTransaction' \in Transactions
      BY <1>1, <2>5, TransactionFacts DEF Transactions
    <2>8. QED
      BY <2>6, <2>7
  <1>7. QED
    BY <1>5, <1>6

LEMMA DataStep == IInv /\ [Next]_vars => DataOK'
  <1> SUFFICES ASSUME IInv, [Next]_vars PROVE DataOK'
    OBVIOUS
  <1>0. DataOK /\ QueueOK
    BY DEF IInv
  <1>1. view \in TrueDatabases /\ stored \in TrueDatabases
    BY <1>0 DEF DataOK, TrueDatabases, RowsAreTrue
  <1>2. CASE UNCHANGED <<_pThumbTransaction, view, stored>>
    BY <1>0, <1>2 DEF DataOK, RowsAreTrue, IsTrue
  <1>3. CASE OpenDatabase \/ CreateDatabase \/ WriteFile \/ UNCHANGED vars
    BY <1>2, <1>3 DEF OpenDatabase, CreateDatabase, WriteFile, vars, database
  <1>4. CASE Crash \/ Quit
    <2>1. _pThumbTransaction' = NoTransaction /\ view' = stored /\ stored' = stored
      BY <1>4 DEF Crash, Quit, Gone
    <2>2. NoTransaction \in Transactions
      BY DEF NoTransaction, Transactions
    <2>3. QED
      BY <1>1, <2>1, <2>2, DataAgain
  <1>5. ASSUME NEW c \in Clients,
               \/ BeginLoad(c) \/ FindInQueue(c)
               \/ Decode(c) \/ QueueThumbCacheUpdate(c) \/ EndLoad(c)
        PROVE  DataOK'
    BY <1>2, <1>5 DEF BeginLoad, FindInQueue, Decode, QueueThumbCacheUpdate, EndLoad, database
  <1>6. ASSUME NEW c \in Clients, FindInDatabase(c) \/ FindThrows(c) PROVE DataOK'
    <2>1. UNCHANGED <<view, stored>>
      BY <1>6 DEF FindInDatabase, FindThrows, database
    <2>2. CASE FindInDatabase(c)
      BY <1>0, <1>1, <2>1, <2>2, TransactionFacts, DataAgain DEF FindInDatabase
    <2>3. CASE FindThrows(c)
      <3>1. _pThumbTransaction' \in Transactions
        BY <1>0, <2>3, TransactionFacts DEF FindThrows, Transactions
      <3>2. QED
        BY <1>1, <2>1, <3>1, DataAgain
    <2>4. QED
      BY <1>6, <2>2, <2>3
  <1>7. CASE SyncCache \/ TestExit \/ Wake \/ GetNextUpdateThumbnails \/ BeginTransaction
    BY <1>2, <1>7 DEF SyncCache, TestExit, Wake, GetNextUpdateThumbnails, BeginTransaction, database
  <1>8. CASE UpdateThumbInCache
    <2>1. PICK t \in thumbList : Save(t) \/ SaveFails \/ SaveUnprepared
      BY <1>8 DEF UpdateThumbInCache
    <2>2. CASE Save(t)
      <3>1. t \in Items /\ IsTrue(t)
        BY <1>0 DEF QueueOK
      <3>2. QED
        BY <1>0, <2>2, <3>1, SavedFacts, DataAgain
    <2>3. CASE SaveFails
      <3>1. Dangling \in Transactions
        BY DEF Dangling, NoTransaction, Transactions
      <3>2. QED
        BY <1>1, <2>3, <3>1, DataAgain DEF SaveFails, RollBack
    <2>4. CASE SaveUnprepared
      BY <1>0, <1>1, <2>4, TransactionFacts, DataAgain DEF SaveUnprepared
    <2>5. QED
      BY <2>1, <2>2, <2>3, <2>4
  <1>9. CASE Commit
    BY <1>0, <1>1, <1>9, DataAgain DEF Commit, RollBack, DataOK
  <1>10. CASE OnClear \/ OnCompact \/ OnResize \/ OnDestroy
    BY <1>2, <1>10 DEF OnClear, OnCompact, OnResize, OnDestroy, Command, database
  <1>11. CASE Clear
    <2>1. [view EXCEPT !.rows = {}] \in TrueDatabases
      BY <1>0 DEF DataOK, TrueDatabases, Databases
    <2>2. _pThumbTransaction' \in Transactions
      BY <1>0, <1>11, TransactionFacts DEF Clear
    <2>3. QED
      BY <1>1, <1>11, <2>1, <2>2, DataAgain DEF Clear, Write
  <1>12. CASE Vacuum
    BY <1>0, <1>1, <1>12, TransactionFacts, DataAgain DEF Vacuum, database
  <1>13. CASE Close
    BY <1>0, <1>1, <1>13, TransactionFacts, DataAgain DEF Close, RollBack
  <1>14. CASE DropQueue \/ StopThread
    BY <1>2, <1>14 DEF DropQueue, StopThread, database
  <1>15. QED
    BY <1>3, <1>4, <1>5, <1>6, <1>7, <1>8, <1>9, <1>10, <1>11, <1>12, <1>13, <1>14, NextCases

\* The UI thread takes the steps of its command one by one.
LEMMA DoFacts ==
  ASSUME RestOK, NEW command, Do(command)
  PROVE  ui' \in Seq({"clear", "vacuum", "drop", "stop", "close"})
  BY DEF RestOK, Do

LEMMA CommandFacts ==
  LET S == Seq({"clear", "vacuum", "drop", "stop", "close"})
  IN  /\ <<>> \in S
      /\ <<"clear">> \in S
      /\ <<"vacuum">> \in S
      /\ <<"clear", "vacuum">> \in S
      /\ <<"drop", "stop", "close">> \in S
  OBVIOUS

\* The rest of the state, one variable after the other: what a step may make of it.
LEMMA RestStep == IInv /\ [Next]_vars => RestOK'
  <1> SUFFICES ASSUME RestOK, [Next]_vars PROVE RestOK'
    BY DEF IInv
  <1> USE DEF RestOK, vars, OpenDatabase, CreateDatabase, Crash, Quit, Gone, WriteFile, BeginLoad,
       FindInQueue, FindInDatabase, FindThrows, Decode, QueueThumbCacheUpdate, EndLoad, SyncCache,
       TestExit, Wake, GetNextUpdateThumbnails, BeginTransaction, UpdateThumbInCache, Commit,
       OnClear, OnCompact, OnResize, OnDestroy, Clear, Vacuum, DropQueue, StopThread, Close
  <1>1. size' \in Sizes
    BY NextCases DEF files
  <1>2. phase' \in {"down", "opened", "up"}
    BY NextCases DEF Command
  <1>3. pc' \in {"test", "wait", "take", "begin", "save", "ended"}
    BY NextCases DEF writer, Command
  <1>4. _event' \in BOOLEAN
    BY NextCases DEF queue, Command
  <1>5. _eventExit' \in BOOLEAN
    BY NextCases DEF ends, Command
  <1>6. _bExit' \in BOOLEAN
    BY NextCases DEF ends, Command
  <1>7. _db' \in BOOLEAN
    BY NextCases DEF database, Command
  <1>8. isFile' \in BOOLEAN
    BY NextCases DEF database, Command
  <1>9. isTable' \in BOOLEAN
    BY NextCases DEF database, Command
  <1>10. needsCreate' \in BOOLEAN
    BY NextCases DEF database, Command
  <1>11. inTransaction' \in BOOLEAN
    BY NextCases DEF database, Command, Save, SaveFails, SaveUnprepared, RollBack
  <1>12. undisturbed' \in BOOLEAN
    BY NextCases DEF bounds, Command, Fails, Save, SaveFails, SaveUnprepared
  <1>13. ui' \in Seq({"clear", "vacuum", "drop", "stop", "close"})
    <2>1. CASE OnClear \/ OnCompact \/ OnResize \/ OnDestroy
      BY <2>1, CommandFacts DEF Command
    <2>2. CASE Clear \/ Vacuum \/ DropQueue \/ StopThread \/ Close
      BY <2>2, DoFacts
    <2>3. CASE Crash \/ Quit
      BY <2>3, CommandFacts
    <2>4. CASE UNCHANGED ui
      BY <2>4
    <2>5. QED
      BY <2>1, <2>2, <2>3, <2>4, NextCases
  <1>14. ops' \in 0 .. MaxOps
    <2>1. CASE Operation
      BY <2>1 DEF Operation
    <2>2. CASE UNCHANGED ops
      BY <2>2
    <2>3. QED
      BY <2>1, <2>2, NextCases DEF bounds, Command
  <1>15. fails' \in 0 .. MaxFails
    <2>1. CASE Fails
      BY <2>1 DEF Fails
    <2>2. CASE UNCHANGED fails
      BY <2>2
    <2>3. QED
      BY <2>1, <2>2, NextCases DEF bounds, Command, Save, SaveFails, SaveUnprepared
  <1>16. QED
    BY <1>1, <1>2, <1>3, <1>4, <1>5, <1>6, <1>7, <1>8, <1>9, <1>10, <1>11, <1>12, <1>13, <1>14, <1>15

\* The parts are kept together.
THEOREM CacheInvariant == Spec => []IInv
  <1>1. IInv /\ [Next]_vars => IInv'
    BY LoadStep, QueueStep, DataStep, RestStep DEF IInv
  <1>2. QED
    BY InitIInv, <1>1, PTL DEF Spec

\* Type correctness of the cache, its threads and its database.
THEOREM CacheTypeCorrect == Spec => []TypeOK
  <1>1. IInv => TypeOK
    BY DEF IInv, LoadOK, QueueOK, DataOK, RestOK, TypeOK
  <1>2. QED
    BY CacheInvariant, <1>1, PTL

\* ThumbTransaction keeps the rows of the database true, before and after a
\* crash, whatever fails and whichever key an item carries.
THEOREM RowsStayTrue == Spec => []RowsAreTrue
  <1>1. IInv => RowsAreTrue
    BY DEF IInv, DataOK
  <1>2. QED
    BY CacheInvariant, <1>1, PTL

\* ThumbTransaction::Find never hands out a picture older than the listing.
THEOREM FoundIsFresh == Spec => []FoundIsNotOlder
  <1>1. IInv => FoundIsNotOlder
    BY DEF IInv, LoadOK, FoundIsNotOlder
  <1>2. QED
    BY CacheInvariant, <1>1, PTL

\* A thumbnail the decoding thread has queued is taken, or a wake-up is set or
\* still to come: the auto-reset event loses none.
THEOREM NothingQueuedIsForgotten == Spec => []QueuedIsRemembered
  <1>1. IInv => QueuedIsRemembered
    BY DEF IInv, QueueOK
  <1>2. QED
    BY CacheInvariant, <1>1, PTL
=============================================================================
