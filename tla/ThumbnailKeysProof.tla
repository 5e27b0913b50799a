-------------------------- MODULE ThumbnailKeysProof --------------------------
(***************************************************************************)
(* Proofs about the keys of ThumbnailCache, for every set of files and     *)
(* every bound: while no call fails, a key that was read long ago is still *)
(* the key of a row of the same file, or of none; and what is taken from   *)
(* the queue gets its row.                                                 *)
(***************************************************************************)
EXTENDS ThumbnailCacheProof

\* No call has failed, at least since the program was started.
Calm == fails = 0 \/ undisturbed

\* The items whose keys may still be used.
Busy == {c \in Clients : step[c] # "idle"}
Carried == {load[c].item : c \in Busy} \cup _itemsToUpdate \cup thumbList

\* A program that is not running carries no key and has no statement.
DownOK ==
  phase = "down" => /\ ~_db /\ ~inTransaction /\ Carried = {} /\ view = stored
                    /\ pc = "test" /\ ui = <<>> /\ _pThumbTransaction = NoTransaction

\* The prepared statements are those of the open database.
StatementsOK ==
  Calm => /\ _pThumbTransaction.state \in {"none", "ready"}
          /\ ~_pThumbTransaction.findFailed
          /\ _pThumbTransaction.state = "ready" => _db

\* A key names one file, in the database as the connection sees it and as it is stored,
\* and is never given twice.
OneFile(rows, others) == \A r \in rows, s \in others : r.id = s.id => r.file = s.file
KeysOK ==
  fails = 0 =>
    /\ stored.seq <= view.seq
    /\ \A r \in view.rows : r.id <= view.seq
    /\ \A r \in stored.rows : r.id <= stored.seq
    /\ OneFile(view.rows, view.rows) /\ OneFile(view.rows, stored.rows) /\ OneFile(stored.rows, stored.rows)

\* A key that is carried is that of a row of the same file, if of any.  (Closing rolls the
\* open transaction back under the items, but then nothing can be saved any more.)
CarriedOK ==
  fails = 0 /\ _db => \A t \in Carried : t.id <= view.seq /\ OneFile({t}, view.rows)

\* As long as nothing is cleared the row is there, and a batch has its transaction.
BatchOK ==
  undisturbed /\ _db => /\ pc = "save" => inTransaction
                        /\ \A t \in Carried : t.id # NoId => \E r \in view.rows : r.id = t.id

Keys == DownOK /\ StatementsOK /\ KeysOK /\ CarriedOK /\ BatchOK

LEMMA InitKeys == Init => Keys
<1> SUFFICES ASSUME Init PROVE Keys
  OBVIOUS
<1>1. Carried = {}
  BY DEF Init, Carried, Busy
<1>2. DownOK
  BY <1>1 DEF Init, DownOK
<1>3. StatementsOK
  BY DEF Init, StatementsOK, NoTransaction
<1>4. KeysOK
  BY DEF Init, KeysOK, OneFile
<1>5. CarriedOK /\ BatchOK
  BY <1>1 DEF Init, CarriedOK, BatchOK
<1> QED BY <1>2, <1>3, <1>4, <1>5 DEF Keys

(***************************************************************************)
(* What a step may do to the keys that are carried, to the statements and  *)
(* to the two databases.                                                   *)
(***************************************************************************)
\* Only a new program makes up for a call that failed.
LEMMA CalmFacts ==
  ASSUME RestOK, [Next]_vars
  PROVE  /\ fails' = 0 => fails = 0
         /\ undisturbed' => undisturbed \/ Crash \/ Quit
         /\ Calm' => Calm \/ Crash \/ Quit
<1> USE DEF vars, OpenDatabase, CreateDatabase, Crash, Quit, Gone, WriteFile, BeginLoad,
     FindInQueue, FindInDatabase, FindThrows, Decode, QueueThumbCacheUpdate, EndLoad, SyncCache,
     TestExit, Wake, GetNextUpdateThumbnails, BeginTransaction, UpdateThumbInCache, Commit,
     OnClear, OnCompact, OnResize, OnDestroy, Clear, Vacuum, DropQueue, StopThread, Close,
     bounds, Command, Fails, Save, SaveFails, SaveUnprepared
<1>1. fails' = 0 => fails = 0
  <2>1. fails \in Nat
    BY DEF RestOK
  <2>2. fails' = fails \/ fails' = fails + 1
    BY NextCases
  <2> QED BY <2>1, <2>2
<1>2. undisturbed' => undisturbed \/ Crash \/ Quit
  BY NextCases
<1> QED BY <1>1, <1>2 DEF Calm

\* A key is new to an item only if it is none, or that of a row of its file just read.
KeyComesFrom(t, items) ==
  \/ t.id = NoId
  \/ \E u \in items : u.id = t.id /\ u.file = t.file
  \/ _db /\ \E r \in view.rows : r.id = t.id /\ r.file = t.file

LEMMA CarriedAgain ==
  ASSUME UNCHANGED <<step, load, _itemsToUpdate, thumbList>>
  PROVE  Carried' = Carried
  BY DEF Carried, Busy

\* A load that goes on with another item in hand.
LEMMA CarriedSetLoad ==
  ASSUME NEW c \in Clients, NEW where, NEW l, LoadOK, SetLoad(c, where, l),
         UNCHANGED <<_itemsToUpdate, thumbList>>
  PROVE  \A t \in Carried' : t \in Carried \/ t = l.item
<1>1. SUFFICES ASSUME NEW d \in Clients, step'[d] # "idle"
               PROVE  load'[d].item \in Carried \/ load'[d].item = l.item
  BY DEF Carried, Busy
<1>2. CASE d = c
  BY <1>2 DEF SetLoad, LoadOK
<1>3. CASE d # c
  BY <1>1, <1>3 DEF SetLoad, LoadOK, Carried, Busy
<1> QED BY <1>2, <1>3

LEMMA InHand ==
  ASSUME NEW c \in Clients, step[c] # "idle", LoadOK
  PROVE  load[c].item \in Carried /\ load[c] \in Loads
  BY DEF Carried, Busy, LoadOK

\* What Prepared gives while no call has failed.
LEMMA PreparedFacts ==
  ASSUME Calm, StatementsOK
  PROVE  /\ Prepared.state \in {"none", "ready"} /\ ~Prepared.findFailed
         /\ Prepared.state = "ready" => _db
         /\ _db /\ isTable => Prepared.state = "ready"
  BY DEF Prepared, StatementsOK, NewTransaction, NoTransaction

LEMMA CarriedStep ==
  ASSUME IInv, Keys, Calm, [Next]_vars, NEW t \in Carried'
  PROVE  KeyComesFrom(t, Carried)
<1>0. LoadOK /\ QueueOK /\ DataOK
  BY DEF IInv
<1>1. CASE \/ UNCHANGED vars \/ OpenDatabase \/ CreateDatabase \/ WriteFile \/ SyncCache \/ TestExit \/ Wake
           \/ OnClear \/ OnCompact \/ OnResize \/ OnDestroy \/ Clear \/ Vacuum \/ StopThread \/ Close \/ Commit
  <2>1. UNCHANGED <<step, load, _itemsToUpdate, thumbList>>
    BY <1>1 DEF vars, loads, queue, writer, OpenDatabase, CreateDatabase, WriteFile, SyncCache, TestExit, Wake,
       OnClear, OnCompact, OnResize, OnDestroy, Command, Clear, Vacuum, StopThread, Close, Commit
  <2> QED BY <2>1, CarriedAgain DEF KeyComesFrom
<1>2. CASE Crash \/ Quit
  <2>1. Carried' = {}
    BY <1>2 DEF Crash, Quit, Gone, Carried, Busy
  <2> QED BY <2>1
<1>3. CASE GetNextUpdateThumbnails \/ BeginTransaction \/ UpdateThumbInCache \/ DropQueue
  <2>1. /\ UNCHANGED <<step, load>>
        /\ _itemsToUpdate' \cup thumbList' \subseteq _itemsToUpdate \cup thumbList
    BY <1>3 DEF GetNextUpdateThumbnails, BeginTransaction, UpdateThumbInCache, DropQueue, loads, queue, writer
  <2>2. Carried' \subseteq Carried
    BY <2>1 DEF Carried, Busy
  <2> QED BY <2>2 DEF KeyComesFrom
<1>4. ASSUME NEW c \in Clients, BeginLoad(c) PROVE KeyComesFrom(t, Carried)
  <2>1. \E f \in Files : \E w \in 1 .. disk[f] : \E where \in {"find", "decode"}, s \in Sizes :
          SetLoad(c, where, [item |-> [file |-> f, written |-> w, id |-> NoId, image |-> NoImage,
                                       by |-> c], size |-> s, from |-> "nowhere"])
    BY <1>4 DEF BeginLoad, IInv, RestOK
  <2>a. PICK f \in Files, w \in Nat, where \in {"find", "decode"}, s \in Sizes :
          SetLoad(c, where, [item |-> [file |-> f, written |-> w, id |-> NoId, image |-> NoImage,
                                       by |-> c], size |-> s, from |-> "nowhere"])
    BY <2>1
  <2> DEFINE l == [item |-> [file |-> f, written |-> w, id |-> NoId, image |-> NoImage,
                             by |-> c], size |-> s, from |-> "nowhere"]
  <2>b. l.item.id = NoId
    OBVIOUS
  <2> HIDE DEF l
  <2>2. t \in Carried \/ t = l.item
    BY <1>0, <1>4, <2>a, CarriedSetLoad DEF BeginLoad, queue, writer, l
  <2> QED BY <2>b, <2>2 DEF KeyComesFrom
<1>5. ASSUME NEW c \in Clients, step[c] # "idle", UNCHANGED <<_itemsToUpdate, thumbList>>,
             NEW where, NEW id \in {NoId} \cup Ids,
             SetLoad(c, where, Known(load[c], id)),
             id = NoId \/ (_db /\ \E r \in view.rows : r.id = id /\ r.file = load[c].item.file)
      PROVE  KeyComesFrom(t, Carried)
  <2>1. t \in Carried \/ t = Known(load[c], id).item
    BY <1>0, <1>5, CarriedSetLoad
  <2>2. load[c] \in Loads
    BY <1>0, <1>5, InHand
  <2>3. Known(load[c], id).item.id = id /\ Known(load[c], id).item.file = load[c].item.file
    BY <2>2, <1>5, KnownFacts
  <2> QED BY <1>5, <2>1, <2>3 DEF KeyComesFrom
<1>6. ASSUME NEW c \in Clients, step[c] # "idle", UNCHANGED <<_itemsToUpdate, thumbList>>,
             NEW where, NEW l, SetLoad(c, where, l),
             l.item.id = load[c].item.id, l.item.file = load[c].item.file
      PROVE  KeyComesFrom(t, Carried)
  <2>1. t \in Carried \/ t = l.item
    BY <1>0, <1>6, CarriedSetLoad
  <2>2. load[c].item \in Carried
    BY <1>0, <1>6, InHand
  <2> QED BY <1>6, <2>1, <2>2 DEF KeyComesFrom
<1>7. ASSUME NEW c \in Clients, FindInQueue(c) PROVE KeyComesFrom(t, Carried)
  <2>1. step[c] # "idle" /\ UNCHANGED <<_itemsToUpdate, thumbList>>
    BY <1>7 DEF FindInQueue, queue, writer
  <2>2. PICK s \in Items : SetLoad(c, "done", Got(load[c], s.image, "queue"))
    BY <1>0, <1>7 DEF FindInQueue, Same, QueueOK
  <2>3. s.image \in Images \cup {NoImage} /\ load[c] \in Loads
    BY <1>0, <2>1, InHand DEF Items, ItemsWith
  <2> QED BY <1>6, <2>1, <2>2, <2>3, GotFacts
<1>8. ASSUME NEW c \in Clients, FindInDatabase(c) PROVE KeyComesFrom(t, Carried)
  <2>1. step[c] # "idle" /\ UNCHANGED <<_itemsToUpdate, thumbList>> /\ _db
    BY <1>8, PreparedFacts DEF FindInDatabase, queue, writer, Keys
  <2>2. \A r \in view.rows : r \in Rows /\ r.id \in Ids
    BY <1>0 DEF DataOK, Databases, Rows
  <2>3. CASE \E id \in LastId(RowsOf(load[c].item.file)) : SetLoad(c, "decode", Known(load[c], id))
    <3>1. PICK id \in LastId(RowsOf(load[c].item.file)) : SetLoad(c, "decode", Known(load[c], id))
      BY <2>3
    <3>2. id = NoId \/ \E r \in view.rows : r.id = id /\ r.file = load[c].item.file
      BY DEF LastId, RowsOf
    <3> QED BY <1>5, <2>1, <2>2, <3>1, <3>2
  <2>4. CASE \E r \in view.rows : /\ r.file = load[c].item.file
                                  /\ SetLoad(c, "done", Got(Known(load[c], r.id), r.image, "database"))
    <3>1. PICK r \in view.rows : /\ r.file = load[c].item.file
                                 /\ SetLoad(c, "done", Got(Known(load[c], r.id), r.image, "database"))
      BY <2>4
    <3> DEFINE k == Known(load[c], r.id)
               l == Got(k, r.image, "database")
    <3>2. load[c] \in Loads /\ r.id \in {NoId} \cup Ids /\ r.image \in Images \cup {NoImage}
      BY <1>0, <2>1, <2>2, InHand DEF Rows
    <3>3. k \in Loads /\ k.item.id = r.id /\ k.item.file = load[c].item.file
      BY <3>2, KnownFacts
    <3> HIDE DEF k
    <3>4. l.item.id = r.id /\ l.item.file = load[c].item.file
      BY <3>2, <3>3, GotFacts
    <3>5. SetLoad(c, "done", l)
      BY <3>1 DEF k
    <3> HIDE DEF l
    <3>6. t \in Carried \/ t = l.item
      BY <1>0, <2>1, <3>5, CarriedSetLoad
    <3> QED BY <2>1, <3>1, <3>4, <3>6 DEF KeyComesFrom
  <2> QED BY <1>8, <2>3, <2>4 DEF FindInDatabase, RowsOf
<1>9. ASSUME NEW c \in Clients, FindThrows(c) PROVE KeyComesFrom(t, Carried)
  <2>1. step[c] # "idle" /\ UNCHANGED <<_itemsToUpdate, thumbList>>
    BY <1>9 DEF FindThrows, queue, writer
  <2>2. \A r \in view.rows : r \in Rows /\ r.id \in Ids
    BY <1>0 DEF DataOK, Databases, Rows
  <2>3. CASE SetLoad(c, "decode", load[c])
    BY <1>6, <2>1, <2>3
  <2>4. CASE /\ _db
             /\ \E id \in {NoId} \cup {r.id : r \in RowsOf(load[c].item.file)} : SetLoad(c, "decode", Known(load[c], id))
    <3>1. PICK id \in {NoId} \cup {r.id : r \in RowsOf(load[c].item.file)} : SetLoad(c, "decode", Known(load[c], id))
      BY <2>4
    <3>2. id = NoId \/ \E r \in view.rows : r.id = id /\ r.file = load[c].item.file
      BY DEF RowsOf
    <3> QED BY <1>5, <2>1, <2>2, <2>4, <3>1, <3>2
  <2> QED BY <1>9, <2>3, <2>4, PreparedFacts DEF FindThrows, Keys
<1>10. ASSUME NEW c \in Clients, Decode(c) PROVE KeyComesFrom(t, Carried)
  <2>1. step[c] # "idle" /\ UNCHANGED <<_itemsToUpdate, thumbList>>
    BY <1>10 DEF Decode, queue, writer
  <2> DEFINE image == [of |-> load[c].item.file, time |-> disk[load[c].item.file], size |-> load[c].size]
             l == Got(load[c], image, "file")
  <2>2. CASE SetLoad(c, "done", load[c])
    BY <1>6, <2>1, <2>2
  <2>3. CASE \E where \in {"queue", "done"} : SetLoad(c, where, l)
    <3>1. load[c] \in Loads
      BY <1>0, <2>1, InHand
    <3>2. image \in Images \cup {NoImage}
      BY <1>0, <3>1, <2>1 DEF Loads, ItemsWith, Images, LoadOK
    <3> HIDE DEF image
    <3>3. l.item.id = load[c].item.id /\ l.item.file = load[c].item.file
      BY <3>1, <3>2, GotFacts
    <3> HIDE DEF l
    <3> QED BY <1>6, <2>1, <2>3, <3>3
  <2> QED BY <1>10, <2>2, <2>3 DEF Decode
<1>11. ASSUME NEW c \in Clients, QueueThumbCacheUpdate(c) PROVE KeyComesFrom(t, Carried)
  <2>1. /\ step[c] # "idle" /\ SetLoad(c, "done", load[c]) /\ thumbList' = thumbList
        /\ _itemsToUpdate' \subseteq _itemsToUpdate \cup {load[c].item}
    BY <1>11 DEF QueueThumbCacheUpdate, writer
  <2>2. load[c].item \in Carried
    BY <1>0, <2>1, InHand
  <2>3. UNCHANGED <<load>> /\ \A d \in Clients : step'[d] # "idle" => step[d] # "idle"
    BY <1>0, <2>1 DEF SetLoad, LoadOK
  <2>4. Carried' \subseteq Carried
    BY <2>1, <2>2, <2>3 DEF Carried, Busy
  <2> QED BY <2>4 DEF KeyComesFrom
<1>12. ASSUME NEW c \in Clients, EndLoad(c) PROVE KeyComesFrom(t, Carried)
  <2>1. SetLoad(c, "idle", NoLoad) /\ UNCHANGED <<_itemsToUpdate, thumbList>>
    BY <1>12 DEF EndLoad, queue, writer
  <2>2. \A d \in Clients : step'[d] # "idle" => step[d] # "idle" /\ load'[d] = load[d]
    BY <1>0, <2>1 DEF SetLoad, LoadOK
  <2>3. Carried' \subseteq Carried
    BY <2>1, <2>2 DEF Carried, Busy
  <2> QED BY <2>3 DEF KeyComesFrom
<1> QED
  BY <1>1, <1>2, <1>3, <1>4, <1>7, <1>8, <1>9, <1>10, <1>11, <1>12, NextCases


LEMMA FailsFacts ==
  ASSUME RestOK, Fails
  PROVE  ~Calm'
  BY DEF RestOK, Fails, Calm

\* While no call has failed, closing the statements leaves none.
LEMMA ClosedFacts ==
  ASSUME Calm, StatementsOK
  PROVE  \A outcome \in CloseOutcomes : outcome.now = NoTransaction /\ ~outcome.threw
  BY DEF CloseOutcomes, StatementsOK

\* Nothing happens to a program that is not running but that it is started.
LEMMA DownSteps ==
  ASSUME DownOK, LoadOK, phase = "down", [Next]_vars
  PROVE  OpenDatabase \/ WriteFile \/ SyncCache \/ UNCHANGED vars
<1>1. \A c \in Clients : step[c] = "idle"
  BY DEF DownOK, Carried, Busy
<1>2. pc = "test" /\ ui = <<>> /\ ~Running
  BY DEF DownOK, Running
<1> QED
  BY <1>1, <1>2, NextCases DEF CreateDatabase, Crash, Quit, BeginLoad, FindInQueue, FindInDatabase,
     FindThrows, Decode, QueueThumbCacheUpdate, EndLoad, TestExit, Wake, GetNextUpdateThumbnails,
     BeginTransaction, UpdateThumbInCache, Commit, OnClear, OnCompact, OnResize, OnDestroy, Command,
     Clear, Vacuum, DropQueue, StopThread, Close, Do

LEMMA DownStep ==
  ASSUME IInv, DownOK, [Next]_vars
  PROVE  DownOK'
<1> SUFFICES ASSUME phase' = "down"
             PROVE  /\ ~_db' /\ ~inTransaction' /\ Carried' = {} /\ view' = stored'
                    /\ pc' = "test" /\ ui' = <<>> /\ _pThumbTransaction' = NoTransaction
  BY DEF DownOK
<1>1. CASE Crash \/ Quit
  <2>1. Carried' = {}
    BY <1>1 DEF Crash, Quit, Gone, Carried, Busy
  <2> QED BY <1>1, <2>1 DEF Crash, Quit, Gone
<1>2. CASE phase = "down"
  <2>1. WriteFile \/ SyncCache \/ UNCHANGED vars
    BY <1>2, DownSteps DEF IInv, OpenDatabase
  <2>2. UNCHANGED <<step, load, _itemsToUpdate, thumbList>>
    BY <2>1 DEF vars, loads, queue, writer, WriteFile, SyncCache
  <2>3. UNCHANGED <<_db, inTransaction, view, stored, pc, ui, _pThumbTransaction>>
    BY <2>1 DEF vars, writer, database, WriteFile, SyncCache
  <2> QED BY <1>2, <2>2, <2>3, CarriedAgain DEF DownOK
<1>3. phase = "down" \/ Crash \/ Quit
  BY NextCases DEF OpenDatabase, CreateDatabase, WriteFile, BeginLoad, FindInQueue, FindInDatabase,
     FindThrows, Decode, QueueThumbCacheUpdate, EndLoad, SyncCache, TestExit, Wake,
     GetNextUpdateThumbnails, BeginTransaction, UpdateThumbInCache, Commit, OnClear, OnCompact,
     OnResize, OnDestroy, Command, Clear, Vacuum, DropQueue, StopThread, Close, vars
<1> QED BY <1>1, <1>2, <1>3

LEMMA StatementsStep ==
  ASSUME IInv, Keys, [Next]_vars
  PROVE  StatementsOK'
<1> SUFFICES ASSUME Calm'
             PROVE  /\ _pThumbTransaction'.state \in {"none", "ready"}
                    /\ ~_pThumbTransaction'.findFailed
                    /\ _pThumbTransaction'.state = "ready" => _db'
  BY DEF StatementsOK
<1> DEFINE Goal == /\ _pThumbTransaction'.state \in {"none", "ready"}
                   /\ ~_pThumbTransaction'.findFailed
                   /\ _pThumbTransaction'.state = "ready" => _db'
<1>0. NoTransaction.state = "none" /\ ~NoTransaction.findFailed
  BY DEF NoTransaction
<1>1. CASE Crash \/ Quit
  BY <1>0, <1>1 DEF Crash, Quit, Gone
<1>2. CASE ~(Crash \/ Quit)
  <2>1. Calm /\ RestOK /\ DataOK
    BY <1>2, CalmFacts DEF IInv
  <2>2. /\ Prepared.state \in {"none", "ready"} /\ ~Prepared.findFailed /\ Prepared \in Transactions
        /\ Prepared.state = "ready" => _db
    BY <2>1, PreparedFacts, TransactionFacts DEF Keys
  <2>3. /\ \A outcome \in CloseOutcomes : outcome.now = NoTransaction
        /\ ~Fails
    BY <2>1, ClosedFacts, FailsFacts DEF Keys
  <2>4. CASE UNCHANGED <<_pThumbTransaction, _db>>
    BY <2>1, <2>4 DEF Keys, StatementsOK
  <2>5. CASE OpenDatabase
    BY <1>0, <2>5 DEF OpenDatabase, Keys, DownOK
  <2>6. ASSUME NEW c \in Clients, FindInDatabase(c) \/ FindThrows(c) PROVE Goal
    BY <2>2, <2>3, <2>6 DEF FindInDatabase, FindThrows, database, Transactions
  <2>7. CASE UpdateThumbInCache
    <3>1. PICK t \in thumbList : Save(t) \/ SaveUnprepared
      BY <2>3, <2>7 DEF UpdateThumbInCache, SaveFails
    <3>2. _db' = _db
      BY <2>7 DEF UpdateThumbInCache
    <3>3. CASE Save(t)
      BY <2>2, <3>2, <3>3 DEF Save, InsertThumb, UpdateThumb, Transactions
    <3>4. CASE SaveUnprepared
      BY <1>0, <2>3, <3>4 DEF SaveUnprepared
    <3> QED BY <3>1, <3>3, <3>4
  <2>8. CASE Clear \/ Vacuum \/ Close
    BY <1>0, <2>3, <2>8 DEF Clear, Vacuum, Close
  <2> QED
    BY <1>2, <2>4, <2>5, <2>6, <2>7, <2>8, NextCases DEF vars, database, CreateDatabase, WriteFile,
       BeginLoad, FindInQueue, Decode, QueueThumbCacheUpdate, EndLoad, SyncCache, TestExit, Wake,
       GetNextUpdateThumbnails, BeginTransaction, Commit, OnClear, OnCompact, OnResize, OnDestroy,
       Command, DropQueue, StopThread
<1> QED BY <1>1, <1>2

(***************************************************************************)
(* The keys.                                                               *)
(***************************************************************************)
\* What is written comes from what was there: no key changes its file, and a new key is
\* the next of the sequence.
Follows ==
  /\ view'.seq \in {view.seq, view.seq + 1}
  /\ \E f : \A r \in view'.rows :
       \/ \E s \in view.rows : s.id = r.id /\ s.file = r.file
       \/ view'.seq = view.seq + 1 /\ r.id = view'.seq /\ r.file = f
  /\ stored' \in {stored, view, view'}

\* What a thumbnail that is saved makes of the rows.
SavedRows(t) ==
  IF t.id = NoId
    THEN [rows |-> view.rows \cup {Row(view.seq + 1, t, t.image)}, seq |-> view.seq + 1]
    ELSE [rows |-> {IF r.id = t.id THEN Row(t.id, t, t.image) ELSE r : r \in view.rows},
          seq |-> view.seq]

LEMMA SavedView ==
  ASSUME DataOK, NEW t \in Items, IsTrue(t), Save(t)
  PROVE  view' = SavedRows(t) /\ stored' \in {stored, view'}
<1>1. t.image # NoImage
  BY DEF Items, ItemsWith, Images, NoImage
<1>2. \A last : Bound(last, t) = t.image
  BY <1>1 DEF Bound
<1>3. CASE t.id = NoId
  BY <1>2, <1>3 DEF Save, InsertThumb, Write, SavedRows
<1>4. CASE t.id # NoId
  <2> DEFINE new == {IF r.id = t.id THEN Row(t.id, t, t.image) ELSE r : r \in view.rows}
  <2>1. Write([view EXCEPT !.rows = new])
    BY <1>2, <1>4 DEF Save, UpdateThumb
  <2> HIDE DEF new
  <2>2. [view EXCEPT !.rows = new] = [rows |-> new, seq |-> view.seq]
    BY DEF DataOK, Databases
  <2> QED BY <1>4, <2>1, <2>2 DEF Write, SavedRows, new
<1> QED BY <1>3, <1>4

LEMMA SavedFollows ==
  ASSUME DataOK, NEW t \in Items, IsTrue(t), Save(t), OneFile({t}, view.rows)
  PROVE  Follows
<1>1. view' = SavedRows(t) /\ stored' \in {stored, view'} /\ t.file \in Files
  BY SavedView DEF Items, ItemsWith
<1>2. CASE t.id = NoId
  BY <1>1, <1>2 DEF SavedRows, Follows, Row
<1>3. CASE t.id # NoId
  BY <1>1, <1>3 DEF SavedRows, Follows, Row, OneFile
<1> QED BY <1>2, <1>3

\* While no call fails, the database follows what it was, or is rolled back and closed.
LEMMA DataCases ==
  ASSUME IInv, Keys, [Next]_vars, Calm'
  PROVE  \/ UNCHANGED <<view, stored>>
         \/ view' = stored /\ stored' = stored /\ ~_db'
         \/ inTransaction /\ view' = view /\ stored' = view
         \/ ~undisturbed' /\ view' = [view EXCEPT !.rows = {}] /\ stored' \in {stored, view'}
         \/ pc = "save" /\ _db /\ \E t \in thumbList : Save(t)
<1>0. ~Fails
  BY FailsFacts DEF IInv
<1>1. CASE Crash \/ Quit \/ Close
  BY <1>1 DEF Crash, Quit, Gone, Close, RollBack
<1>2. CASE Commit
  BY <1>0, <1>2 DEF Commit
<1>3. CASE Clear
  BY <1>0, <1>3 DEF Clear, Write
<1>4. CASE UpdateThumbInCache
  <2>1. PICK t \in thumbList : Save(t) \/ SaveUnprepared
    BY <1>0, <1>4 DEF UpdateThumbInCache, SaveFails
  <2>2. CASE Save(t)
    <3>1. Calm \/ Crash \/ Quit
      BY CalmFacts DEF IInv
    <3>2. CASE Calm
      BY <1>4, <2>2, <3>2, PreparedFacts DEF Keys, Save, UpdateThumbInCache
    <3> QED BY <1>1, <3>1, <3>2
  <2>3. CASE SaveUnprepared
    BY <2>3 DEF SaveUnprepared
  <2> QED BY <2>1, <2>2, <2>3
<1> QED
  BY <1>1, <1>2, <1>3, <1>4, NextCases DEF vars, database, OpenDatabase, CreateDatabase, WriteFile,
     BeginLoad, FindInQueue, FindInDatabase, FindThrows, Decode, QueueThumbCacheUpdate, EndLoad,
     SyncCache, TestExit, Wake, GetNextUpdateThumbnails, BeginTransaction, OnClear, OnCompact,
     OnResize, OnDestroy, Command, Vacuum, DropQueue, StopThread

LEMMA KeysMove ==
  ASSUME IInv, Keys, [Next]_vars, fails' = 0
  PROVE  Follows \/ (view' = stored /\ stored' = stored /\ ~_db')
<1>0. fails = 0 /\ Calm' /\ DataOK /\ QueueOK
  BY CalmFacts DEF IInv, Calm
<1>1. CASE UNCHANGED <<view, stored>> \/ (view' = view /\ stored' = view)
  BY <1>1 DEF Follows
<1>2. CASE view' = [view EXCEPT !.rows = {}] /\ stored' \in {stored, view'}
  <2>1. view'.rows = {} /\ view'.seq = view.seq
    BY <1>0, <1>2 DEF DataOK, Databases
  <2> QED BY <1>2, <2>1 DEF Follows
<1>3. CASE _db /\ \E t \in thumbList : Save(t)
  <2>1. PICK t \in thumbList : Save(t)
    BY <1>3
  <2>2. t \in Items /\ IsTrue(t)
    BY <1>0 DEF QueueOK
  <2>3. OneFile({t}, view.rows)
    BY <1>0, <1>3 DEF Keys, CarriedOK, Carried
  <2> QED BY <1>0, <2>1, <2>2, <2>3, SavedFollows
<1> QED BY <1>0, <1>1, <1>2, <1>3, DataCases

\* Keys stay keys of one file.
LEMMA KeysStep ==
  ASSUME IInv, Keys, [Next]_vars
  PROVE  KeysOK'
<1> SUFFICES ASSUME fails' = 0
             PROVE  /\ stored'.seq <= view'.seq
                    /\ \A r \in view'.rows : r.id <= view'.seq
                    /\ \A r \in stored'.rows : r.id <= stored'.seq
                    /\ OneFile(view'.rows, view'.rows) /\ OneFile(view'.rows, stored'.rows)
                    /\ OneFile(stored'.rows, stored'.rows)
  BY DEF KeysOK, OneFile
<1>0. fails = 0 /\ DataOK /\ DataOK'
  BY CalmFacts, DataStep DEF IInv
<1>1. /\ stored.seq <= view.seq
      /\ \A r \in view.rows : r.id <= view.seq
      /\ \A r \in stored.rows : r.id <= stored.seq
      /\ OneFile(view.rows, view.rows) /\ OneFile(view.rows, stored.rows)
      /\ OneFile(stored.rows, stored.rows)
  BY <1>0 DEF Keys, KeysOK
<1>2. /\ view.seq \in Nat /\ stored.seq \in Nat
      /\ \A r \in view.rows \cup stored.rows \cup view'.rows : r.id \in Nat
  BY <1>0 DEF DataOK, Databases, Rows, Ids
<1>3. CASE view' = stored /\ stored' = stored
  BY <1>1, <1>2, <1>3
<1>4. CASE Follows
  <2>1. PICK f : \A r \in view'.rows :
           \/ \E s \in view.rows : s.id = r.id /\ s.file = r.file
           \/ view'.seq = view.seq + 1 /\ r.id = view'.seq /\ r.file = f
    BY <1>4 DEF Follows
  <2>2. view'.seq \in {view.seq, view.seq + 1} /\ stored' \in {stored, view, view'}
    BY <1>4 DEF Follows
  <2>3. \A r \in view'.rows : r.id <= view'.seq
    BY <1>1, <1>2, <2>1, <2>2
  <2>4. OneFile(view'.rows, view'.rows)
    BY <1>1, <1>2, <2>1 DEF OneFile
  <2>5. OneFile(view'.rows, view.rows)
    BY <1>1, <1>2, <2>1 DEF OneFile
  <2>6. OneFile(view'.rows, stored.rows)
    <3> SUFFICES ASSUME NEW r \in view'.rows, NEW s \in stored.rows, r.id = s.id
                 PROVE  r.file = s.file
      BY DEF OneFile
    <3>1. s.id # view.seq + 1
      BY <1>1, <1>2
    <3> QED BY <1>1, <2>1, <3>1 DEF OneFile
  <2> QED BY <1>1, <1>2, <2>2, <2>3, <2>4, <2>5, <2>6
<1> QED BY <1>3, <1>4, KeysMove

LEMMA CarriedTypes ==
  ASSUME LoadOK, QueueOK, NEW t \in Carried
  PROVE  t.id \in Nat
<1>1. CASE \E c \in Busy : t = load[c].item
  BY <1>1, InHand DEF Busy, Loads, ItemsWith, Ids, NoId
<1>2. CASE t \in _itemsToUpdate \cup thumbList
  BY <1>2 DEF QueueOK, Items, ItemsWith, Ids, NoId
<1> QED BY <1>1, <1>2 DEF Carried

\* A key that is carried stays that of its file.
LEMMA CarriedKeyStep ==
  ASSUME IInv, Keys, [Next]_vars
  PROVE  CarriedOK'
<1> SUFFICES ASSUME fails' = 0, _db', NEW t \in Carried'
             PROVE  t.id <= view'.seq /\ OneFile({t}, view'.rows)
  BY DEF CarriedOK, OneFile
<1>0. fails = 0 /\ Calm /\ DataOK /\ DataOK'
  BY CalmFacts, DataStep DEF IInv, Calm
<1>1. /\ view.seq \in Nat
      /\ \A r \in view.rows \cup view'.rows : r.id \in Ids
  BY <1>0 DEF DataOK, Databases, Rows
<1>2. PICK f : \A r \in view'.rows :
           \/ \E s \in view.rows : s.id = r.id /\ s.file = r.file
           \/ view'.seq = view.seq + 1 /\ r.id = view'.seq /\ r.file = f
  BY KeysMove DEF Follows
<1>3. view'.seq \in {view.seq, view.seq + 1}
  BY KeysMove DEF Follows
<1>4. KeyComesFrom(t, Carried)
  BY <1>0, CarriedStep
<1>5. CASE t.id = NoId
  BY <1>1, <1>3, <1>5 DEF OneFile, Ids, NoId
<1>6. CASE t.id # NoId
  <2>1. _db
    <3>2. CASE OpenDatabase
      BY <1>4, <1>6, <3>2 DEF OpenDatabase, Keys, DownOK, KeyComesFrom
    <3>3. CASE UNCHANGED _db \/ _db' = FALSE
      BY <3>3
    <3> QED
      BY <3>2, <3>3, NextCases DEF vars, database, CreateDatabase, WriteFile, Crash, Quit, Gone,
         BeginLoad, FindInQueue, FindInDatabase, FindThrows, Decode, QueueThumbCacheUpdate, EndLoad,
         SyncCache, TestExit, Wake, GetNextUpdateThumbnails, BeginTransaction, UpdateThumbInCache,
         Commit, OnClear, OnCompact, OnResize, OnDestroy, Command, Clear, Vacuum, DropQueue,
         StopThread, Close
  <2>2. t.id <= view.seq /\ OneFile({t}, view.rows) /\ t.id \in Nat
    <3>1. CASE \E u \in Carried : u.id = t.id /\ u.file = t.file
      <4>1. PICK u \in Carried : u.id = t.id /\ u.file = t.file
        BY <3>1
      <4>2. u.id <= view.seq /\ OneFile({u}, view.rows)
        BY <1>0, <2>1 DEF Keys, CarriedOK
      <4>3. u.id \in Nat
        BY CarriedTypes DEF IInv
      <4> QED BY <4>1, <4>2, <4>3 DEF OneFile
    <3>2. CASE \E r \in view.rows : r.id = t.id /\ r.file = t.file
      BY <1>0, <1>1, <3>2 DEF Keys, KeysOK, OneFile, Ids
    <3> QED BY <1>4, <1>6, <3>1, <3>2 DEF KeyComesFrom
  <2>3. t.id <= view'.seq /\ t.id # view.seq + 1
    BY <1>1, <1>3, <2>2
  <2> QED BY <1>2, <2>2, <2>3 DEF OneFile
<1> QED BY <1>5, <1>6

(***************************************************************************)
(* The batches.                                                            *)
(***************************************************************************)
\* While nothing is cleared and no call fails no row is lost.
LEMMA RowsAreKept ==
  ASSUME IInv, Keys, [Next]_vars, undisturbed', _db'
  PROVE  \A r \in view.rows : \E s \in view'.rows : s.id = r.id
<1>0. Calm' /\ DataOK /\ QueueOK
  BY DEF IInv, Calm
<1>1. CASE \E t \in thumbList : Save(t)
  <2>1. PICK t \in thumbList : Save(t)
    BY <1>1
  <2>2. view' = SavedRows(t)
    BY <1>0, <2>1, SavedView DEF QueueOK
  <2>3. CASE t.id = NoId
    BY <2>2, <2>3 DEF SavedRows
  <2>4. CASE t.id # NoId
    <3> SUFFICES ASSUME NEW r \in view.rows PROVE \E s \in view'.rows : s.id = r.id
      OBVIOUS
    <3> DEFINE s == IF r.id = t.id THEN Row(t.id, t, t.image) ELSE r
    <3>1. s \in view'.rows
      BY <2>2, <2>4 DEF SavedRows
    <3>2. s.id = r.id
      BY DEF Row
    <3> QED BY <3>1, <3>2
  <2> QED BY <2>3, <2>4
<1> QED BY <1>0, <1>1, DataCases

\* Opening is the only way to have a database again.
LEMMA DatabaseSteps ==
  ASSUME [Next]_vars, _db'
  PROVE  _db \/ OpenDatabase
  BY NextCases DEF vars, database, CreateDatabase, WriteFile, Crash, Quit, Gone,
     BeginLoad, FindInQueue, FindInDatabase, FindThrows, Decode, QueueThumbCacheUpdate, EndLoad,
     SyncCache, TestExit, Wake, GetNextUpdateThumbnails, BeginTransaction, UpdateThumbInCache,
     Commit, OnClear, OnCompact, OnResize, OnDestroy, Command, Clear, Vacuum, DropQueue,
     StopThread, Close

LEMMA Undisturbed ==
  ASSUME IInv, [Next]_vars, undisturbed', _db'
  PROVE  undisturbed /\ Calm /\ ~Fails
<1>1. ~(Crash \/ Quit)
  BY DEF Crash, Quit, Gone
<1> QED BY <1>1, CalmFacts, FailsFacts DEF IInv, Calm

LEMMA BatchStep ==
  ASSUME IInv, Keys, [Next]_vars
  PROVE  BatchOK'
<1> SUFFICES ASSUME undisturbed', _db'
             PROVE  /\ pc' = "save" => inTransaction'
                    /\ \A t \in Carried' : t.id # NoId => \E r \in view'.rows : r.id = t.id
  BY DEF BatchOK
<1>0. undisturbed /\ Calm /\ ~Fails
  BY Undisturbed
<1>1. CASE OpenDatabase
  <2>1. Carried' = {} /\ pc' = "test"
    BY <1>1, CarriedAgain DEF OpenDatabase, Keys, DownOK, loads, queue, writer
  <2> QED BY <2>1
<1>2. CASE _db
  <2>1. /\ pc = "save" => inTransaction
        /\ \A t \in Carried : t.id # NoId => \E r \in view.rows : r.id = t.id
    BY <1>0, <1>2 DEF Keys, BatchOK
  <2>2. pc' = "save" => inTransaction'
    <3>1. CASE pc' = pc /\ inTransaction' = inTransaction
      BY <2>1, <3>1
    <3>2. CASE BeginTransaction
      BY <3>2 DEF BeginTransaction
    <3>5. CASE Commit
      BY <3>5 DEF Commit
    <3>3. CASE UpdateThumbInCache
      <4>1. PICK t \in thumbList : Save(t) \/ SaveFails \/ SaveUnprepared
        BY <3>3 DEF UpdateThumbInCache
      <4>2. inTransaction' = inTransaction
        BY <1>0, <4>1 DEF Save, SaveFails, SaveUnprepared
      <4>3. pc = "save"
        BY <3>3 DEF UpdateThumbInCache
      <4> QED BY <2>1, <4>2, <4>3
    <3>4. CASE pc' # "save"
      BY <3>4
    <3> QED
      BY <3>1, <3>2, <3>3, <3>4, <3>5, NextCases DEF vars, database, writer, OpenDatabase, CreateDatabase,
         WriteFile, Crash, Quit, Gone, BeginLoad, FindInQueue, FindInDatabase, FindThrows, Decode,
         QueueThumbCacheUpdate, EndLoad, SyncCache, TestExit, Wake, GetNextUpdateThumbnails,
         OnClear, OnCompact, OnResize, OnDestroy, Command, Clear, Vacuum, DropQueue, StopThread, Close
  <2>3. ASSUME NEW t \in Carried', t.id # NoId
        PROVE  \E r \in view'.rows : r.id = t.id
    <3>1. KeyComesFrom(t, Carried)
      BY <1>0, CarriedStep
    <3>2. \E r \in view.rows : r.id = t.id
      BY <2>1, <2>3, <3>1 DEF KeyComesFrom
    <3> QED BY <3>2, RowsAreKept
  <2> QED BY <2>2, <2>3
<1> QED BY <1>1, <1>2, DatabaseSteps

(***************************************************************************)
(* The theorems.                                                           *)
(***************************************************************************)
\* What is known of the cache and of its keys is kept together.
THEOREM KeysInvariant == Spec => [](IInv /\ Keys)
<1>1. Init => IInv /\ Keys
  BY InitIInv, InitKeys
<1>2. IInv /\ Keys /\ [Next]_vars => IInv' /\ Keys'
  BY LoadStep, QueueStep, DataStep, RestStep, DownStep, StatementsStep, KeysStep, CarriedKeyStep, BatchStep
     DEF IInv, Keys
<1> QED BY <1>1, <1>2, PTL DEF Spec

\* No step gives a key to another file.
LEMMA KeepsTheFile ==
  ASSUME IInv, Keys, [Next]_vars
  PROVE  fails' = 0 =>
           \A r \in view.rows, s \in view'.rows : r.id = s.id => r.file = s.file
<1> SUFFICES ASSUME fails' = 0, NEW r \in view.rows, NEW s \in view'.rows, r.id = s.id
             PROVE  r.file = s.file
  OBVIOUS
<1>1. DataOK /\ fails = 0
  BY CalmFacts DEF IInv
<1>2. r.id <= view.seq /\ r.id \in Nat /\ view.seq \in Nat
  BY <1>1 DEF Keys, KeysOK, DataOK, Databases, Rows, Ids
<1>3. OneFile(view.rows, view.rows) /\ OneFile(view.rows, stored.rows)
  BY <1>1 DEF Keys, KeysOK
<1>4. CASE Follows
  BY <1>2, <1>3, <1>4 DEF Follows, OneFile
<1>5. CASE view' = stored
  BY <1>3, <1>5 DEF OneFile
<1> QED BY <1>4, <1>5, KeysMove

\* ThumbTransaction::Update never gives the row of one file to another while no call
\* fails: whatever was cleared, closed or lost in a crash after its key was read.
THEOREM UpdatesKeepTheFile == Spec => UpdateKeepsTheFile
<1>1. IInv /\ Keys /\ [Next]_vars =>
        (fails' = 0 => \A r \in view.rows, s \in view'.rows : r.id = s.id => r.file = s.file)
  BY KeepsTheFile
<1> QED BY <1>1, KeysInvariant, PTL DEF Spec, UpdateKeepsTheFile

\* No step forgets what it takes, or ends a batch without storing it.
LEMMA SavesTheBatch ==
  ASSUME IInv, Keys, [Next]_vars
  PROVE  undisturbed' /\ _db' /\ isTable /\ pc = "save" =>
           /\ \A t \in thumbList \ thumbList' :
                \E r \in view'.rows : r.file = t.file /\ r.written = t.written /\ r.image = t.image
           /\ pc' # "save" => stored' = view
<1> SUFFICES ASSUME undisturbed', _db', isTable, pc = "save"
             PROVE  /\ \A t \in thumbList \ thumbList' :
                         \E r \in view'.rows : r.file = t.file /\ r.written = t.written /\ r.image = t.image
                    /\ pc' # "save" => stored' = view
  OBVIOUS
<1>0. undisturbed /\ Calm /\ ~Fails
  BY Undisturbed
<1>1. _db
  BY DatabaseSteps DEF OpenDatabase, Keys, DownOK
<1>2. /\ inTransaction
      /\ \A t \in Carried : t.id # NoId => \E r \in view.rows : r.id = t.id
  BY <1>0, <1>1 DEF Keys, BatchOK
<1>3. CASE UpdateThumbInCache
  <2>1. PICK t \in thumbList : thumbList' = thumbList \ {t} /\ (Save(t) \/ SaveUnprepared)
    BY <1>0, <1>3 DEF UpdateThumbInCache, SaveFails
  <2>2. Prepared.state = "ready"
    BY <1>0, <1>1, PreparedFacts DEF Keys
  <2>3. Save(t)
    BY <2>1, <2>2 DEF SaveUnprepared
  <2>4. view' = SavedRows(t)
    BY <2>3, SavedView DEF IInv, QueueOK
  <2>5. \E r \in view'.rows : r.file = t.file /\ r.written = t.written /\ r.image = t.image
    <3>1. CASE t.id = NoId
      <4>1. Row(view.seq + 1, t, t.image) \in view'.rows
        BY <2>4, <3>1 DEF SavedRows
      <4> QED BY <4>1 DEF Row
    <3>2. CASE t.id # NoId
      <4>1. PICK r \in view.rows : r.id = t.id
        BY <1>2, <3>2 DEF Carried
      <4>2. Row(t.id, t, t.image) \in view'.rows
        BY <2>4, <3>2, <4>1 DEF SavedRows
      <4> QED BY <4>2 DEF Row
    <3> QED BY <3>1, <3>2
  <2>6. pc' = "save"
    BY <1>3 DEF UpdateThumbInCache
  <2> QED BY <2>1, <2>5, <2>6
<1>4. CASE Commit
  BY <1>0, <1>2, <1>4 DEF Commit
<1>5. CASE UNCHANGED <<pc, thumbList>>
  BY <1>5
<1> QED
  BY <1>3, <1>4, <1>5, NextCases DEF vars, writer, OpenDatabase, CreateDatabase,
     WriteFile, Crash, Quit, Gone, BeginLoad, FindInQueue, FindInDatabase, FindThrows, Decode,
     QueueThumbCacheUpdate, EndLoad, SyncCache, TestExit, Wake, GetNextUpdateThumbnails,
     BeginTransaction, OnClear, OnCompact, OnResize, OnDestroy, Command, Clear, Vacuum, DropQueue,
     StopThread, Close

\* What ThumbnailCacheThread::Process takes from the queue gets its row, and the batch
\* is stored when it ends, while no call fails and nobody clears the cache.
THEOREM BatchesAreSaved == Spec => SavedUnlessDisturbed
<1>1. IInv /\ Keys /\ [Next]_vars =>
        (undisturbed' /\ _db' /\ isTable /\ pc = "save" =>
           /\ \A t \in thumbList \ thumbList' :
                \E r \in view'.rows : r.file = t.file /\ r.written = t.written /\ r.image = t.image
           /\ pc' # "save" => stored' = view)
  BY SavesTheBatch
<1> QED BY <1>1, KeysInvariant, PTL DEF Spec, SavedUnlessDisturbed
=============================================================================
