--------------------------- MODULE LoaderRequests ---------------------------
(***************************************************************************)
(* ImageLoaderThread seen by the user: every request is numbered in the    *)
(* order it was made, so that what becomes of it can be stated.  The       *)
(* history variables change nothing the program does.                      *)
(***************************************************************************)
EXTENDS LoaderThread

CONSTANT MaxAsks   \* bound: requests made in a behaviour

ASSUME MaxAsksAssumption == MaxAsks \in Nat
ASSUME NumberedLoads == \A l \in Loads : l.seq \in 1..MaxAsks

VARIABLES
  asked,     \* history: the number of the newest request
  lastStop,  \* history: the newest request at the last SetStopLoading of the user
  inWindow,  \* history: the last request made between ClearStop and PopInfo
  answered   \* history: the number of the newest request answered by a message

history == <<asked, lastStop, inWindow, answered>>
requestVars == <<loaderVars, history>>

RequestInit ==
  /\ Init
  /\ asked = 0
  /\ lastStop = 0
  /\ inWindow = 0
  /\ answered = 0

\* The next request, numbered.
Ask ==
  \E info \in Loads :
    /\ info.seq = asked + 1
    /\ ShowImage(info)
    /\ asked' = info.seq
    /\ inWindow' = IF pc = "pop" THEN info.seq ELSE inWindow
    /\ UNCHANGED <<lastStop, answered>>

AskUser ==
  /\ Running
  /\ Ask
  /\ UNCHANGED <<exitFlags, pc, job, IsLoading, messages>>

StopUser ==
  /\ Running
  /\ SetStopLoading
  /\ lastStop' = asked
  /\ UNCHANGED <<exitFlags, pc, job, IsLoading, messages, asked, inWindow, answered>>

TakeMessageAndAsk ==
  /\ Running
  /\ messages # <<>>
  /\ messages' = Tail(messages)
  /\ Ask \/ (NoRequest /\ UNCHANGED history)
  /\ UNCHANGED <<exitFlags, pc, job, IsLoading>>

Close == (SignalExit \/ StopThread) /\ UNCHANGED history

Post ==
  /\ SignalImageLoadComplete
  /\ answered' = job.info.seq
  /\ UNCHANGED <<asked, lastStop, inWindow>>

WorkerStep ==
  \/ Post
  \/ /\ \/ TestExit \/ WakeForLoad \/ WakeForExit \/ ResetEvent \/ ClearStop \/ PopInfo
        \/ (\E loaded \in BOOLEAN : Load(loaded))
        \/ WaitDelay \/ Stamp \/ LeaveScope
     /\ UNCHANGED history

RequestNext == AskUser \/ StopUser \/ TakeMessageAndAsk \/ Close \/ WorkerStep

\* The worker is scheduled (its priority is low, but the system boosts starved
\* threads), loads and delays end, and the UI thread finishes OnDestroy.
\* Nothing obliges the user to do anything.
RequestSpec ==
  /\ RequestInit
  /\ [][RequestNext]_requestVars
  /\ WF_requestVars(WorkerStep)
  /\ WF_requestVars(StopThread /\ UNCHANGED history)

RequestTypeOK ==
  /\ TypeOK
  /\ asked \in 0..MaxAsks
  /\ lastStop \in 0..asked
  /\ inWindow \in 0..asked
  /\ answered \in 0..asked

(***************************************************************************)
(* Properties.                                                             *)
(***************************************************************************)
HasJob == pc \in {"load", "delay", "stamp", "post"}

\* Requests are answered in the order they were made and at most once: the
\* messages in the queue, the worker's job and the mailbox hold strictly
\* increasing numbers, none of them newer than the newest request.
\* (PopInfo empties the mailbox under the lock; PostMessage keeps the order.)
InOrder ==
  /\ \A i, j \in 1..Len(messages) : i < j => messages[i].info.seq < messages[j].info.seq
  /\ \A i \in 1..Len(messages) : messages[i].info.seq <= answered
  /\ HasJob => answered < job.info.seq /\ job.info.seq <= asked
  /\ _pInfo # NoLoad => /\ _pInfo.seq = asked
                        /\ answered < _pInfo.seq
                        /\ HasJob => job.info.seq < _pInfo.seq

\* A load that a newer request has superseded sees the stop flag, however the
\* request and the worker's unlocked ClearStop interleave: the worker never
\* holds a delay, or reports a success, for a request already replaced.  (The
\* same is not true of a stop asked by the user: one that comes before ClearStop
\* is forgotten, and only ImageState._bStopped keeps the picture away.)
SupersededIsStopped ==
  pc \in {"load", "delay", "stamp"} /\ job.info.seq < asked => _bStopLoading

\* The only load reported as stopped without a newer request and without a stop
\* by the user is one whose own ShowImage fell between the worker's
\* `_bStopLoading = false` and its PopInfo, both outside the lock.
StoppedHasCause ==
  /\ pc = "post" /\ job._bWasStopped =>
       \/ job.info.seq < asked
       \/ job.info.seq <= lastStop
       \/ job.info.seq = inWindow
  /\ \A i \in 1..Len(messages) : messages[i]._bWasStopped =>
       \/ messages[i].info.seq < asked
       \/ messages[i].info.seq <= lastStop
       \/ messages[i].info.seq = inWindow

\* The newest request is always answered, by a message of its own, unless a newer
\* one replaces it or the application closes: no wake-up is lost although the
\* worker resets the event again after it has been woken.
NewestIsAnswered ==
  \A n \in 1..MaxAsks : asked = n ~> (answered = n \/ asked > n \/ _eventExit)

\* Closing ends the worker: once the UI thread has set the event and the flag it
\* leaves the loop after at most the load it has in hand.
CloseEndsTheWorker == _bExit ~> pc = "done"
=============================================================================
