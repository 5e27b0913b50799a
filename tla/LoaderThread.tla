---------------------------- MODULE LoaderThread ----------------------------
(***************************************************************************)
(* ImageLoaderThread: the worker thread that decodes the picture the user  *)
(* is waiting for, and the one-place mailbox through which the UI thread   *)
(* hands it a request.                                                     *)
(*                                                                         *)
(* The UI thread calls ShowImage, SetStopLoading and StopThread and takes  *)
(* WM_LOADCOMPLETE messages from its queue.  The worker executes the loop  *)
(* of DecodeAndScale; each statement that reads or writes shared state is  *)
(* a step of its own, because only PopInfo and ShowImage take the lock.    *)
(*                                                                         *)
(* ShowImage is one step although the worker does not take the lock to     *)
(* reset the event or to clear _bStopLoading: those steps commute with the *)
(* statements of ShowImage they can fall between.                          *)
(***************************************************************************)
EXTENDS Naturals, Sequences

CONSTANTS
  Loads,    \* the requests (CImageLoad) the UI thread may make
  NoLoad    \* a null RefPtr<CImageLoad>

ASSUME LoadsAssumption == /\ NoLoad \notin Loads
                          /\ \A l \in Loads : l._bDelay \in BOOLEAN

VARIABLES
  _pInfo,         \* the mailbox: the request the worker has not taken yet
  _eventRefresh,  \* auto-reset event: there may be something in the mailbox
  _bStopLoading,  \* asks the worker to give up the load in progress
  _bExit,         \* asks the worker to leave its loop
  _eventExit,     \* manual-reset event shared by all worker threads
  pc,             \* where the worker is in DecodeAndScale
  job,            \* the worker's local pInfo, with what became of it
  IsLoading,      \* State.Image.IsLoading
  messages        \* WM_LOADCOMPLETE messages in the UI thread's queue

loaderVars == <<_pInfo, _eventRefresh, _bStopLoading, _bExit, _eventExit,
                pc, job, IsLoading, messages>>

\* A request the worker has taken, with the result of the load and the copy of
\* _bStopLoading made at its end.
Jobs == [info : Loads, loaded : BOOLEAN, _bWasStopped : BOOLEAN]
NoJob == NoLoad

Steps == {"test", "wait", "reset", "clear", "pop",
          "load", "delay", "stamp", "post", "leave", "done"}

TypeOK ==
  /\ _pInfo \in Loads \cup {NoLoad}
  /\ _eventRefresh \in BOOLEAN
  /\ _bStopLoading \in BOOLEAN
  /\ _bExit \in BOOLEAN
  /\ _eventExit \in BOOLEAN
  /\ pc \in Steps
  /\ IF pc \in {"load", "delay", "stamp", "post"} THEN job \in Jobs ELSE job = NoJob
  /\ IsLoading \in BOOLEAN
  /\ messages \in Seq(Jobs)

Init ==
  /\ _pInfo = NoLoad
  /\ _eventRefresh = FALSE
  /\ _bStopLoading = FALSE
  /\ _bExit = FALSE
  /\ _eventExit = FALSE
  /\ pc = "test"
  /\ job = NoJob
  /\ IsLoading = FALSE
  /\ messages = <<>>

(***************************************************************************)
(* The UI thread.                                                          *)
(***************************************************************************)
\* Mutants of ShowImage: the load in progress is not stopped; the event is not
\* set; a request that is still waiting is kept.
ShowImageNoStop(info) ==
  /\ _pInfo' = info
  /\ _eventRefresh' = TRUE
  /\ UNCHANGED _bStopLoading

ShowImageNoEvent(info) ==
  /\ _bStopLoading' = TRUE
  /\ _pInfo' = info
  /\ UNCHANGED _eventRefresh

ShowImageFirstWins(info) ==
  /\ _bStopLoading' = TRUE
  /\ _pInfo' = IF _pInfo = NoLoad THEN info ELSE _pInfo
  /\ _eventRefresh' = TRUE

\* A newer request replaces the one still in the mailbox.
ShowImage(info) ==
  /\ _bStopLoading' = TRUE
  /\ _pInfo' = info
  /\ _eventRefresh' = TRUE

SetStopLoading ==
  /\ _bStopLoading' = TRUE
  /\ UNCHANGED <<_pInfo, _eventRefresh>>

NoRequest == UNCHANGED <<_pInfo, _eventRefresh, _bStopLoading>>

\* The UI thread leaves its message loop when the main window is destroyed.
Running == ~_eventExit

UserStep ==
  /\ Running
  /\ (\E info \in Loads : ShowImage(info)) \/ SetStopLoading
  /\ UNCHANGED <<_bExit, _eventExit, pc, job, IsLoading, messages>>

\* The UI thread handles the oldest message, and may answer with one request.
TakeMessage ==
  /\ Running
  /\ messages # <<>>
  /\ messages' = Tail(messages)
  /\ (\E info \in Loads : ShowImage(info)) \/ NoRequest
  /\ UNCHANGED <<_bExit, _eventExit, pc, job, IsLoading>>

\* OnDestroy: first the event, ...
SignalExit ==
  /\ Running
  /\ _eventExit' = TRUE
  /\ UNCHANGED <<_pInfo, _eventRefresh, _bStopLoading, _bExit, pc, job, IsLoading, messages>>

\* ... then the flag; _bStopLoading is left as it is.
StopThread ==
  /\ _eventExit
  /\ ~_bExit
  /\ _bExit' = TRUE
  /\ UNCHANGED <<_pInfo, _eventRefresh, _bStopLoading, _eventExit, pc, job, IsLoading, messages>>

UI == UserStep \/ TakeMessage \/ SignalExit \/ StopThread

(***************************************************************************)
(* The worker: DecodeAndScale.                                             *)
(***************************************************************************)
Goto(from, to) == pc = from /\ pc' = to

mailbox == <<_pInfo, _eventRefresh, _bStopLoading>>
exitFlags == <<_bExit, _eventExit>>

TestExit ==
  /\ Goto("test", IF _bExit THEN "done" ELSE "wait")
  /\ UNCHANGED <<mailbox, exitFlags, job, IsLoading, messages>>

\* WaitForMultipleObjects returns the first signalled object: a pending
\* request is preferred to the exit event.  The wait resets _eventRefresh.
WakeForLoad ==
  /\ Goto("wait", "reset")
  /\ _eventRefresh
  /\ _eventRefresh' = FALSE
  /\ UNCHANGED <<_pInfo, _bStopLoading, exitFlags, job, IsLoading, messages>>

\* Mutant of WakeForExit: the worker waits for both objects.
WakeForBoth ==
  /\ Goto("wait", "done")
  /\ _eventRefresh
  /\ _eventExit
  /\ UNCHANGED <<mailbox, exitFlags, job, IsLoading, messages>>

WakeForExit ==
  /\ Goto("wait", "done")
  /\ ~_eventRefresh
  /\ _eventExit
  /\ UNCHANGED <<mailbox, exitFlags, job, IsLoading, messages>>

ResetEvent ==
  /\ Goto("reset", "clear")
  /\ _eventRefresh' = FALSE
  /\ UNCHANGED <<_pInfo, _bStopLoading, exitFlags, job, IsLoading, messages>>

\* Mutant of ClearStop: the flag of the last request is left set.
ClearStopForgotten ==
  /\ Goto("clear", "pop")
  /\ UNCHANGED <<mailbox, exitFlags, job, IsLoading, messages>>

ClearStop ==
  /\ Goto("clear", "pop")
  /\ _bStopLoading' = FALSE
  /\ UNCHANGED <<_pInfo, _eventRefresh, exitFlags, job, IsLoading, messages>>

\* Mutant of PopInfo: the request stays in the mailbox.
PopInfoKeeps ==
  /\ Goto("pop", IF _pInfo = NoLoad THEN "test" ELSE "load")
  /\ IF _pInfo = NoLoad
       THEN UNCHANGED <<job, IsLoading>>
       ELSE /\ job' = [info |-> _pInfo, loaded |-> FALSE, _bWasStopped |-> FALSE]
            /\ IsLoading' = TRUE
  /\ UNCHANGED <<mailbox, exitFlags, messages>>

PopInfo ==
  /\ Goto("pop", IF _pInfo = NoLoad THEN "test" ELSE "load")
  /\ IF _pInfo = NoLoad
       THEN UNCHANGED <<job, IsLoading>>
       ELSE /\ job' = [info |-> _pInfo, loaded |-> FALSE, _bWasStopped |-> FALSE]
            /\ IsLoading' = TRUE
  /\ _pInfo' = NoLoad
  /\ UNCHANGED <<_eventRefresh, _bStopLoading, exitFlags, messages>>

\* The load ends, with a picture or without one.  A load that succeeded, was
\* not asked to stop and is a slide to be held goes on to WaitDelay.
Load(loaded) ==
  /\ Goto("load", IF loaded /\ ~_bStopLoading /\ job.info._bDelay THEN "delay" ELSE "stamp")
  /\ job' = [job EXCEPT !.loaded = loaded]
  /\ UNCHANGED <<mailbox, exitFlags, IsLoading, messages>>

\* The delay runs out or the load is asked to stop.
WaitDelay ==
  /\ Goto("delay", "stamp")
  /\ UNCHANGED <<mailbox, exitFlags, job, IsLoading, messages>>

Stamp ==
  /\ Goto("stamp", "post")
  /\ job' = [job EXCEPT !._bWasStopped = _bStopLoading]
  /\ UNCHANGED <<mailbox, exitFlags, IsLoading, messages>>

\* Mutant of SignalImageLoadComplete: the worker keeps the request it has posted.
SignalWithoutDetach ==
  /\ Goto("post", "leave")
  /\ messages' = Append(messages, job)
  /\ UNCHANGED <<mailbox, exitFlags, job, IsLoading>>

SignalImageLoadComplete ==
  /\ Goto("post", "leave")
  /\ messages' = Append(messages, job)
  /\ job' = NoJob
  /\ UNCHANGED <<mailbox, exitFlags, IsLoading>>

\* Mutant of LeaveScope: the event is reset at the end of the round.
LeaveAndReset ==
  /\ Goto("leave", "test")
  /\ IsLoading' = FALSE
  /\ _eventRefresh' = FALSE
  /\ UNCHANGED <<_pInfo, _bStopLoading, exitFlags, job, messages>>

\* The scope that holds IsLoading ends after the message is posted.
LeaveScope ==
  /\ Goto("leave", "test")
  /\ IsLoading' = FALSE
  /\ UNCHANGED <<mailbox, exitFlags, job, messages>>

Worker ==
  \/ TestExit \/ WakeForLoad \/ WakeForExit \/ ResetEvent \/ ClearStop \/ PopInfo
  \/ (\E loaded \in BOOLEAN : Load(loaded))
  \/ WaitDelay \/ Stamp \/ SignalImageLoadComplete \/ LeaveScope

Next == UI \/ Worker

Spec == Init /\ [][Next]_loaderVars

(***************************************************************************)
(* Safety.                                                                 *)
(***************************************************************************)
\* A request in the mailbox is never forgotten: as long as the worker runs, the
\* event is still set or the worker is on its way to PopInfo.
\* (ShowImage sets the event; the worker resets it twice before it pops.)
NoLostWakeup ==
  _pInfo # NoLoad /\ pc # "done" => _eventRefresh \/ pc \in {"reset", "clear", "pop"}
=============================================================================
