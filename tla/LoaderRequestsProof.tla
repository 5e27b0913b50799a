------------------------- MODULE LoaderRequestsProof -------------------------
(***************************************************************************)
(* Proofs about LoaderRequests, for every set of requests and every bound: *)
(* the inductive invariant of the mailbox protocol and what follows.       *)
(***************************************************************************)
EXTENDS LoaderRequests, TLAPS

\* While the worker is between ClearStop and PopInfo the flag can only have been
\* raised there, by a newer request or by the user.
FlagInWindow == pc = "pop" /\ _bStopLoading => inWindow = asked \/ lastStop = asked

\* A flag seen by the load in progress has a cause.
FlagHasCause ==
  pc \in {"load", "delay", "stamp"} /\ _bStopLoading =>
    \/ job.info.seq < asked
    \/ job.info.seq <= lastStop
    \/ job.info.seq = inWindow

\* The parts of the inductive invariant: the checked invariants and the two
\* facts about the flag from which StoppedHasCause follows at the Stamp step.
IInv ==
  /\ RequestTypeOK
  /\ NoLostWakeup
  /\ InOrder
  /\ SupersededIsStopped
  /\ FlagInWindow
  /\ FlagHasCause
  /\ StoppedHasCause

USE LoadsAssumption, MaxAsksAssumption, NumberedLoads

LEMMA InitIInv == RequestInit => IInv
  <1> SUFFICES ASSUME RequestInit PROVE IInv
    OBVIOUS
  <1>1. RequestTypeOK
    <2>1. messages \in Seq(Jobs)
      BY DEF RequestInit, Init
    <2>2. job = NoJob /\ pc = "test"
      BY DEF RequestInit, Init
    <2>3. asked \in 0..MaxAsks /\ lastStop \in 0..asked /\ inWindow \in 0..asked /\ answered \in 0..asked
      BY DEF RequestInit
    <2>4. TypeOK
      BY <2>1, <2>2 DEF RequestInit, Init, TypeOK, Steps
    <2>5. QED
      BY <2>3, <2>4 DEF RequestTypeOK
  <1>2. NoLostWakeup
    BY DEF RequestInit, Init, NoLostWakeup
  <1>3. InOrder
    BY DEF RequestInit, Init, InOrder, HasJob
  <1>4. SupersededIsStopped /\ FlagInWindow /\ FlagHasCause /\ StoppedHasCause
    BY DEF RequestInit, Init, SupersededIsStopped, FlagInWindow, FlagHasCause, StoppedHasCause
  <1>5. QED
    BY <1>1, <1>2, <1>3, <1>4 DEF IInv

\* What appending a message or taking the oldest one does to the queue.
LEMMA AppendFacts ==
  ASSUME NEW s \in Seq(Jobs), NEW m \in Jobs
  PROVE  /\ Append(s, m) \in Seq(Jobs)
         /\ Len(Append(s, m)) = Len(s) + 1
         /\ Len(s) \in Nat
         /\ \A i \in 1..Len(s) : Append(s, m)[i] = s[i]
         /\ Append(s, m)[Len(s) + 1] = m
  OBVIOUS

LEMMA TailFacts ==
  ASSUME NEW s \in Seq(Jobs), s # <<>>
  PROVE  /\ Tail(s) \in Seq(Jobs)
         /\ Len(s) \in Nat \ {0}
         /\ Len(Tail(s)) = Len(s) - 1
         /\ \A i \in 1..Len(Tail(s)) : Tail(s)[i] = s[i + 1]
  OBVIOUS

\* Which variables each kind of step can change: the frame the proofs below use.
Quiet == /\ TestExit \/ WakeForLoad \/ WakeForExit \/ ResetEvent \/ ClearStop \/ LeaveScope
         /\ UNCHANGED history

LEMMA NextCases ==
  ASSUME [RequestNext]_requestVars
  PROVE  \/ AskUser
         \/ StopUser
         \/ TakeMessageAndAsk
         \/ Close
         \/ Post
         \/ Quiet
         \/ PopInfo /\ UNCHANGED history
         \/ (\E loaded \in BOOLEAN : Load(loaded)) /\ UNCHANGED history
         \/ WaitDelay /\ UNCHANGED history
         \/ Stamp /\ UNCHANGED history
         \/ UNCHANGED requestVars
  BY DEF RequestNext, WorkerStep, Quiet

LEMMA TypeStep == IInv /\ [RequestNext]_requestVars => RequestTypeOK'
  <1> SUFFICES ASSUME IInv, [RequestNext]_requestVars PROVE RequestTypeOK'
    OBVIOUS
  <1> USE DEF IInv, RequestTypeOK, TypeOK, Steps, NoJob
  <1>1. CASE AskUser
    BY <1>1 DEF AskUser, Ask, ShowImage, exitFlags
  <1>2. CASE StopUser
    BY <1>2 DEF StopUser, SetStopLoading, exitFlags
  <1>3. CASE TakeMessageAndAsk
    <2>1. messages' \in Seq(Jobs)
      BY <1>3, TailFacts DEF TakeMessageAndAsk
    <2>2. CASE Ask
      BY <1>3, <2>1, <2>2 DEF TakeMessageAndAsk, Ask, ShowImage, exitFlags
    <2>3. CASE NoRequest /\ UNCHANGED history
      BY <1>3, <2>1, <2>3 DEF TakeMessageAndAsk, NoRequest, exitFlags, history
    <2>4. QED
      BY <1>3, <2>2, <2>3 DEF TakeMessageAndAsk
  <1>4. CASE Close
    BY <1>4 DEF Close, SignalExit, StopThread, history
  <1>5. CASE Post
    <2>1. job \in Jobs /\ messages' \in Seq(Jobs)
      BY <1>5, AppendFacts DEF Post, SignalImageLoadComplete, Goto
    <2>2. answered' \in 0..asked
      BY <1>5 DEF Post, SignalImageLoadComplete, Goto, InOrder, HasJob, Jobs
    <2>3. QED
      BY <1>5, <2>1, <2>2 DEF Post, SignalImageLoadComplete, Goto, mailbox, exitFlags
  <1>6. CASE Quiet
    BY <1>6 DEF Quiet, TestExit, WakeForLoad, WakeForExit, ResetEvent, ClearStop, LeaveScope,
                Goto, mailbox, exitFlags, history
  <1>7. CASE PopInfo /\ UNCHANGED history
    <2>1. CASE _pInfo = NoLoad
      BY <1>7, <2>1 DEF PopInfo, Goto, mailbox, exitFlags, history
    <2>2. CASE _pInfo # NoLoad
      <3>1. /\ job' = [info |-> _pInfo, loaded |-> FALSE, _bWasStopped |-> FALSE]
            /\ pc' = "load"
            /\ IsLoading' = TRUE
        BY <1>7, <2>2 DEF PopInfo, Goto
      <3>2. job' \in Jobs
        BY <3>1, <2>2 DEF Jobs
      <3>3. QED
        BY <1>7, <2>2, <3>1, <3>2 DEF PopInfo, mailbox, exitFlags, history
    <2>3. QED
      BY <2>1, <2>2
  <1>8. CASE (\E loaded \in BOOLEAN : Load(loaded)) /\ UNCHANGED history
    BY <1>8 DEF Load, Goto, mailbox, exitFlags, history, Jobs
  <1>9. CASE WaitDelay /\ UNCHANGED history
    BY <1>9 DEF WaitDelay, Goto, mailbox, exitFlags, history
  <1>10. CASE Stamp /\ UNCHANGED history
    BY <1>10 DEF Stamp, Goto, mailbox, exitFlags, history, Jobs
  <1>11. CASE UNCHANGED requestVars
    BY <1>11 DEF requestVars, loaderVars, history
  <1>12. QED
    BY <1>1, <1>2, <1>3, <1>4, <1>5, <1>6, <1>7, <1>8, <1>9, <1>10, <1>11, NextCases

LEMMA WakeupStep == IInv /\ [RequestNext]_requestVars => NoLostWakeup'
  <1> SUFFICES ASSUME IInv, [RequestNext]_requestVars PROVE NoLostWakeup'
    OBVIOUS
  <1> USE DEF IInv, NoLostWakeup
  <1>1. CASE AskUser \/ StopUser \/ TakeMessageAndAsk
    BY <1>1 DEF AskUser, StopUser, TakeMessageAndAsk, Ask, ShowImage, SetStopLoading, NoRequest
  <1>2. CASE Close
    BY <1>2 DEF Close, SignalExit, StopThread
  <1>3. CASE Post
    BY <1>3 DEF Post, SignalImageLoadComplete, Goto, mailbox
  <1>4. CASE Quiet
    BY <1>4 DEF Quiet, TestExit, WakeForLoad, WakeForExit, ResetEvent, ClearStop, LeaveScope, Goto, mailbox
  <1>5. CASE PopInfo
    BY <1>5 DEF PopInfo, Goto
  <1>6. CASE (\E loaded \in BOOLEAN : Load(loaded)) \/ WaitDelay \/ Stamp
    BY <1>6 DEF Load, WaitDelay, Stamp, Goto, mailbox
  <1>7. CASE UNCHANGED requestVars
    BY <1>7 DEF requestVars, loaderVars
  <1>8. QED
    BY <1>1, <1>2, <1>3, <1>4, <1>5, <1>6, <1>7, NextCases

LEMMA OrderStep == IInv /\ [RequestNext]_requestVars => InOrder'
  <1> SUFFICES ASSUME IInv, [RequestNext]_requestVars PROVE InOrder'
    OBVIOUS
  <1> USE DEF InOrder, HasJob
  <1>0. /\ RequestTypeOK
        /\ InOrder
        /\ messages \in Seq(Jobs)
        /\ asked \in Nat /\ answered \in 0..asked
        /\ \A m \in Jobs : m.info.seq \in Nat
        /\ \A l \in Loads : l.seq \in Nat
    BY DEF IInv, RequestTypeOK, TypeOK, Jobs
  <1>1. CASE AskUser
    <2>1. PICK info \in Loads : info.seq = asked + 1 /\ _pInfo' = info /\ asked' = info.seq /\ answered' = answered
      BY <1>1 DEF AskUser, Ask, ShowImage
    <2>2. messages' = messages /\ job' = job /\ pc' = pc
      BY <1>1 DEF AskUser
    <2>3. QED
      BY <1>0, <2>1, <2>2 DEF RequestTypeOK, TypeOK
  <1>2. CASE StopUser
    BY <1>0, <1>2 DEF StopUser, SetStopLoading
  <1>3. CASE TakeMessageAndAsk
    <2>1. /\ messages \in Seq(Jobs) /\ messages # <<>> /\ messages' = Tail(messages)
          /\ job' = job /\ pc' = pc
      BY <1>0, <1>3 DEF TakeMessageAndAsk
    <2>2. /\ Len(messages) \in Nat \ {0}
          /\ Len(messages') = Len(messages) - 1
          /\ \A i \in 1..Len(messages') : messages'[i] = messages[i + 1] /\ i + 1 \in 1..Len(messages)
      BY <2>1, TailFacts
    <2>3. /\ \A i, j \in 1..Len(messages') : i < j => messages'[i].info.seq < messages'[j].info.seq
          /\ \A i \in 1..Len(messages') : messages'[i].info.seq <= answered
      <3>1. ASSUME NEW i \in 1..Len(messages'), NEW j \in 1..Len(messages'), i < j
            PROVE  messages'[i].info.seq < messages'[j].info.seq
        <4>1. i + 1 < j + 1
          BY <3>1
        <4>2. QED
          BY <1>0, <2>2, <3>1, <4>1
      <3>2. ASSUME NEW i \in 1..Len(messages') PROVE messages'[i].info.seq <= answered
        BY <1>0, <2>2
      <3>3. QED
        BY <3>1, <3>2
    <2>4. CASE Ask
      <3>1. PICK info \in Loads : info.seq = asked + 1 /\ _pInfo' = info /\ asked' = info.seq /\ answered' = answered
        BY <2>4 DEF Ask, ShowImage
      <3>2. QED
        BY <1>0, <2>1, <2>3, <3>1 DEF RequestTypeOK, TypeOK
    <2>5. CASE NoRequest /\ UNCHANGED history
      BY <1>0, <2>1, <2>3, <2>5 DEF NoRequest, history
    <2>6. QED
      BY <1>3, <2>4, <2>5 DEF TakeMessageAndAsk
  <1>4. CASE Close
    BY <1>0, <1>4 DEF Close, SignalExit, StopThread, history
  <1>5. CASE Post
    <2>1. /\ job \in Jobs /\ messages' = Append(messages, job) /\ answered' = job.info.seq
          /\ pc = "post" /\ pc' = "leave" /\ _pInfo' = _pInfo /\ asked' = asked
      BY <1>0, <1>5 DEF Post, SignalImageLoadComplete, Goto, RequestTypeOK, TypeOK, mailbox
    <2>2. /\ Len(messages) \in Nat
          /\ Len(messages') = Len(messages) + 1
          /\ \A i \in 1..Len(messages) : messages'[i] = messages[i]
          /\ messages'[Len(messages) + 1] = job
      BY <1>0, <2>1, AppendFacts
    <2>3. \A i \in 1..Len(messages) : messages[i] \in Jobs /\ messages[i].info.seq < job.info.seq
      BY <1>0, <2>1
    <2>4. \A i, j \in 1..Len(messages') : i < j => messages'[i].info.seq < messages'[j].info.seq
      <3>1. ASSUME NEW i \in 1..Len(messages'), NEW j \in 1..Len(messages'), i < j
            PROVE  messages'[i].info.seq < messages'[j].info.seq
        <4>1. i \in 1..Len(messages)
          BY <2>2, <3>1
        <4>2. CASE j \in 1..Len(messages)
          BY <1>0, <2>2, <3>1, <4>1, <4>2
        <4>3. CASE j = Len(messages) + 1
          BY <2>2, <2>3, <4>1, <4>3
        <4>4. QED
          BY <2>2, <4>2, <4>3
      <3>2. QED
        BY <3>1
    <2>5. \A i \in 1..Len(messages') : messages'[i].info.seq <= answered'
      <3>1. ASSUME NEW i \in 1..Len(messages') PROVE messages'[i].info.seq <= answered'
        <4>1. CASE i \in 1..Len(messages)
          BY <1>0, <2>1, <2>2, <2>3, <4>1
        <4>2. CASE i = Len(messages) + 1
          BY <1>0, <2>1, <2>2, <4>2
        <4>3. QED
          BY <2>2, <4>1, <4>2
      <3>2. QED
        BY <3>1
    <2>6. QED
      BY <1>0, <2>1, <2>4, <2>5
  <1>6. CASE Quiet
    BY <1>0, <1>6 DEF Quiet, TestExit, WakeForLoad, WakeForExit, ResetEvent, ClearStop, LeaveScope,
                      Goto, mailbox, history
  <1>7. CASE PopInfo /\ UNCHANGED history
    <2>1. CASE _pInfo = NoLoad
      BY <1>0, <1>7, <2>1 DEF PopInfo, Goto, history
    <2>2. CASE _pInfo # NoLoad
      <3>1. job'.info = _pInfo /\ _pInfo' = NoLoad
        BY <1>7, <2>2 DEF PopInfo
      <3>2. QED
        BY <1>0, <1>7, <2>2, <3>1 DEF PopInfo, history
    <2>3. QED
      BY <2>1, <2>2
  <1>8. CASE (\E loaded \in BOOLEAN : Load(loaded)) /\ UNCHANGED history
    <2>1. pc = "load" /\ job \in Jobs
      BY <1>0, <1>8 DEF Load, Goto, RequestTypeOK, TypeOK
    <2>2. job'.info = job.info
      BY <1>8, <2>1 DEF Load, Jobs
    <2>3. QED
      BY <1>0, <1>8, <2>1, <2>2 DEF Load, mailbox, history
  <1>9. CASE WaitDelay /\ UNCHANGED history
    BY <1>0, <1>9 DEF WaitDelay, Goto, mailbox, history
  <1>10. CASE Stamp /\ UNCHANGED history
    <2>1. pc = "stamp" /\ job \in Jobs
      BY <1>0, <1>10 DEF Stamp, Goto, RequestTypeOK, TypeOK
    <2>2. job'.info = job.info
      BY <1>10, <2>1 DEF Stamp, Jobs
    <2>3. QED
      BY <1>0, <1>10, <2>1, <2>2 DEF Stamp, mailbox, history
  <1>11. CASE UNCHANGED requestVars
    BY <1>0, <1>11 DEF requestVars, loaderVars, history
  <1>12. QED
    BY <1>1, <1>2, <1>3, <1>4, <1>5, <1>6, <1>7, <1>8, <1>9, <1>10, <1>11, NextCases

\* The flag: who raises it, who clears it, and what a load can conclude from it.
LEMMA FlagStep ==
  IInv /\ [RequestNext]_requestVars => (SupersededIsStopped /\ FlagInWindow /\ FlagHasCause)'
  <1> SUFFICES ASSUME IInv, [RequestNext]_requestVars
               PROVE  (SupersededIsStopped /\ FlagInWindow /\ FlagHasCause)'
    OBVIOUS
  <1> USE DEF SupersededIsStopped, FlagInWindow, FlagHasCause
  <1>0. /\ SupersededIsStopped /\ FlagInWindow /\ FlagHasCause
        /\ asked \in Nat /\ lastStop \in Nat /\ inWindow \in Nat
        /\ lastStop <= asked /\ inWindow <= asked
        /\ \A l \in Loads : l.seq \in Nat
        /\ pc \in {"load", "delay", "stamp"} => job \in Jobs /\ job.info.seq \in Nat /\ job.info.seq <= asked
        /\ _pInfo # NoLoad => _pInfo.seq = asked
    BY DEF IInv, RequestTypeOK, TypeOK, Jobs, InOrder, HasJob
  <1>1. ASSUME Ask, pc' = pc, job' = job
        PROVE  (SupersededIsStopped /\ FlagInWindow /\ FlagHasCause)'
    <2>1. /\ asked' = asked + 1 /\ lastStop' = lastStop /\ _bStopLoading' = TRUE
          /\ pc = "pop" => inWindow' = asked'
      BY <1>1 DEF Ask, ShowImage
    <2>2. QED
      BY <1>0, <1>1, <2>1
  <1>2. CASE AskUser
    BY <1>1, <1>2 DEF AskUser
  <1>3. CASE StopUser
    BY <1>0, <1>3 DEF StopUser, SetStopLoading
  <1>4. CASE TakeMessageAndAsk
    BY <1>0, <1>1, <1>4 DEF TakeMessageAndAsk, NoRequest, history
  <1>5. CASE Close
    BY <1>0, <1>5 DEF Close, SignalExit, StopThread, history
  <1>6. CASE Post
    BY <1>0, <1>6 DEF Post, SignalImageLoadComplete, Goto
  <1>7. CASE Quiet
    BY <1>0, <1>7 DEF Quiet, TestExit, WakeForLoad, WakeForExit, ResetEvent, ClearStop, LeaveScope,
                      Goto, mailbox, history
  <1>8. CASE PopInfo /\ UNCHANGED history
    <2>1. CASE _pInfo = NoLoad
      BY <1>0, <1>8, <2>1 DEF PopInfo, Goto, history
    <2>2. CASE _pInfo # NoLoad
      <3>1. job'.info = _pInfo /\ pc = "pop" /\ pc' = "load" /\ _bStopLoading' = _bStopLoading
        BY <1>8, <2>2 DEF PopInfo, Goto
      <3>2. QED
        BY <1>0, <1>8, <2>2, <3>1 DEF history
    <2>3. QED
      BY <2>1, <2>2
  <1>9. CASE (\E loaded \in BOOLEAN : Load(loaded)) /\ UNCHANGED history
    <2>1. pc = "load" /\ job'.info = job.info
      BY <1>0, <1>9 DEF Load, Goto, Jobs
    <2>2. QED
      BY <1>0, <1>9, <2>1 DEF Load, Goto, mailbox, history
  <1>10. CASE WaitDelay /\ UNCHANGED history
    BY <1>0, <1>10 DEF WaitDelay, Goto, mailbox, history
  <1>11. CASE Stamp /\ UNCHANGED history
    BY <1>0, <1>11 DEF Stamp, Goto, mailbox, history
  <1>12. CASE UNCHANGED requestVars
    BY <1>0, <1>12 DEF requestVars, loaderVars, history
  <1>13. QED
    BY <1>2, <1>3, <1>4, <1>5, <1>6, <1>7, <1>8, <1>9, <1>10, <1>11, <1>12, NextCases

\* Once a job is stamped, asked and lastStop only grow and a request made in a
\* window is newer than it, so the cause recorded at the Stamp step stands.
Cause(n) == n < asked \/ n <= lastStop \/ n = inWindow

LEMMA CauseStep == IInv /\ [RequestNext]_requestVars => StoppedHasCause'
  <1> SUFFICES ASSUME IInv, [RequestNext]_requestVars PROVE StoppedHasCause'
    OBVIOUS
  <1>0. /\ messages \in Seq(Jobs) /\ Len(messages) \in Nat
        /\ asked \in Nat /\ lastStop \in Nat /\ inWindow \in Nat /\ answered \in Nat
        /\ answered <= asked
        /\ \A l \in Loads : l.seq \in Nat
        /\ \A m \in Jobs : m.info.seq \in Nat
        /\ \A i \in 1..Len(messages) : messages[i].info.seq <= asked
        /\ HasJob => job \in Jobs /\ job.info.seq <= asked
    <2>1. /\ messages \in Seq(Jobs)
          /\ asked \in Nat /\ lastStop \in Nat /\ inWindow \in Nat /\ answered \in Nat
          /\ answered <= asked
          /\ HasJob => job \in Jobs
      BY DEF IInv, RequestTypeOK, TypeOK, HasJob
    <2>2. /\ \A l \in Loads : l.seq \in Nat
          /\ \A m \in Jobs : m.info.seq \in Nat
      BY DEF Jobs
    <2>3. /\ \A i \in 1..Len(messages) : messages[i].info.seq <= answered
          /\ HasJob => job.info.seq <= asked
      BY DEF IInv, InOrder
    <2>4. ASSUME NEW i \in 1..Len(messages) PROVE messages[i].info.seq <= asked
      <3>1. messages[i] \in Jobs
        BY <2>1
      <3>2. QED
        BY <2>1, <2>2, <2>3, <3>1
    <2>5. QED
      BY <2>1, <2>2, <2>3, <2>4
  <1>1. /\ pc = "post" /\ job._bWasStopped => Cause(job.info.seq)
        /\ \A i \in 1..Len(messages) : messages[i]._bWasStopped => Cause(messages[i].info.seq)
    BY DEF IInv, StoppedHasCause, Cause
  <1>2. SUFFICES /\ (pc = "post" /\ job._bWasStopped => Cause(job.info.seq))'
                 /\ (\A i \in 1..Len(messages) : messages[i]._bWasStopped => Cause(messages[i].info.seq))'
    BY DEF StoppedHasCause, Cause
  \* What a step of the UI thread does to the causes recorded so far.
  <1>3. ASSUME \/ Ask
               \/ SetStopLoading /\ lastStop' = asked /\ UNCHANGED <<asked, inWindow>>
               \/ UNCHANGED history
        PROVE  \A n \in Nat : n <= asked /\ Cause(n) => Cause(n)'
    <2>1. CASE Ask
      BY <1>0, <2>1 DEF Ask, ShowImage, Cause
    <2>2. CASE SetStopLoading /\ lastStop' = asked /\ UNCHANGED <<asked, inWindow>>
      BY <1>0, <2>2 DEF Cause
    <2>3. CASE UNCHANGED history
      BY <2>3 DEF Cause, history
    <2>4. QED
      BY <1>3, <2>1, <2>2, <2>3
  <1>4. CASE AskUser \/ StopUser \/ Close \/ UNCHANGED requestVars
    <2>1. pc' = pc /\ job' = job /\ messages' = messages
      BY <1>4 DEF AskUser, StopUser, Close, SignalExit, StopThread, requestVars, loaderVars
    <2>2. \A n \in Nat : n <= asked /\ Cause(n) => Cause(n)'
      BY <1>3, <1>4 DEF AskUser, StopUser, Close, requestVars, history
    <2>3. QED
      BY <1>0, <1>1, <2>1, <2>2 DEF HasJob
  <1>5. CASE TakeMessageAndAsk
    <2>1. \A n \in Nat : n <= asked /\ Cause(n) => Cause(n)'
      BY <1>3, <1>5 DEF TakeMessageAndAsk
    <2>2. /\ pc' = pc /\ job' = job
          /\ \A i \in 1..Len(messages') : messages'[i] = messages[i + 1] /\ i + 1 \in 1..Len(messages)
      BY <1>0, <1>5, TailFacts DEF TakeMessageAndAsk
    <2>3. QED
      BY <1>0, <1>1, <2>1, <2>2 DEF HasJob
  <1>6. CASE Post
    <2>1. /\ pc = "post" /\ pc' = "leave" /\ job \in Jobs
          /\ messages' = Append(messages, job)
          /\ asked' = asked /\ lastStop' = lastStop /\ inWindow' = inWindow
      BY <1>0, <1>6 DEF Post, SignalImageLoadComplete, Goto, HasJob
    <2>2. \A i \in 1..Len(messages') : \/ i \in 1..Len(messages) /\ messages'[i] = messages[i]
                                       \/ messages'[i] = job
      BY <1>0, <2>1, AppendFacts
    <2>3. QED
      BY <1>1, <2>1, <2>2 DEF Cause
  <1>7. CASE Stamp /\ UNCHANGED history
    <2>1. /\ pc = "stamp" /\ job \in Jobs /\ messages' = messages
          /\ job' = [job EXCEPT !._bWasStopped = _bStopLoading]
      BY <1>0, <1>7 DEF Stamp, Goto, HasJob
    <2>2. job'.info = job.info /\ job'._bWasStopped = _bStopLoading
      BY <2>1 DEF Jobs
    <2>3. _bStopLoading => Cause(job.info.seq)
      BY <2>1 DEF IInv, FlagHasCause, Cause
    <2>4. QED
      BY <1>1, <1>7, <2>1, <2>2, <2>3 DEF Cause, history
  <1>8. CASE (Quiet \/ PopInfo \/ (\E loaded \in BOOLEAN : Load(loaded)) \/ WaitDelay) /\ UNCHANGED history
    <2>1. pc' # "post" /\ messages' = messages
      BY <1>8 DEF Quiet, TestExit, WakeForLoad, WakeForExit, ResetEvent, ClearStop, LeaveScope, PopInfo,
                  Load, WaitDelay, Goto
    <2>2. QED
      BY <1>1, <1>8, <2>1 DEF Cause, history
  <1>9. QED
    BY <1>4, <1>5, <1>6, <1>7, <1>8, NextCases DEF Quiet

THEOREM InductiveInvariant == RequestSpec => []IInv
  <1>1. RequestInit => IInv
    BY InitIInv
  <1>2. IInv /\ [RequestNext]_requestVars => IInv'
    BY TypeStep, WakeupStep, OrderStep, FlagStep, CauseStep DEF IInv
  <1>3. QED
    BY <1>1, <1>2, PTL DEF RequestSpec

\* Type correctness of the thread, the mailbox and the history of requests.
THEOREM TypeCorrect == RequestSpec => []RequestTypeOK
  BY InductiveInvariant, PTL DEF IInv

\* ImageLoaderThread never loses a wake-up: a request in the mailbox always has
\* a set event or a worker on its way to it.
THEOREM WakeupIsNeverLost == RequestSpec => []NoLostWakeup
  BY InductiveInvariant, PTL DEF IInv

\* Completion messages, the job in hand and the mailbox are in request order.
THEOREM AnswersInOrder == RequestSpec => []InOrder
  BY InductiveInvariant, PTL DEF IInv

\* A load that has been superseded sees the stop flag until it is stamped.
THEOREM SupersededLoadIsStopped == RequestSpec => []SupersededIsStopped
  BY InductiveInvariant, PTL DEF IInv

\* A load is only reported stopped for one of the three causes.
THEOREM StopHasCause == RequestSpec => []StoppedHasCause
  BY InductiveInvariant, PTL DEF IInv
=============================================================================
