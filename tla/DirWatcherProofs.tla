-------------------------- MODULE DirWatcherProofs --------------------------
(***************************************************************************)
(* Proofs about DirWatcher, for any directories and handles and any number *)
(* of calls and changes: every interleaving of the two threads, which share*)
(* their state and the members of the handle without a lock.               *)
(***************************************************************************)
EXTENDS DirWatcher, SequenceTheorems, TLAPS

-----------------------------------------------------------------------------
\* Where the steps of handle_wrap::reset go.
LEMMA ResetStepControl ==
    ASSUME ControlOK, NEW p \in Threads, ResetStep(p)
    PROVE  ControlOK'
<1>1. {"idle", "destroy_members", "aborted"} \subseteq MainPlaces
      /\ {"store_handle", "ended", "check", "aborted"} \subseteq ThreadPlaces
  BY DEF MainPlaces, ThreadPlaces, Closing
<1>2. ASSUME NEW at, Returns(p, at)
      PROVE  main' \in {main, "idle", "destroy_members"}
             /\ thread' \in {thread, "store_handle", "ended", "check"}
  BY <1>2 DEF Returns
<1>3. /\ main' \in {main, "idle", "destroy_members", "aborted"}
      /\ thread' \in {thread, "store_handle", "ended", "check", "aborted"}
      /\ UNCHANGED <<sharedVars, arg, calls, rs, after, change>>
  BY <1>2 DEF ResetStep, TestHandle, TestDeleter, LoadHandle, CallDeleter, CallEmptied,
     ClearDeleter, ClearHandle, mainVars, threadVars, historyVars
<1> QED BY <1>1, <1>3 DEF ControlOK, sharedVars

\* Where a call of the main thread and a step of the background thread go.
LEMMA MainStepControl == ControlOK /\ MainStep => ControlOK'
<1> SUFFICES ASSUME ControlOK, MainStep PROVE ControlOK'
  OBVIOUS
<1>1. ASSUME NEW at, NEW next \in MainPlaces, NEW s \in States,
             Store(at, next, s) \/ Signal(at, next) \/ AwaitClient(at, next)
                \/ MainCloses(at, next)
      PROVE  ControlOK'
  BY <1>1 DEF ControlOK, Store, Signal, AwaitClient, MainCloses, MainAt, threadVars,
     sharedVars
<1>2. /\ {"watch_sleep_signal", "watch_sleep_wait", "watch_name", "watch_init_signal",
          "watch_init_wait", "watch_init", "idle", "stop_signal", "stop_reset",
          "stop_close", "destroy", "destroy_signal", "destroy_wait", "join", "gone"}
             \subseteq MainPlaces
      /\ {"sleep", "init", "shutdown"} \subseteq States
  BY DEF MainPlaces, Stores, Signals, Closing, States
<1>3. CASE SetName \/ Join
  BY <1>2, <1>3 DEF ControlOK, SetName, Join, MainAt, threadVars, sharedVars
<1>4. CASE DestroyMembers
  BY <1>2, <1>4 DEF ControlOK, DestroyMembers, MainAt, threadVars, historyVars
<1>5. CASE ResetStep("main")
  BY <1>5, ResetStepControl DEF Threads
<1> QED BY <1>1, <1>2, <1>3, <1>4, <1>5 DEF MainStep

LEMMA ThreadStepControl == ControlOK /\ ThreadStep => ControlOK'
<1> SUFFICES ASSUME ControlOK, ThreadStep PROVE ControlOK'
  OBVIOUS
<1>1. /\ {"top", "top_close", "check", "blocked", "reset", "read", "answer", "open",
          "open_close", "store_deleter", "test_open", "set_run", "set_run_signal",
          "set_sleep", "set_sleep_signal", "arm", "process", "overlapped"}
             \subseteq ThreadPlaces
      /\ {"run", "sleep"} \subseteq States
  BY DEF ThreadPlaces, States
<1>2. CASE Begin \/ Top \/ Check \/ Woken \/ Reset \/ ReadState
  BY <1>1, <1>2 DEF ControlOK, Begin, Top, Check, Woken, Reset, ReadState, ThreadAt,
     mainVars, sharedVars, historyVars, Overwritten
<1>3. CASE Timeout \/ Answer
  BY <1>1, <1>3 DEF ControlOK, Timeout, Answer, ThreadAt, LoopHead, mainVars, sharedVars
<1>4. CASE CreateFile \/ StoreHandle \/ StoreDeleter \/ TestOpen
  BY <1>1, <1>4 DEF ControlOK, CreateFile, StoreHandle, StoreDeleter, TestOpen, ThreadAt,
     mainVars, sharedVars, historyVars
<1>5. CASE Arm \/ Process \/ Completed \/ Failed
  BY <1>1, <1>5 DEF ControlOK, Arm, Process, Completed, Failed, ThreadAt, mainVars,
     sharedVars, historyVars
<1>6. ASSUME NEW at, NEW next \in ThreadPlaces, NEW s \in States,
             OwnStore(at, next, s) \/ OwnSignal(at, next)
      PROVE  ControlOK'
  BY <1>6 DEF ControlOK, OwnStore, OwnSignal, ThreadAt, mainVars, Overwritten
<1>7. CASE ResetStep("thread")
  BY <1>7, ResetStepControl DEF Threads
<1> QED BY <1>1, <1>2, <1>3, <1>4, <1>5, <1>6, <1>7 DEF ThreadStep

LEMMA NextControl == ControlOK /\ [Next]_vars => ControlOK'
<1> SUFFICES ASSUME ControlOK, [Next]_vars PROVE ControlOK'
  OBVIOUS
<1>1. {"watch_name", "watch_sleep", "stop", "destroy_close"} \subseteq MainPlaces
  BY DEF MainPlaces, Stores, Closing
<1>2. calls < MaxCalls => calls + 1 \in 0..MaxCalls
  BY BoundsAssumption DEF ControlOK
<1>3. ASSUME NEW d \in Dirs, Watch(d) PROVE ControlOK'
  BY <1>1, <1>2, <1>3 DEF ControlOK, Watch, MainAt, ThreadPlaces, sharedVars
<1>4. CASE Stop
  BY <1>1, <1>2, <1>4 DEF ControlOK, Stop, MainAt, threadVars, sharedVars
<1>5. CASE Destroy
  BY <1>1, <1>5 DEF ControlOK, Destroy, MainCloses, MainAt, threadVars, sharedVars
<1>6. CASE UNCHANGED vars \/ ReadEnds \/ \E d \in Dirs : DirChange(d)
  BY <1>6 DEF ControlOK, DirChange, ReadEnds, vars, mainVars, threadVars, sharedVars,
     historyVars
<1> QED BY <1>3, <1>4, <1>5, <1>6, MainStepControl, ThreadStepControl DEF Next

-----------------------------------------------------------------------------
\* The steps that leave the handle, its two members and reset alone.
Resetting == {"top_close", "open_close", "store_handle", "store_deleter"}

Quiet ==
    /\ UNCHANGED <<wrapVars, resetVars, fresh, dir_of, torn>>
    /\ main' # main => main \notin Closing /\ main' \notin Closing
    /\ thread' # thread =>
          thread \notin Resetting \cup {"aborted"} /\ thread' \notin Resetting

\* A thread that sleeps, and one that runs, as far as the handle is concerned.
AtRest == (thread \in {"check", "blocked"} /\ rs = "sleep") \/ thread = "ended"

Running ==
    thread \in {"set_run", "set_run_signal", "arm", "process", "overlapped"} => rs = "run"

LEMMA MostAreQuiet ==
    ASSUME [Next]_vars, Running
    PROVE  \/ Quiet /\ (AtRest' => AtRest)
           \/ \E p \in Threads : ResetStep(p)
           \/ MainCloses("stop_reset", "stop_close")
           \/ MainCloses("idle", "destroy_close")
           \/ DestroyMembers
           \/ Top /\ thread' = "top_close"
           \/ CreateFile \/ StoreHandle \/ StoreDeleter
<1> USE DEF Resetting, Closing, ioVars, wrapVars, resetVars, systemVars
<1>1. ASSUME NEW at, NEW next, Signal(at, next) \/ AwaitClient(at, next),
             at \notin Closing, next \notin Closing
      PROVE  Quiet /\ (AtRest' => AtRest)
  BY <1>1 DEF Signal, AwaitClient, MainAt, Quiet, AtRest, threadVars
<1>s. ASSUME NEW at, NEW next, NEW s, Store(at, next, s),
             at \notin Closing, next \notin Closing
      PROVE  Quiet /\ (AtRest' => AtRest)
  BY <1>s DEF Store, MainAt, Quiet, AtRest, threadVars
<1>2. CASE SetName \/ Join \/ Stop
  BY <1>2 DEF SetName, Join, Stop, MainAt, Quiet, AtRest, threadVars
<1>3. CASE MainStep
  <2>1. CASE \/ Store("watch_sleep", "watch_sleep_signal", "sleep")
             \/ Store("watch_init", "watch_init_signal", "init")
             \/ Store("stop", "stop_signal", "sleep")
             \/ Store("destroy", "destroy_signal", "shutdown")
    BY <1>s, <2>1
  <2>2. CASE \/ Signal("watch_sleep_signal", "watch_sleep_wait")
             \/ Signal("watch_init_signal", "watch_init_wait")
             \/ Signal("stop_signal", "stop_reset")
             \/ Signal("destroy_signal", "destroy_wait")
    BY <1>1, <2>2
  <2>3. CASE \/ AwaitClient("watch_sleep_wait", "watch_name")
             \/ AwaitClient("watch_init_wait", "idle")
             \/ AwaitClient("destroy_wait", "join")
    BY <1>1, <2>3
  <2> QED BY <1>2, <1>3, <2>1, <2>2, <2>3 DEF MainStep, Threads
<1>4. CASE Begin \/ Top \/ Check \/ Woken \/ Reset \/ ReadState
  BY <1>4 DEF Begin, Top, Check, Woken, Reset, ReadState, ThreadAt, mainVars,
     historyVars, Quiet, AtRest
<1>5. CASE Timeout \/ Answer
  BY <1>5 DEF Timeout, Answer, ThreadAt, LoopHead, mainVars, Quiet, AtRest
<1>6. CASE TestOpen \/ Arm \/ Process \/ Completed \/ Failed
  BY <1>6 DEF TestOpen, Arm, Process, Completed, Failed, ThreadAt, mainVars, historyVars,
     Quiet, AtRest, Running
<1>7. CASE \/ OwnStore("set_run", "set_run_signal", "run")
           \/ OwnSignal("set_run_signal", "arm")
           \/ OwnStore("set_sleep", "set_sleep_signal", "sleep")
           \/ OwnSignal("set_sleep_signal", "top")
  BY <1>7 DEF OwnStore, OwnSignal, ThreadAt, mainVars, Quiet, AtRest
<1>8. CASE ThreadStep
  BY <1>4, <1>5, <1>6, <1>7, <1>8 DEF ThreadStep, Threads
<1>9. ASSUME NEW d \in Dirs, Watch(d) PROVE Quiet /\ (AtRest' => AtRest)
  BY <1>9 DEF Watch, MainAt, Quiet, AtRest
<1>10. CASE UNCHANGED vars \/ ReadEnds \/ \E d \in Dirs : DirChange(d)
  BY <1>10 DEF DirChange, ReadEnds, vars, mainVars, threadVars, historyVars, Quiet, AtRest
<1> QED BY <1>2, <1>3, <1>8, <1>9, <1>10 DEF Next, Destroy

\* A thread in the loop over the changes runs.
LEMMA NextRunning == Running /\ [Next]_vars => Running'
<1> SUFFICES ASSUME Running, [Next]_vars PROVE Running'
  OBVIOUS
<1>1. ASSUME rs' = rs,
             thread' \in {thread, "spawned", "store_handle", "ended", "check", "aborted"}
      PROVE  Running'
  BY <1>1 DEF Running
<1>2. ASSUME NEW p \in Threads, ResetStep(p) PROVE Running'
  <2>1. ASSUME NEW at, Returns(p, at)
        PROVE  thread' \in {thread, "store_handle", "ended", "check"}
    BY <2>1 DEF Returns
  <2> QED BY <1>1, <1>2, <2>1 DEF ResetStep, TestHandle, TestDeleter, LoadHandle,
             CallDeleter, CallEmptied, ClearDeleter, ClearHandle, mainVars, threadVars
<1>3. CASE MainStep
  <2>1. CASE ResetStep("main")
    BY <1>2, <2>1 DEF Threads
  <2>2. CASE ~ ResetStep("main")
    BY <1>1, <1>3, <2>2 DEF MainStep, Store, Signal, AwaitClient, SetName, MainCloses,
       DestroyMembers, Join, threadVars
  <2> QED BY <2>1, <2>2
<1>4. CASE Stop \/ Destroy \/ ReadEnds \/ UNCHANGED vars
  BY <1>1, <1>4 DEF Stop, Destroy, MainCloses, ReadEnds, vars, threadVars
<1>5. ASSUME NEW d \in Dirs, Watch(d) \/ DirChange(d) PROVE Running'
  BY <1>1, <1>5 DEF Watch, DirChange, threadVars
<1>6. CASE Begin \/ Top \/ Check \/ Woken \/ Reset \/ ReadState
  BY <1>6 DEF Running, Begin, Top, Check, Woken, Reset, ReadState, ThreadAt
<1>7. CASE Timeout \/ Answer
  BY <1>7 DEF Running, Timeout, Answer, ThreadAt, LoopHead
<1>8. CASE CreateFile \/ StoreHandle \/ StoreDeleter \/ TestOpen
  BY <1>8 DEF Running, CreateFile, StoreHandle, StoreDeleter, TestOpen, ThreadAt
<1>9. CASE Arm \/ Process \/ Completed \/ Failed
  BY <1>9 DEF Running, Arm, Process, Completed, Failed, ThreadAt
<1>10. CASE \/ OwnStore("set_run", "set_run_signal", "run")
            \/ OwnSignal("set_run_signal", "arm")
            \/ OwnStore("set_sleep", "set_sleep_signal", "sleep")
            \/ OwnSignal("set_sleep_signal", "top")
  BY <1>10 DEF Running, OwnStore, OwnSignal, ThreadAt
<1>11. CASE ThreadStep
  BY <1>2, <1>6, <1>7, <1>8, <1>9, <1>10, <1>11 DEF ThreadStep, Threads
<1> QED BY <1>3, <1>4, <1>5, <1>11 DEF Next

-----------------------------------------------------------------------------
LEMMA ResetStepHandles ==
    ASSUME HandlesOK, NEW p \in Threads, ResetStep(p)
    PROVE  HandlesOK'
<1> USE DEF Threads
<1>1. {"out", "test_deleter", "load", "call", "clear_deleter", "clear_handle"}
         \subseteq ResetPlaces
  BY DEF ResetPlaces
<1>2. CASE TestHandle(p)
  <2>1. CASE handle = NoHandle /\ Returns(p, "test")
    BY <1>1, <1>2, <2>1 DEF HandlesOK, TestHandle, Returns, Goes, wrapVars, systemVars,
       historyVars
  <2>2. CASE Goes(p, "test", "test_deleter") /\ UNCHANGED <<main, thread>>
    BY <1>1, <1>2, <2>2 DEF HandlesOK, TestHandle, Goes, wrapVars, systemVars, historyVars
  <2> QED BY <1>2, <2>1, <2>2 DEF TestHandle
<1>3. CASE TestDeleter(p) \/ LoadHandle(p)
  BY <1>1, <1>3 DEF HandlesOK, TestDeleter, LoadHandle, Goes, wrapVars, mainVars,
     threadVars, systemVars, historyVars
<1>4. CASE CallDeleter(p)
  <2>1. dir_of' \in [Handles -> Dirs \cup {NoDir}]
    BY <1>4 DEF HandlesOK, CallDeleter, CloseHandle
  <2> QED BY <1>1, <1>4, <2>1 DEF HandlesOK, CallDeleter, Goes, wrapVars, mainVars,
             threadVars, historyVars
<1>5. CASE CallEmptied(p)
  <2>1. in_reset' = [q \in Threads |-> "out"] /\ main' = "aborted" /\ thread' = "aborted"
    BY <1>5 DEF CallEmptied
  <2> QED BY <1>1, <1>5, <2>1 DEF HandlesOK, CallEmptied, wrapVars, systemVars, historyVars
<1>6. CASE ClearDeleter(p) \/ ClearHandle(p)
  BY <1>1, <1>6 DEF HandlesOK, ClearDeleter, ClearHandle, Returns, Goes, mainVars,
     threadVars, systemVars, historyVars
<1> QED BY <1>2, <1>3, <1>4, <1>5, <1>6 DEF ResetStep

LEMMA NextHandles == TypeOK /\ Running /\ [Next]_vars => HandlesOK'
<1> SUFFICES ASSUME ControlOK, HandlesOK, Running, [Next]_vars PROVE HandlesOK'
  BY DEF TypeOK
<1>t. "test" \in ResetPlaces
  BY DEF ResetPlaces
<1>1. CASE Quiet
  BY <1>1 DEF HandlesOK, Quiet, wrapVars, resetVars, Resetting, Closing
<1>2. ASSUME NEW p \in Threads, ResetStep(p) PROVE HandlesOK'
  BY <1>2, ResetStepHandles
<1>3. ASSUME NEW at, NEW next \in {"stop_close", "destroy_close"}, MainCloses(at, next),
             at \notin {"stop_close", "destroy_close"}
      PROVE  HandlesOK'
  BY <1>t, <1>3 DEF HandlesOK, MainCloses, MainAt, EnterReset, Threads, wrapVars,
     threadVars, systemVars
<1>4. CASE DestroyMembers
  BY <1>4 DEF HandlesOK, DestroyMembers, MainAt, threadVars, resetVars, systemVars,
     historyVars
<1>5. CASE Top /\ thread' = "top_close"
  BY <1>t, <1>5 DEF HandlesOK, Top, ThreadAt, EnterReset, Threads, wrapVars, mainVars,
     systemVars, historyVars
<1>6. CASE CreateFile
  <2>1. fresh' \in Handles \cup {NoHandle} /\ dir_of' \in [Handles -> Dirs \cup {NoDir}]
    BY <1>6 DEF ControlOK, HandlesOK, CreateFile
  <2> QED BY <1>t, <1>6, <2>1 DEF HandlesOK, CreateFile, ThreadAt, EnterReset, Threads,
             wrapVars, mainVars, historyVars
<1>7. CASE StoreHandle \/ StoreDeleter
  BY <1>7 DEF HandlesOK, StoreHandle, StoreDeleter, ThreadAt, resetVars, systemVars,
     mainVars, historyVars
<1>8. CASE MainCloses("stop_reset", "stop_close") \/ MainCloses("idle", "destroy_close")
  BY <1>3, <1>8
<1> QED BY <1>1, <1>2, <1>4, <1>5, <1>6, <1>7, <1>8, MostAreQuiet

-----------------------------------------------------------------------------
\* What a step may do with the reads of the system and the changes.
LEMMA MostLeaveReads ==
    ASSUME [Next]_vars
    PROVE  \/ UNCHANGED <<systemVars, dataVars>>
           \/ CreateFile \/ Arm \/ Process \/ Completed \/ Failed \/ ReadEnds
           \/ \E p \in Threads : CallDeleter(p)
           \/ \E d \in Dirs : DirChange(d)
<1>1. ASSUME NEW d \in Dirs, Watch(d) PROVE UNCHANGED <<systemVars, dataVars>>
  BY <1>1 DEF Watch, ioVars
<1>2. ASSUME NEW p \in Threads, ResetStep(p), ~ CallDeleter(p)
      PROVE  UNCHANGED <<systemVars, dataVars>>
  BY <1>2 DEF ResetStep, TestHandle, TestDeleter, LoadHandle, CallEmptied, ClearDeleter,
     ClearHandle
<1>3. ASSUME MainStep, ~ ResetStep("main")
      PROVE  UNCHANGED <<systemVars, dataVars>>
  BY <1>3 DEF MainStep, Store, Signal, AwaitClient, SetName, MainCloses, DestroyMembers,
     Join, ioVars
<1>4. ASSUME ThreadStep, ~ ResetStep("thread"),
             ~ (CreateFile \/ Arm \/ Process \/ Completed \/ Failed)
      PROVE  UNCHANGED <<systemVars, dataVars>>
  BY <1>4 DEF ThreadStep, Begin, Top, Check, Woken, Timeout, Reset, ReadState, Answer,
     StoreHandle, StoreDeleter, TestOpen, OwnStore, OwnSignal, ioVars
<1>5. CASE Stop \/ Destroy \/ UNCHANGED vars
  BY <1>5 DEF Stop, Destroy, MainCloses, vars, ioVars
<1>6. ASSUME NEW p \in Threads, ResetStep(p)
      PROVE  UNCHANGED <<systemVars, dataVars>> \/ CallDeleter(p)
  BY <1>2, <1>6
<1>7. CASE MainStep
  BY <1>3, <1>6, <1>7 DEF Threads
<1>8. CASE ThreadStep
  BY <1>4, <1>6, <1>8 DEF Threads
<1> QED BY <1>1, <1>5, <1>7, <1>8 DEF Next

LEMMA NextReads == TypeOK /\ [Next]_vars => ReadsOK'
<1> SUFFICES ASSUME ControlOK, HandlesOK, ReadsOK, [Next]_vars PROVE ReadsOK'
  BY DEF TypeOK
<1>e. << >> \in Seq(1..MaxChanges)
  OBVIOUS
<1>1. ASSUME NEW d \in Dirs, DirChange(d) PROVE ReadsOK'
  <2>1. made + 1 \in 1..MaxChanges /\ made' \in 0..MaxChanges
    BY <1>1, BoundsAssumption DEF ReadsOK, DirChange
  <2>2. <<made + 1>> \in Seq(1..MaxChanges)
    BY <2>1
  <2>3. CASE watched # NoHandle /\ dir_of[watched] = d /\ read = "pending"
    <3>1. /\ read' = "done" /\ data' = <<made + 1>>
          /\ UNCHANGED <<queue, dir_of, watched, last, reported>>
      BY <1>1, <2>3 DEF DirChange
    <3> QED BY <2>1, <2>2, <3>1 DEF ReadsOK
  <2>4. CASE watched # NoHandle /\ dir_of[watched] = d /\ read # "pending"
    <3>1. /\ queue' = Append(queue, made + 1)
          /\ UNCHANGED <<read, data, dir_of, watched, last, reported>>
      BY <1>1, <2>4 DEF DirChange
    <3>2. queue' \in Seq(1..MaxChanges)
      BY <2>1, <3>1, AppendProperties DEF ReadsOK
    <3> QED BY <2>1, <2>4, <3>1, <3>2 DEF ReadsOK
  <2>5. CASE ~ (watched # NoHandle /\ dir_of[watched] = d)
    <3>1. UNCHANGED <<read, data, queue, dir_of, watched, last, reported>>
      BY <1>1, <2>5 DEF DirChange
    <3> QED BY <2>1, <3>1 DEF ReadsOK
  <2> QED BY <2>3, <2>4, <2>5
<1>2. CASE Process
  <2>1. reported' \in Seq(1..MaxChanges)
    BY <1>2, ConcatProperties DEF ReadsOK, Process
  <2> QED BY <1>2, <2>1 DEF ReadsOK, Process, systemVars
<1>3. CASE CreateFile
  <2>1. /\ UNCHANGED <<watched, queue, read, data, last, made, reported>>
        /\ \/ dir_of' = dir_of
           \/ \E h \in Handles :
                 dir_of[h] = NoDir /\ name # NoDir /\ dir_of' = [dir_of EXCEPT ![h] = name]
    BY <1>3 DEF CreateFile, dataVars
  <2>2. watched # NoHandle => dir_of'[watched] # NoDir
    BY <2>1 DEF HandlesOK, ReadsOK
  <2> QED BY <2>1, <2>2 DEF ReadsOK
<1>4. CASE Arm
  <2>1. CASE UNCHANGED <<watched, queue, read, data>>
    BY <1>4, <2>1 DEF ReadsOK, Arm, dataVars
  <2>2. CASE ~ UNCHANGED <<watched, queue, read, data>>
    <3>1. /\ handle # NoHandle /\ dir_of[handle] # NoDir
          /\ watched' = handle
          /\ queue' = << >>
          /\ data' = IF watched = handle THEN queue ELSE << >>
          /\ read' = IF data' = << >> THEN "pending" ELSE "done"
          /\ UNCHANGED <<dir_of, last, made, reported>>
      BY <1>4, <2>2 DEF Arm, dataVars
    <3> QED BY <1>e, <3>1 DEF HandlesOK, ReadsOK
  <2> QED BY <2>1, <2>2
<1>5. CASE Completed \/ Failed
  <2>1. last' \in Seq(1..MaxChanges)
    BY <1>e, <1>5 DEF ReadsOK, Completed, Failed
  <2> QED BY <1>5, <2>1 DEF ReadsOK, Completed, Failed, systemVars
<1>6. CASE ReadEnds
  BY <1>6 DEF ReadsOK, ReadEnds, dataVars
<1>7. ASSUME NEW p \in Threads, CallDeleter(p) PROVE ReadsOK'
  <2>1. /\ CloseHandle(loaded[p])
        /\ UNCHANGED <<data, last, made, reported>>
    BY <1>7 DEF CallDeleter, dataVars
  <2>2. CASE loaded[p] = watched
    <3>1. /\ watched' = NoHandle /\ queue' = << >>
          /\ read' \in IF read = "pending" THEN {"done", "failed"} ELSE {read}
      BY <2>1, <2>2 DEF CloseHandle
    <3> QED BY <1>e, <2>1, <3>1 DEF ReadsOK
  <2>3. CASE loaded[p] # watched
    <3>1. /\ UNCHANGED <<watched, queue, read>>
          /\ dir_of' = [k \in Handles |-> IF k = loaded[p] THEN NoDir ELSE dir_of[k]]
      BY <2>1, <2>3 DEF CloseHandle
    <3>2. watched # NoHandle => dir_of'[watched] = dir_of[watched]
      BY <2>3, <3>1 DEF ReadsOK
    <3> QED BY <2>1, <3>1, <3>2 DEF ReadsOK
  <2> QED BY <2>2, <2>3
<1>8. CASE UNCHANGED <<systemVars, dataVars>>
  BY <1>8 DEF ReadsOK, systemVars, dataVars
<1> QED BY <1>1, <1>2, <1>3, <1>4, <1>5, <1>6, <1>7, <1>8, MostLeaveReads

LEMMA InitType == Init => TypeOK /\ Running
<1> SUFFICES ASSUME Init PROVE TypeOK /\ Running
  OBVIOUS
<1>1. 0 \in 0..MaxCalls /\ 0 \in 0..MaxChanges
  BY BoundsAssumption
<1>2. ControlOK
  BY <1>1 DEF Init, ControlOK, MainPlaces, ThreadPlaces, States
<1>3. HandlesOK
  BY DEF Init, HandlesOK, ResetPlaces, Threads
<1>4. ReadsOK
  <2>1. << >> \in Seq(1..MaxChanges)
    OBVIOUS
  <2> QED BY <1>1, <2>1 DEF Init, ReadsOK
<1>5. Running
  BY DEF Init, Running
<1> QED BY <1>2, <1>3, <1>4, <1>5 DEF TypeOK

LEMMA TypeAndRunning == Spec => [](TypeOK /\ Running)
<1>1. (TypeOK /\ Running) /\ [Next]_vars => (TypeOK /\ Running)'
  BY NextControl, NextHandles, NextReads, NextRunning DEF TypeOK
<1> QED BY InitType, <1>1, PTL DEF Spec

\* The two threads and the system keep what they share in order: reset is entered and
\* left where it is called, a read is under way, and changes are kept for it, only while
\* its handle is open, whichever thread closes it.
THEOREM TypeCorrect == Spec => []TypeOK
BY TypeAndRunning, PTL

-----------------------------------------------------------------------------
\* A state that main has stored, and the thread has not seen, has its event: set, about
\* to be set, or just reset by a thread that reads the state next.
Unseen == {"none", "spawned", "read", "aborted"}

Announced ==
    change = "stored" /\ thread \notin Unseen => server_event \/ main \in Signals

LEMMA NextAnnounced == HandlesOK /\ Announced /\ [Next]_vars => Announced'
<1> SUFFICES ASSUME HandlesOK, Announced, [Next]_vars PROVE Announced'
  OBVIOUS
<1> USE DEF Unseen
<1>1. ASSUME UNCHANGED <<server_event, change>>,
             main' = main \/ main \notin Signals,
             thread' = thread \/ thread \notin Unseen \/ thread' \in Unseen
      PROVE  Announced'
  BY <1>1 DEF Announced
<1>2. ASSUME NEW p \in Threads, ResetStep(p) PROVE Announced'
  <2>1. UNCHANGED <<server_event, change>>
    BY <1>2 DEF ResetStep, TestHandle, TestDeleter, LoadHandle, CallDeleter, CallEmptied,
       ClearDeleter, ClearHandle, sharedVars, historyVars
  <2>2. ASSUME NEW at \in {"test", "clear_handle"}, Returns(p, at)
        PROVE  /\ main' = main \/ main \notin Signals
               /\ thread' = thread \/ thread \notin Unseen
    BY <2>2 DEF HandlesOK, Returns, Goes, Threads, Signals
  <2>3. CASE CallEmptied(p)
    <3>1. in_reset[p] # "out" /\ thread' = "aborted"
      BY <2>3 DEF CallEmptied
    <3> QED BY <2>1, <3>1 DEF Announced
  <2>4. ASSUME ~ CallEmptied(p)
        PROVE  /\ main' = main \/ main \notin Signals
               /\ thread' = thread \/ thread \notin Unseen
    BY <1>2, <2>2, <2>4 DEF ResetStep, TestHandle, TestDeleter, LoadHandle, CallDeleter,
       ClearDeleter, ClearHandle, mainVars, threadVars
  <2> QED BY <1>1, <2>1, <2>3, <2>4
<1>3. ASSUME NEW at, NEW next \in Signals, NEW s, Store(at, next, s)
      PROVE  Announced'
  BY <1>3 DEF Announced, Store, MainAt
<1>4. ASSUME NEW at, NEW next, Signal(at, next)
      PROVE  Announced'
  BY <1>4 DEF Announced, Signal, threadVars
<1>5. ASSUME NEW at, NEW next, AwaitClient(at, next) \/ MainCloses(at, next),
             at \notin Signals
      PROVE  Announced'
  BY <1>1, <1>5 DEF AwaitClient, MainCloses, MainAt, threadVars, sharedVars
<1>6. CASE SetName \/ DestroyMembers \/ Join \/ Stop \/ Destroy
  BY <1>1, <1>6 DEF SetName, DestroyMembers, Join, Stop, Destroy, MainCloses, MainAt,
     threadVars, sharedVars, historyVars, Signals
<1>7. CASE MainStep
  <2>1. CASE \/ Store("watch_sleep", "watch_sleep_signal", "sleep")
             \/ Store("watch_init", "watch_init_signal", "init")
             \/ Store("stop", "stop_signal", "sleep")
             \/ Store("destroy", "destroy_signal", "shutdown")
    BY <1>3, <2>1 DEF Signals
  <2>2. CASE \/ Signal("watch_sleep_signal", "watch_sleep_wait")
             \/ Signal("watch_init_signal", "watch_init_wait")
             \/ Signal("stop_signal", "stop_reset")
             \/ Signal("destroy_signal", "destroy_wait")
    BY <1>4, <2>2
  <2>3. CASE \/ AwaitClient("watch_sleep_wait", "watch_name")
             \/ AwaitClient("watch_init_wait", "idle")
             \/ AwaitClient("destroy_wait", "join")
             \/ MainCloses("stop_reset", "stop_close")
    BY <1>5, <2>3 DEF Signals
  <2> QED BY <1>2, <1>6, <1>7, <2>1, <2>2, <2>3 DEF MainStep, Threads
<1>8. CASE Begin \/ ReadState \/ OwnStore("set_run", "set_run_signal", "run")
             \/ OwnStore("set_sleep", "set_sleep_signal", "sleep")
  BY <1>8 DEF Announced, Begin, ReadState, OwnStore, ThreadAt, Overwritten
<1>9. CASE OwnSignal("set_run_signal", "arm") \/ OwnSignal("set_sleep_signal", "top")
             \/ Reset
  BY <1>9 DEF Announced, OwnSignal, Reset, ThreadAt
<1>10. CASE Top \/ Check \/ Woken \/ Timeout \/ Answer
  BY <1>1, <1>10 DEF Top, Check, Woken, Timeout, Answer, ThreadAt, mainVars, sharedVars,
     historyVars
<1>11. CASE CreateFile \/ StoreHandle \/ StoreDeleter \/ TestOpen \/ Arm \/ Process
             \/ Completed \/ Failed
  BY <1>1, <1>11 DEF CreateFile, StoreHandle, StoreDeleter, TestOpen, Arm, Process,
     Completed, Failed, ThreadAt, mainVars, sharedVars, historyVars
<1>12. CASE ThreadStep
  BY <1>2, <1>8, <1>9, <1>10, <1>11, <1>12 DEF ThreadStep, Threads
<1>13. ASSUME NEW d \in Dirs, Watch(d)
      PROVE  Announced'
  BY <1>1, <1>13 DEF Watch, MainAt, sharedVars, Signals
<1>14. CASE UNCHANGED vars \/ ReadEnds \/ \E d \in Dirs : DirChange(d)
  BY <1>1, <1>14 DEF DirChange, ReadEnds, vars, mainVars, threadVars, sharedVars,
     historyVars
<1> QED BY <1>6, <1>7, <1>12, <1>13, <1>14 DEF Next

\* The background thread never sleeps over what main has stored, whatever the two threads
\* do between setting, resetting and reading: it reads it, or has put a state of its own
\* in its place.
THEOREM NeverMissed == Spec => []NoMissedWakeup
<1>1. Init => Announced
  BY DEF Init, Announced
<1>2. Announced => NoMissedWakeup
  BY DEF Announced, Unseen, NoMissedWakeup
<1>3. TypeOK /\ Announced /\ [Next]_vars => Announced'
  BY NextAnnounced DEF TypeOK
<1> QED BY <1>1, <1>2, <1>3, TypeCorrect, PTL DEF Spec

-----------------------------------------------------------------------------
\* Whose handle h is while it is open.  The thread has it from CreateFile to the first
\* store of handle_wrap::reset, then the wrapper holds it, with its deleter, until reset
\* has called that on it, in whichever thread; a close by main between the stores, and
\* the destruction of the members, must not come in between.
InFlight(h) == thread \in {"open_close", "store_handle"} /\ fresh = h

Kept(h) ==
    /\ handle = h
    /\ ~ AtRest /\ thread # "store_handle"
    /\ thread = "store_deleter" \/ deleter
    /\ thread = "store_deleter" => fresh = h /\ main \notin Closing
    /\ main # "destroy_members"
    /\ \A p \in Threads :
          /\ in_reset[p] \notin {"clear_deleter", "clear_handle"}
          /\ in_reset[p] = "call" => loaded[p] = h

Accounted ==
    thread # "aborted" =>
        \A h \in Handles : dir_of[h] # NoDir => h \in torn \/ InFlight(h) \/ Kept(h)

LEMMA ResetStepAccounted ==
    ASSUME HandlesOK, Accounted, NEW p \in Threads, ResetStep(p)
    PROVE  Accounted'
<1>1. thread # "aborted" \/ thread' = "aborted"
  BY DEF HandlesOK, ResetStep, TestHandle, TestDeleter, LoadHandle, CallDeleter,
     CallEmptied, ClearDeleter, ClearHandle, Returns, Goes, mainVars, threadVars, Threads
<1> SUFFICES ASSUME thread # "aborted", thread' # "aborted",
                    NEW h \in Handles, dir_of'[h] # NoDir, h \notin torn'
             PROVE  InFlight(h)' \/ Kept(h)'
  BY <1>1 DEF Accounted
<1>2. /\ h \notin torn /\ dir_of[h] # NoDir /\ fresh' = fresh
      /\ InFlight(h) \/ Kept(h)
  <2>1. UNCHANGED <<torn, fresh>>
    BY DEF ResetStep, TestHandle, TestDeleter, LoadHandle, CallDeleter, CallEmptied,
       ClearDeleter, ClearHandle, threadVars, historyVars
  <2>2. CASE CallDeleter(p)
    BY <2>1, <2>2 DEF CallDeleter, CloseHandle, Accounted
  <2>3. CASE ~ CallDeleter(p)
    BY <2>1, <2>3 DEF ResetStep, TestHandle, TestDeleter, LoadHandle, CallEmptied,
       ClearDeleter, ClearHandle, systemVars, Accounted
  <2> QED BY <2>1, <2>2, <2>3
\* Where reset returns, nothing is kept: the handle was empty or has been closed.
<1>3. ASSUME NEW at, at # "out", Returns(p, at), ~ Kept(h)
      PROVE  InFlight(h)'
  <2>1. InFlight(h)
    BY <1>2, <1>3
  <2> QED BY <1>2, <1>3, <2>1 DEF HandlesOK, InFlight, Returns, Goes, Threads
<1>4. ASSUME UNCHANGED <<main, thread>>, InFlight(h) PROVE InFlight(h)'
  BY <1>2, <1>4 DEF InFlight
<1>5. CASE TestHandle(p)
  <2>1. CASE handle = NoHandle /\ Returns(p, "test")
    <3>1. ~ Kept(h)
      BY <2>1, NoHandleAssumption DEF Kept
    <3> QED BY <1>3, <2>1, <3>1
  <2>2. ASSUME Goes(p, "test", "test_deleter"), UNCHANGED <<main, thread>>, Kept(h)
        PROVE  Kept(h)'
    BY <1>5, <2>2 DEF HandlesOK, Kept, AtRest, TestHandle, Goes, wrapVars
  <2> QED BY <1>2, <1>4, <1>5, <2>1, <2>2 DEF TestHandle
<1>6. CASE TestDeleter(p)
  <2>1. UNCHANGED <<main, thread>>
    BY <1>6 DEF TestDeleter, mainVars, threadVars
  <2>2. ASSUME Kept(h) PROVE Kept(h)'
    <3>1. deleter
      BY <1>6, <2>2 DEF HandlesOK, Kept, TestDeleter, Goes, Threads, Closing
    <3>2. /\ \A q \in Threads : in_reset'[q] \in {in_reset[q], "load"}
          /\ UNCHANGED <<handle, deleter, main, thread, rs, fresh, loaded>>
      BY <1>6, <3>1 DEF HandlesOK, TestDeleter, Goes, wrapVars, mainVars, threadVars
    <3> QED BY <2>2, <3>2 DEF Kept, AtRest
  <2> QED BY <1>2, <1>4, <2>1, <2>2
<1>7. CASE LoadHandle(p)
  <2>1. UNCHANGED <<main, thread>>
    BY <1>7 DEF LoadHandle, mainVars, threadVars
  <2>2. ASSUME Kept(h) PROVE Kept(h)'
    <3>1. /\ \A q \in Threads : /\ in_reset'[q] = IF q = p THEN "call" ELSE in_reset[q]
                                /\ loaded'[q] = IF q = p THEN handle ELSE loaded[q]
          /\ UNCHANGED <<handle, deleter, main, thread, rs, fresh>>
      BY <1>7 DEF HandlesOK, LoadHandle, Goes, wrapVars, mainVars, threadVars
    <3> QED BY <2>2, <3>1 DEF Kept, AtRest
  <2> QED BY <1>2, <1>4, <2>1, <2>2
<1>8. CASE CallDeleter(p)
  <2>1. UNCHANGED <<main, thread>> /\ in_reset[p] = "call" /\ loaded[p] # h
    BY <1>8 DEF CallDeleter, CloseHandle, Goes, mainVars, threadVars
  <2>2. ~ Kept(h)
    BY <2>1 DEF Kept
  <2> QED BY <1>2, <1>4, <2>1, <2>2
<1>9. CASE ClearDeleter(p)
  <2>1. UNCHANGED <<main, thread>> /\ ~ Kept(h)
    BY <1>9 DEF ClearDeleter, Goes, mainVars, threadVars, Kept
  <2> QED BY <1>2, <1>4, <2>1
<1>10. CASE ClearHandle(p)
  BY <1>3, <1>10 DEF ClearHandle, Returns, Goes, Kept
<1>11. CASE CallEmptied(p)
  BY <1>11 DEF CallEmptied
<1> QED BY <1>5, <1>6, <1>7, <1>8, <1>9, <1>10, <1>11 DEF ResetStep

LEMMA NextAccounted == TypeOK /\ Running /\ Accounted /\ [Next]_vars => Accounted'
<1> SUFFICES ASSUME HandlesOK, Running, Accounted, [Next]_vars PROVE Accounted'
  BY DEF TypeOK
<1>1. CASE Quiet /\ (AtRest' => AtRest)
  <2> USE DEF Quiet, wrapVars, resetVars, Resetting, Closing
  <2>1. thread = "aborted" => thread' = "aborted"
    BY <1>1
  <2>2. ASSUME NEW h \in Handles, InFlight(h) PROVE InFlight(h)'
    BY <1>1, <2>2 DEF InFlight
  <2>3. ASSUME NEW h \in Handles, Kept(h) PROVE Kept(h)'
    BY <1>1, <2>3 DEF Kept
  <2> QED BY <1>1, <2>1, <2>2, <2>3 DEF Accounted
<1>2. ASSUME NEW p \in Threads, ResetStep(p) PROVE Accounted'
  BY <1>2, ResetStepAccounted
<1>3. ASSUME NEW at, NEW next, at # "destroy_members", next # "destroy_members",
             MainCloses(at, next)
      PROVE  Accounted'
  BY <1>3 DEF Accounted, InFlight, Kept, AtRest, HandlesOK, MainCloses, MainAt, EnterReset,
     Threads, wrapVars, threadVars, systemVars
<1>4. CASE DestroyMembers
  BY <1>4 DEF Accounted, InFlight, Kept, DestroyMembers, MainAt, threadVars, systemVars,
     historyVars
<1>5. CASE Top /\ thread' = "top_close"
  BY <1>5 DEF Accounted, InFlight, Kept, AtRest, HandlesOK, Top, ThreadAt, EnterReset,
     Threads, wrapVars, mainVars, systemVars, historyVars
<1>6. CASE CreateFile
  BY <1>6 DEF Accounted, InFlight, Kept, AtRest, HandlesOK, CreateFile, ThreadAt,
     EnterReset, Threads, wrapVars, mainVars, historyVars
<1>7. CASE StoreHandle
  BY <1>7 DEF Accounted, InFlight, Kept, AtRest, HandlesOK, StoreHandle, ThreadAt, Threads,
     Closing, resetVars, mainVars, systemVars
<1>8. CASE StoreDeleter
  BY <1>8 DEF Accounted, InFlight, Kept, AtRest, HandlesOK, StoreDeleter, ThreadAt,
     resetVars, mainVars, systemVars, historyVars
<1>9. CASE MainCloses("stop_reset", "stop_close") \/ MainCloses("idle", "destroy_close")
  BY <1>3, <1>9
<1> QED BY <1>1, <1>2, <1>4, <1>5, <1>6, <1>7, <1>8, <1>9, MostAreQuiet

\* Every open handle has an owner who closes it before the thread sleeps or ends, or the
\* thread was storing it when main closed.
THEOREM SleepsClosed == Spec => []AsleepIsClosed
<1>1. Init => Accounted
  BY DEF Init, Accounted
<1>2. Accounted => AsleepIsClosed
  BY DEF Accounted, AsleepIsClosed, InFlight, Kept, AtRest
<1>3. (TypeOK /\ Running) /\ Accounted /\ [Next]_vars => Accounted'
  BY NextAccounted
<1> QED BY <1>1, <1>2, <1>3, TypeAndRunning, PTL DEF Spec

-----------------------------------------------------------------------------
\* The changes that were reported, those in the second buffer that are still to be
\* reported, those the read returns and those the system keeps come in the order in
\* which they were made.
Rising(s) == \A i, j \in DOMAIN s : i < j => s[i] < s[j]
Before(s, t) == \A i \in DOMAIN s, j \in DOMAIN t : s[i] < t[j]
UpTo(s, n) == \A i \in DOMAIN s : s[i] <= n

Armed == {"process", "overlapped"}

InOrder ==
    /\ Rising(reported) /\ Rising(last) /\ Rising(data) /\ Rising(queue)
    /\ UpTo(reported, made) /\ UpTo(last, made) /\ UpTo(data, made) /\ UpTo(queue, made)
    /\ Before(reported, queue) /\ Before(last, queue)
    /\ thread \in Armed =>
          Before(reported, data) /\ Before(last, data) /\ Before(data, queue)
    /\ thread \notin {"overlapped", "aborted"} => Before(reported, last)

LEMMA EmptyInOrder ==
    ASSUME NEW s, NEW n
    PROVE  Rising(<< >>) /\ UpTo(<< >>, n) /\ Before(<< >>, s) /\ Before(s, << >>)
BY DEF Rising, UpTo, Before

LEMMA ConcatInOrder ==
    ASSUME NEW s \in Seq(1..MaxChanges), NEW t \in Seq(1..MaxChanges),
           NEW u, NEW n, Rising(s), Rising(t), Before(s, t),
           UpTo(s, n), UpTo(t, n), Before(s, u), Before(t, u)
    PROVE  Rising(s \o t) /\ UpTo(s \o t, n) /\ Before(s \o t, u)
<1>1. /\ DOMAIN s = 1..Len(s) /\ DOMAIN t = 1..Len(t)
      /\ Len(s) \in Nat /\ Len(t) \in Nat
  BY LenProperties
<1>2. /\ s \o t \in Seq(1..MaxChanges) /\ Len(s \o t) = Len(s) + Len(t)
      /\ \A i \in 1..Len(s) + Len(t) :
            (s \o t)[i] = IF i <= Len(s) THEN s[i] ELSE t[i - Len(s)]
  BY ConcatProperties
<1>3. DOMAIN (s \o t) = 1..Len(s) + Len(t)
  BY <1>2, LenProperties
<1>4. \A i \in DOMAIN (s \o t) :
         \/ i \in DOMAIN s /\ (s \o t)[i] = s[i]
         \/ i - Len(s) \in DOMAIN t /\ (s \o t)[i] = t[i - Len(s)] /\ i \notin DOMAIN s
  BY <1>1, <1>2, <1>3
<1>5. UpTo(s \o t, n)
  BY <1>4 DEF UpTo
<1>6. Before(s \o t, u)
  BY <1>4 DEF Before
<1>7. ASSUME NEW i \in DOMAIN (s \o t), NEW j \in DOMAIN (s \o t), i < j
      PROVE  (s \o t)[i] < (s \o t)[j]
  <2>1. CASE i \in DOMAIN s /\ j \in DOMAIN s
    BY <1>1, <1>2, <1>3, <1>7, <2>1 DEF Rising
  <2>2. CASE i \in DOMAIN s /\ j \notin DOMAIN s
    BY <1>4, <1>1, <1>2, <1>3, <2>2 DEF Before
  <2>3. CASE i \notin DOMAIN s
    <3>1. /\ i - Len(s) \in DOMAIN t /\ j - Len(s) \in DOMAIN t
          /\ i - Len(s) < j - Len(s)
      BY <1>1, <1>3, <1>7, <2>3
    <3>2. (s \o t)[i] = t[i - Len(s)] /\ (s \o t)[j] = t[j - Len(s)]
      BY <1>1, <1>2, <1>3, <1>7, <2>3
    <3> QED BY <3>1, <3>2 DEF Rising
  <2> QED BY <2>1, <2>2, <2>3
<1> QED BY <1>5, <1>6, <1>7 DEF Rising

LEMMA AppendInOrder ==
    ASSUME NEW s \in Seq(1..MaxChanges), NEW n \in Nat, NEW u \in Seq(1..MaxChanges),
           Rising(s), UpTo(s, n), UpTo(u, n), Before(u, s)
    PROVE  /\ Rising(Append(s, n + 1)) /\ UpTo(Append(s, n + 1), n + 1)
           /\ Before(u, Append(s, n + 1)) /\ UpTo(u, n + 1) /\ UpTo(s, n + 1)
<1>1. /\ s \in Seq(Nat) /\ u \in Seq(Nat)
  BY BoundsAssumption
<1> DEFINE a == Append(s, n + 1)
<1>2. /\ a \in Seq(Nat) /\ Len(a) = Len(s) + 1 /\ a[Len(s) + 1] = n + 1
      /\ \A i \in 1..Len(s) : a[i] = s[i]
  BY <1>1, AppendProperties
<1>3. /\ DOMAIN s = 1..Len(s) /\ Len(s) \in Nat /\ DOMAIN a = 1..Len(a)
  BY <1>1, <1>2, LenProperties
<1>4. \A i \in DOMAIN a : \/ i \in DOMAIN s /\ i < Len(s) + 1 /\ a[i] = s[i]
                          \/ i = Len(s) + 1 /\ a[i] = n + 1
  BY <1>2, <1>3
<1>5. /\ \A i \in DOMAIN s : i \in Nat /\ s[i] \in Nat
      /\ \A i \in DOMAIN u : u[i] \in Nat
  BY <1>1, LenProperties, ElementOfSeq
<1> HIDE DEF a
<1>6. Rising(a) /\ UpTo(a, n + 1) /\ Before(u, a) /\ UpTo(u, n + 1) /\ UpTo(s, n + 1)
  <2>1. UpTo(a, n + 1) /\ UpTo(u, n + 1) /\ UpTo(s, n + 1)
    BY <1>4, <1>5 DEF UpTo
  <2>2. Before(u, a)
    BY <1>4, <1>5 DEF UpTo, Before
  <2>3. Rising(a)
    BY <1>3, <1>4, <1>5 DEF UpTo, Rising
  <2> QED BY <2>1, <2>2, <2>3
<1> QED BY <1>6 DEF a

LEMMA NextInOrder == TypeOK /\ InOrder /\ [Next]_vars => InOrder'
<1> SUFFICES ASSUME HandlesOK, ReadsOK, InOrder, [Next]_vars PROVE InOrder'
  BY DEF TypeOK
<1> USE DEF Armed
<1>1. ASSUME NEW d \in Dirs, DirChange(d) PROVE InOrder'
  <2>1. /\ UNCHANGED <<reported, last, thread>> /\ made' = made + 1 /\ made \in Nat
    BY <1>1 DEF DirChange, threadVars, ReadsOK
  <2>2. /\ UpTo(reported, made + 1) /\ UpTo(last, made + 1)
        /\ UpTo(data, made + 1) /\ UpTo(queue, made + 1)
    <3>1. /\ \A i \in DOMAIN reported : reported[i] \in Nat
          /\ \A i \in DOMAIN last : last[i] \in Nat
          /\ \A i \in DOMAIN data : data[i] \in Nat
          /\ \A i \in DOMAIN queue : queue[i] \in Nat
      BY BoundsAssumption, LenProperties, ElementOfSeq DEF ReadsOK
    <3> QED BY <2>1, <3>1 DEF InOrder, UpTo
  <2>3. CASE read = "pending" /\ read' = "done"
    <3>1. queue = << >> /\ data' = <<made + 1>> /\ queue' = queue
      BY <1>1, <2>3 DEF DirChange, ReadsOK
    <3>2. <<made + 1>> = Append(<< >>, made + 1)
      OBVIOUS
    <3>3. << >> \in Seq(1..MaxChanges)
      OBVIOUS
    <3>4. ASSUME NEW u \in Seq(1..MaxChanges), UpTo(u, made)
          PROVE  /\ Rising(<<made + 1>>) /\ UpTo(<<made + 1>>, made + 1)
                 /\ Before(u, <<made + 1>>)
      BY <2>1, <3>2, <3>3, <3>4, AppendInOrder, EmptyInOrder
    <3>5. /\ Rising(data') /\ UpTo(data', made + 1)
          /\ Before(reported, data') /\ Before(last, data')
      BY <3>1, <3>4 DEF InOrder, ReadsOK
    <3>6. Before(data', queue) /\ Before(reported, queue) /\ Before(last, queue)
          /\ Rising(queue)
      BY <3>1, EmptyInOrder
    <3> QED BY <2>1, <2>2, <3>1, <3>5, <3>6 DEF InOrder
  <2>4. CASE queue' = Append(queue, made + 1) /\ UNCHANGED data
    <3>1. ASSUME NEW u \in Seq(1..MaxChanges), UpTo(u, made), Before(u, queue)
          PROVE  /\ Rising(queue') /\ UpTo(queue', made + 1) /\ Before(u, queue')
      BY <2>1, <2>4, <3>1, AppendInOrder DEF InOrder, ReadsOK
    <3>2. /\ Rising(queue') /\ UpTo(queue', made + 1)
          /\ Before(reported, queue') /\ Before(last, queue')
          /\ Before(data, queue) => Before(data, queue')
      BY <3>1 DEF InOrder, ReadsOK
    <3> QED BY <2>1, <2>2, <2>4, <3>2 DEF InOrder
  <2>5. CASE UNCHANGED <<queue, data>>
    BY <2>1, <2>2, <2>5 DEF InOrder
  <2> QED BY <1>1, <2>3, <2>4, <2>5 DEF DirChange
<1>2. CASE Process
  <2>1. /\ reported' = reported \o last /\ thread = "process" /\ thread' = "overlapped"
        /\ UNCHANGED <<last, data, queue, made>>
    BY <1>2 DEF Process, ThreadAt, systemVars
  <2>2. Rising(reported') /\ UpTo(reported', made) /\ Before(reported', queue)
        /\ Before(reported', data)
    BY <2>1, ConcatInOrder DEF InOrder, ReadsOK
  <2> QED BY <2>1, <2>2 DEF InOrder
<1>3. CASE Completed
  <2>1. /\ last' = data /\ thread = "overlapped" /\ thread' = "check"
        /\ UNCHANGED <<reported, made, data, queue>>
    BY <1>3 DEF Completed, ThreadAt, systemVars
  <2> QED BY <2>1 DEF InOrder
<1>4. CASE Failed
  <2>1. /\ last' = << >> /\ thread' = "set_sleep"
        /\ UNCHANGED <<reported, made, data, queue>>
    BY <1>4 DEF Failed, ThreadAt, systemVars
  <2> QED BY <2>1, EmptyInOrder DEF InOrder
<1>5. CASE Arm
  <2>1. /\ UNCHANGED <<reported, made, last>> /\ thread = "arm"
        /\ \/ data' \in {queue, << >>} /\ queue' = << >> /\ thread' = "process"
           \/ UNCHANGED <<data, queue>> /\ thread' = "set_sleep"
    BY <1>5 DEF Arm, ThreadAt, dataVars
  <2> QED BY <2>1, EmptyInOrder DEF InOrder
<1>6. ASSUME UNCHANGED <<reported, made, last, data>>, queue' = queue \/ queue' = << >>,
             thread' \in Armed => thread' = thread,
             thread' \notin {"overlapped", "aborted"} =>
                thread \notin {"overlapped", "aborted"}
      PROVE  InOrder'
  BY <1>6, EmptyInOrder DEF InOrder
<1>7. ASSUME NEW p \in Threads, ResetStep(p)
      PROVE  InOrder'
  <2>1. UNCHANGED <<reported, made, last, data>> /\ (queue' = queue \/ queue' = << >>)
    BY <1>7 DEF ResetStep, TestHandle, TestDeleter, LoadHandle, CallDeleter, CallEmptied,
       ClearDeleter, ClearHandle, systemVars, dataVars, CloseHandle
  <2>2. ASSUME NEW at \in {"test", "clear_handle"}, Returns(p, at)
        PROVE  /\ thread' \in Armed => thread' = thread
               /\ thread' = thread \/ thread \in {"top_close", "open_close"}
    BY <2>2 DEF HandlesOK, Returns, Goes, Threads
  <2>3. \/ thread' = "aborted"
        \/ /\ thread' \in Armed => thread' = thread
           /\ thread' = thread \/ thread \in {"top_close", "open_close"}
    BY <1>7, <2>2 DEF ResetStep, TestHandle, TestDeleter, LoadHandle, CallDeleter,
       CallEmptied, ClearDeleter, ClearHandle, threadVars
  <2> QED BY <1>6, <2>1, <2>3
<1>8. CASE UNCHANGED <<systemVars, dataVars>> \/ CreateFile \/ ReadEnds
  <2>1. UNCHANGED <<reported, made, last, data, queue>>
    BY <1>8 DEF CreateFile, ReadEnds, systemVars, dataVars
  <2>2. CASE \E p \in Threads : ResetStep(p)
    BY <1>7, <2>2
  <2>3. CASE MainStep /\ ~ ResetStep("main")
    BY <1>6, <2>1, <2>3 DEF MainStep, Store, Signal, AwaitClient, SetName, MainCloses,
       DestroyMembers, Join, threadVars
  <2>4. CASE Begin \/ Top \/ Check \/ Woken \/ Timeout \/ Reset \/ ReadState \/ Answer
    BY <1>6, <2>1, <2>4 DEF Begin, Top, Check, Woken, Timeout, Reset, ReadState, Answer,
       ThreadAt, LoopHead
  <2>5. CASE CreateFile \/ StoreHandle \/ StoreDeleter \/ TestOpen
    BY <1>6, <2>1, <2>5 DEF CreateFile, StoreHandle, StoreDeleter, TestOpen, ThreadAt
  <2>6. CASE \/ OwnStore("set_run", "set_run_signal", "run")
             \/ OwnSignal("set_run_signal", "arm")
             \/ OwnStore("set_sleep", "set_sleep_signal", "sleep")
             \/ OwnSignal("set_sleep_signal", "top")
    BY <1>6, <2>1, <2>6 DEF OwnStore, OwnSignal, ThreadAt
  <2>7. CASE ThreadStep
    BY <1>2, <1>3, <1>4, <1>5, <2>2, <2>4, <2>5, <2>6, <2>7 DEF ThreadStep, Threads
  <2>8. CASE Stop \/ Destroy \/ ReadEnds \/ UNCHANGED vars
    BY <1>6, <2>1, <2>8 DEF Stop, Destroy, MainCloses, ReadEnds, vars, threadVars
  <2>9. ASSUME NEW d \in Dirs, Watch(d) PROVE InOrder'
    BY <1>6, <2>1, <2>9 DEF Watch
  <2>10. CASE MainStep
    BY <2>2, <2>3, <2>10 DEF Threads
  <2> QED BY <1>1, <2>7, <2>8, <2>9, <2>10 DEF Next
<1>9. ASSUME NEW p \in Threads, CallDeleter(p) PROVE InOrder'
  BY <1>7, <1>9 DEF ResetStep
<1> QED BY <1>1, <1>2, <1>3, <1>4, <1>5, <1>8, <1>9, MostLeaveReads

\* No change of a directory is reported twice or out of order, whoever closes the
\* handle while changes wait in the system or in the buffer.
THEOREM OnceAndInOrder == Spec => []ReportedOnce
<1>1. Init => InOrder
  <2>1. Init => reported = << >> /\ last = << >> /\ data = << >> /\ queue = << >>
                /\ thread = "none"
    BY DEF Init
  <2> QED BY <2>1, EmptyInOrder DEF InOrder, Armed
<1>2. InOrder => ReportedOnce
  BY DEF InOrder, Rising, ReportedOnce
<1> QED BY <1>1, <1>2, NextInOrder, TypeCorrect, PTL DEF Spec
=============================================================================
