----------------------------- MODULE DirWatcher -----------------------------
(***************************************************************************)
(* The directory watcher (dir_watcher.h, dir_watcher.cpp) and the active   *)
(* object it is built on (active.h): the main thread, which calls watch,   *)
(* stop and the destructor, and the background thread, which waits for     *)
(* state changes and for changes of the directory.                         *)
(*                                                                         *)
(* The threads share _state, two manual-reset events, the name and the two *)
(* members of _file_handle, without a lock; every access to one of them is *)
(* a step, also within handle_wrap::reset, which both threads call.        *)
(* The system may give out the value of a closed handle again.             *)
(* A change of the directory is a number, counted up.                      *)
(***************************************************************************)
EXTENDS Naturals, Sequences, SequencesExt

CONSTANTS
    Dirs,        \* directories that are watched
    NoDir,       \* no directory
    Handles,     \* values of the system for open handles
    NoHandle,    \* INVALID_HANDLE_VALUE
    MaxCalls,    \* bound on the calls of watch and stop
    MaxChanges   \* bound on the changes of the directories

ASSUME NoDirAssumption == NoDir \notin Dirs
ASSUME NoHandleAssumption == NoHandle \notin Handles
ASSUME BoundsAssumption == MaxCalls \in Nat /\ MaxChanges \in Nat

VARIABLES
    state,         \* _state
    server_event,  \* _server_event: wakes the background thread
    client_event,  \* _client_event: wakes the main thread
    name,          \* _name
    handle,        \* _handle of _file_handle
    deleter,       \* _deleter of _file_handle is not empty
    main,          \* where the main thread is
    arg,           \* the argument of the watch call in progress
    calls,         \* number of calls made
    thread,        \* where the background thread is
    rs,            \* its local variable rs
    after,         \* where it continues after wait or wait_for
    fresh,         \* what CreateFile has returned to it
    in_reset,      \* where each thread is in _file_handle.reset()
    loaded,        \* the handle that it has read for the deleter
    dir_of,        \* the directories of the system's handles; NoDir when closed
    watched,       \* the handle that the last read was started on, while it is open
    queue,         \* changes the system keeps for it
    read,          \* the read: "none", "pending", "done" or "failed"
    data,          \* the changes it has put into _buffer[0]
    last,          \* the changes in _buffer[1], read_bytes of them
    made,          \* number of changes made so far
    reported,      \* history: the changes handed to app::on_new_log_file
    change,        \* history: what became of the state main has stored last
    torn           \* history: handles whose store overlapped a close by main

sharedVars == <<state, server_event, client_event, name>>
wrapVars == <<handle, deleter>>
mainVars == <<main, arg, calls>>
threadVars == <<thread, rs, after, fresh>>
resetVars == <<in_reset, loaded>>
systemVars == <<dir_of, watched, queue, read, data>>
dataVars == <<last, made, reported>>
historyVars == <<change, torn>>
ioVars == <<wrapVars, resetVars, systemVars, dataVars, torn>>
vars == <<sharedVars, wrapVars, mainVars, threadVars, resetVars, systemVars, dataVars,
          historyVars>>

States == {"sleep", "shutdown", "run", "init"}
Threads == {"main", "thread"}

\* Where the main thread stores a state, signals the event, and closes the handle.
Stores == {"watch_sleep", "watch_init", "stop", "destroy"}
Signals == {"watch_sleep_signal", "watch_init_signal", "stop_signal", "destroy_signal"}
Closing == {"stop_close", "destroy_close", "destroy_members"}
-----------------------------------------------------------------------------
Init ==
    /\ state = "sleep"
    /\ server_event = FALSE /\ client_event = FALSE
    /\ name = NoDir
    /\ handle = NoHandle /\ deleter = FALSE
    /\ main = "idle" /\ arg = NoDir /\ calls = 0
    /\ thread = "none" /\ rs = "sleep" /\ after = "dispatch" /\ fresh = NoHandle
    /\ in_reset = [p \in Threads |-> "out"]
    /\ loaded = [p \in Threads |-> NoHandle]
    /\ dir_of = [h \in Handles |-> NoDir]
    /\ watched = NoHandle /\ queue = << >> /\ read = "none" /\ data = << >>
    /\ last = << >> /\ made = 0 /\ reported = << >>
    /\ change = "none" /\ torn = {}

(***************************************************************************)
(* handle_wrap::reset, in either thread.                                   *)
(***************************************************************************)
Goes(p, at, next) == in_reset[p] = at /\ in_reset' = [in_reset EXCEPT ![p] = next]

EnterReset(p) == in_reset' = [in_reset EXCEPT ![p] = "test"]

\* It returns to where it was called.
Returns(p, at) ==
    /\ Goes(p, at, "out")
    /\ IF p = "main"
       THEN /\ main' = IF main = "stop_close" THEN "idle" ELSE "destroy_members"
            /\ UNCHANGED thread
       ELSE /\ thread' = IF thread = "open_close" THEN "store_handle"
                         ELSE IF rs = "shutdown" THEN "ended" ELSE "check"
            /\ UNCHANGED main

\* if ( !empty() )
TestHandle(p) ==
    /\ \/ handle = NoHandle /\ Returns(p, "test")
       \/ handle # NoHandle /\ Goes(p, "test", "test_deleter") /\ UNCHANGED <<main, thread>>
    /\ UNCHANGED <<sharedVars, wrapVars, arg, calls, rs, after, fresh, loaded, systemVars,
                   dataVars, historyVars>>

\* if ( _deleter )
TestDeleter(p) ==
    /\ Goes(p, "test_deleter", IF deleter THEN "load" ELSE "clear_handle")
    /\ UNCHANGED <<sharedVars, wrapVars, mainVars, threadVars, loaded, systemVars,
                   dataVars, historyVars>>

\* The argument of _deleter( _handle ).
LoadHandle(p) ==
    /\ Goes(p, "load", "call")
    /\ loaded' = [loaded EXCEPT ![p] = handle]
    /\ UNCHANGED <<sharedVars, wrapVars, mainVars, threadVars, systemVars, dataVars,
                   historyVars>>

\* Slip: the read is not cancelled.
CloseHandleOnly(h) ==
    /\ dir_of' = [k \in Handles |-> IF k = h THEN NoDir ELSE dir_of[k]]
    /\ UNCHANGED <<watched, queue, read>>

\* Closing a handle drops what the system kept for it and ends the read, with or
\* without an error.  A value that is not open is refused.
CloseHandle(h) ==
    /\ dir_of' = [k \in Handles |-> IF k = h THEN NoDir ELSE dir_of[k]]
    /\ IF h = watched
       THEN /\ watched' = NoHandle
            /\ queue' = << >>
            /\ read' \in IF read = "pending" THEN {"done", "failed"} ELSE {read}
       ELSE UNCHANGED <<watched, queue, read>>

\* The call of the deleter.
CallDeleter(p) ==
    /\ Goes(p, "call", "clear_deleter")
    /\ deleter
    /\ CloseHandle(loaded[p])
    /\ UNCHANGED <<sharedVars, wrapVars, mainVars, threadVars, loaded, data, dataVars,
                   historyVars>>

\* The other thread has emptied it since the test: std::bad_function_call, which
\* nobody catches, ends the program.
CallEmptied(p) ==
    /\ in_reset[p] = "call"
    /\ ~ deleter
    /\ main' = "aborted" /\ thread' = "aborted"
    /\ in_reset' = [q \in Threads |-> "out"]
    /\ UNCHANGED <<sharedVars, wrapVars, arg, calls, rs, after, fresh, loaded, systemVars,
                   dataVars, historyVars>>

ClearDeleter(p) ==
    /\ Goes(p, "clear_deleter", "clear_handle")
    /\ deleter' = FALSE
    /\ UNCHANGED <<sharedVars, handle, mainVars, threadVars, loaded, systemVars, dataVars,
                   historyVars>>

ClearHandle(p) ==
    /\ Returns(p, "clear_handle")
    /\ handle' = NoHandle
    /\ UNCHANGED <<sharedVars, deleter, arg, calls, rs, after, fresh, loaded, systemVars,
                   dataVars, historyVars>>

ResetStep(p) ==
    \/ TestHandle(p) \/ TestDeleter(p) \/ LoadHandle(p) \/ CallDeleter(p)
    \/ CallEmptied(p) \/ ClearDeleter(p) \/ ClearHandle(p)

(***************************************************************************)
(* The main thread.                                                        *)
(***************************************************************************)
MainAt(at, next) == main = at /\ main' = next

\* watch: active::start when there is no thread, else back to sleep first.
Watch(d) ==
    /\ calls < MaxCalls
    /\ calls' = calls + 1
    /\ arg' = d
    /\ IF thread = "none"
       THEN /\ MainAt("idle", "watch_name")
            /\ thread' = "spawned"
       ELSE /\ MainAt("idle", "watch_sleep")
            /\ UNCHANGED thread
    /\ UNCHANGED <<sharedVars, rs, after, fresh, ioVars, change>>

\* The first half of change_state and change_state_and_wait.
Store(at, next, s) ==
    /\ MainAt(at, next)
    /\ state' = s
    /\ change' = "stored"
    /\ UNCHANGED <<server_event, client_event, name, arg, calls, threadVars, ioVars>>

\* Slip: the event is not signalled.
SignalNot(at, next) ==
    /\ MainAt(at, next)
    /\ UNCHANGED <<sharedVars, arg, calls, threadVars, ioVars, change>>

\* Their second half; without a thread there is no event to signal.
Signal(at, next) ==
    /\ MainAt(at, next)
    /\ server_event' = (thread # "none")
    /\ UNCHANGED <<state, client_event, name, arg, calls, threadVars, ioVars, change>>

\* SignalObjectAndWait waits for _client_event, which nobody ever resets.
AwaitClient(at, next) ==
    /\ MainAt(at, next)
    /\ client_event
    /\ UNCHANGED <<sharedVars, arg, calls, threadVars, ioVars, change>>

SetName ==
    /\ MainAt("watch_name", "watch_init")
    /\ name' = arg
    /\ UNCHANGED <<state, server_event, client_event, arg, calls, threadVars, ioVars, change>>

\* dir_watcher::stop hides active::stop; the thread goes on.
Stop ==
    /\ calls < MaxCalls
    /\ calls' = calls + 1
    /\ MainAt("idle", "stop")
    /\ UNCHANGED <<sharedVars, arg, threadVars, ioVars, change>>

\* The main thread calls _file_handle.reset().
MainCloses(at, next) ==
    /\ MainAt(at, next)
    /\ EnterReset("main")
    /\ torn' = IF thread = "store_deleter" THEN torn \cup {fresh} ELSE torn
    /\ UNCHANGED <<sharedVars, wrapVars, arg, calls, threadVars, loaded, systemVars,
                   dataVars, change>>

\* ~dir_watcher closes the handle ...
Destroy == MainCloses("idle", "destroy_close")

\* ... the members are destroyed while the thread still runs, which may leave them as
\* they were or not, and ~active stops the thread.
DestroyMembers ==
    /\ MainAt("destroy_members", IF thread = "none" THEN "gone" ELSE "destroy")
    /\ deleter' \in {deleter, FALSE}
    /\ name' \in {name, NoDir}
    /\ UNCHANGED <<state, server_event, client_event, handle, arg, calls, threadVars,
                   resetVars, systemVars, dataVars, historyVars>>

Join ==
    /\ MainAt("join", "gone")
    /\ thread = "ended"
    /\ UNCHANGED <<sharedVars, arg, calls, threadVars, ioVars, change>>

MainStep ==
    \/ Store("watch_sleep", "watch_sleep_signal", "sleep")
    \/ Signal("watch_sleep_signal", "watch_sleep_wait")
    \/ AwaitClient("watch_sleep_wait", "watch_name")
    \/ SetName
    \/ Store("watch_init", "watch_init_signal", "init")
    \/ Signal("watch_init_signal", "watch_init_wait")
    \/ AwaitClient("watch_init_wait", "idle")
    \/ Store("stop", "stop_signal", "sleep")
    \/ Signal("stop_signal", "stop_reset")
    \/ MainCloses("stop_reset", "stop_close")
    \/ ResetStep("main")
    \/ DestroyMembers
    \/ Store("destroy", "destroy_signal", "shutdown")
    \/ Signal("destroy_signal", "destroy_wait")
    \/ AwaitClient("destroy_wait", "join")
    \/ Join

(***************************************************************************)
(* The background thread.                                                  *)
(***************************************************************************)
ThreadAt(at, next) == thread = at /\ thread' = next

\* while ( state::run == rs )
LoopHead(s) == IF s = "run" THEN "arm" ELSE "top"

\* What the thread stores takes the place of what main has stored.
Overwritten == change' = IF change = "stored" THEN "overwritten" ELSE change

\* The lambda of active::start: only now is the initial state stored.
Begin ==
    /\ ThreadAt("spawned", "top")
    /\ state' = "sleep"
    /\ rs' = "sleep"
    /\ Overwritten
    /\ UNCHANGED <<server_event, client_event, name, mainVars, after, fresh, ioVars>>

\* Slip: the handle is only closed on the way out.
TopKeepsHandle ==
    /\ after' = "dispatch"
    /\ IF rs = "shutdown"
       THEN ThreadAt("top", "top_close") /\ EnterReset("thread")
       ELSE ThreadAt("top", "check") /\ UNCHANGED in_reset
    /\ UNCHANGED <<sharedVars, wrapVars, mainVars, rs, fresh, loaded, systemVars, dataVars,
                   historyVars>>

\* The head of run's outer loop: reset, or wait at once.
Top ==
    /\ after' = "dispatch"
    /\ IF rs \in {"sleep", "shutdown"}
       THEN ThreadAt("top", "top_close") /\ EnterReset("thread")
       ELSE ThreadAt("top", "check") /\ UNCHANGED in_reset
    /\ UNCHANGED <<sharedVars, wrapVars, mainVars, rs, fresh, loaded, systemVars, dataVars,
                   historyVars>>

\* wait and wait_for: the loop condition.
Check ==
    /\ ThreadAt("check", IF rs = state THEN "blocked" ELSE "read")
    /\ UNCHANGED <<sharedVars, mainVars, rs, after, fresh, ioVars, change>>

Woken ==
    /\ ThreadAt("blocked", "reset")
    /\ server_event
    /\ UNCHANGED <<sharedVars, mainVars, rs, after, fresh, ioVars, change>>

\* wait_for gives up after 25 ms and returns the old state.
Timeout ==
    /\ ThreadAt("blocked", LoopHead(rs))
    /\ after = "loop"
    /\ UNCHANGED <<sharedVars, mainVars, rs, after, fresh, ioVars, change>>

Reset ==
    /\ ThreadAt("reset", "read")
    /\ server_event' = FALSE
    /\ UNCHANGED <<state, client_event, name, mainVars, rs, after, fresh, ioVars, change>>

ReadState ==
    /\ ThreadAt("read", "answer")
    /\ rs' = state
    /\ change' = IF change = "stored" THEN "read" ELSE change
    /\ UNCHANGED <<sharedVars, mainVars, after, fresh, ioVars>>

\* Slip: the main thread is only woken for a new state.
AnswerRun ==
    /\ ThreadAt("answer", IF after = "dispatch" /\ rs = "init" THEN "open" ELSE LoopHead(rs))
    /\ client_event' = (client_event \/ rs = "run")
    /\ UNCHANGED <<state, server_event, name, mainVars, rs, after, fresh, ioVars, change>>

\* SetEvent( *_client_event ), return, and the branch on the new state: only after
\* wait is init a case of its own, the loop around wait_for just ends.
Answer ==
    /\ ThreadAt("answer", IF after = "dispatch" /\ rs = "init" THEN "open" ELSE LoopHead(rs))
    /\ client_event' = TRUE
    /\ UNCHANGED <<state, server_event, name, mainVars, rs, after, fresh, ioVars, change>>

\* CreateFile on _name may fail; a name that is being written or destroyed at that
\* moment is one of the reasons.  Its result is the argument of reset.
CreateFile ==
    /\ ThreadAt("open", "open_close")
    /\ EnterReset("thread")
    /\ \/ \E h \in Handles :
             /\ dir_of[h] = NoDir /\ name # NoDir
             /\ dir_of' = [dir_of EXCEPT ![h] = name]
             /\ fresh' = h
       \/ fresh' = NoHandle /\ UNCHANGED dir_of
    /\ UNCHANGED <<sharedVars, wrapVars, mainVars, rs, after, loaded, watched, queue, read,
                   data, dataVars, historyVars>>

StoreHandle ==
    /\ ThreadAt("store_handle", "store_deleter")
    /\ handle' = fresh
    /\ torn' = IF main \in Closing THEN torn \cup {fresh} ELSE torn \ {fresh}
    /\ UNCHANGED <<sharedVars, deleter, mainVars, rs, after, fresh, resetVars, systemVars,
                   dataVars, change>>

StoreDeleter ==
    /\ ThreadAt("store_deleter", "test_open")
    /\ deleter' = TRUE
    /\ UNCHANGED <<sharedVars, handle, mainVars, rs, after, fresh, resetVars, systemVars,
                   dataVars, historyVars>>

\* if ( !_file_handle ): without a handle rs is still init.
TestOpen ==
    /\ IF handle # NoHandle
       THEN ThreadAt("test_open", "set_run") /\ rs' = "run"
       ELSE ThreadAt("test_open", "set_sleep") /\ UNCHANGED rs
    /\ UNCHANGED <<sharedVars, mainVars, after, fresh, ioVars, change>>

\* change_state by the background thread, both halves.
OwnStore(at, next, s) ==
    /\ ThreadAt(at, next)
    /\ state' = s
    /\ Overwritten
    /\ UNCHANGED <<server_event, client_event, name, mainVars, rs, after, fresh, ioVars>>
OwnSignal(at, next) ==
    /\ ThreadAt(at, next)
    /\ server_event' = TRUE
    /\ UNCHANGED <<state, client_event, name, mainVars, rs, after, fresh, ioVars, change>>

\* ReadDirectoryChangesW fails on a closed handle and may fail on an open one.  Changes
\* kept since the last read on the handle are returned at once.
Arm ==
    /\ \/ /\ ThreadAt("arm", "process")
          /\ handle # NoHandle /\ dir_of[handle] # NoDir
          /\ watched' = handle
          /\ queue' = << >>
          /\ data' = IF watched = handle THEN queue ELSE << >>
          /\ read' = IF data' = << >> THEN "pending" ELSE "done"
       \/ /\ ThreadAt("arm", "set_sleep")
          /\ UNCHANGED <<watched, queue, read, data>>
    /\ UNCHANGED <<sharedVars, wrapVars, mainVars, rs, after, fresh, resetVars, dir_of,
                   dataVars, historyVars>>

\* process_data( read_bytes ): what the read before the armed one returned.
Process ==
    /\ ThreadAt("process", "overlapped")
    /\ reported' = reported \o last
    /\ UNCHANGED <<sharedVars, wrapVars, mainVars, rs, after, fresh, resetVars, systemVars,
                   last, made, historyVars>>

\* Slip: the second buffer is not started anew.
CompletedAppends ==
    /\ ThreadAt("overlapped", "check")
    /\ read = "done"
    /\ last' = last \o data
    /\ after' = "loop"
    /\ UNCHANGED <<sharedVars, wrapVars, mainVars, rs, fresh, resetVars, systemVars, made,
                   reported, historyVars>>

\* GetOverlappedResult waits for the read and its bytes are copied, if there are any:
\* a read that a close ended, or for which there were too many changes, has none ...
Completed ==
    /\ ThreadAt("overlapped", "check")
    /\ read = "done"
    /\ last' = data
    /\ after' = "loop"
    /\ UNCHANGED <<sharedVars, wrapVars, mainVars, rs, fresh, resetVars, systemVars, made,
                   reported, historyVars>>

\* ... or it fails: 0 bytes read.
Failed ==
    /\ ThreadAt("overlapped", "set_sleep")
    /\ read = "failed"
    /\ last' = << >>
    /\ UNCHANGED <<sharedVars, wrapVars, mainVars, rs, after, fresh, resetVars, systemVars,
                   made, reported, historyVars>>

ThreadStep ==
    \/ Begin \/ Top \/ Check \/ Woken \/ Timeout \/ Reset \/ ReadState \/ Answer
    \/ CreateFile \/ StoreHandle \/ StoreDeleter \/ TestOpen
    \/ ResetStep("thread")
    \/ OwnStore("set_run", "set_run_signal", "run")
    \/ OwnSignal("set_run_signal", "arm")
    \/ OwnStore("set_sleep", "set_sleep_signal", "sleep")
    \/ OwnSignal("set_sleep_signal", "top")
    \/ Arm \/ Process \/ Completed \/ Failed

\* The system: a file appears in directory d.  A pending read ends with it, else it is
\* kept for the handle, once the first read was started.
DirChange(d) ==
    /\ made < MaxChanges
    /\ made' = made + 1
    /\ IF watched # NoHandle /\ dir_of[watched] = d
       THEN IF read = "pending"
            THEN read' = "done" /\ data' = <<made + 1>> /\ UNCHANGED queue
            ELSE queue' = Append(queue, made + 1) /\ UNCHANGED <<read, data>>
       ELSE UNCHANGED <<queue, read, data>>
    /\ UNCHANGED <<sharedVars, wrapVars, mainVars, threadVars, resetVars, dir_of, watched,
                   last, reported, historyVars>>

\* The system ends a read without changes: with an error, or because they were too many.
ReadEnds ==
    /\ read = "pending"
    /\ read' \in {"done", "failed"}
    /\ UNCHANGED <<sharedVars, wrapVars, mainVars, threadVars, resetVars, dir_of, watched,
                   queue, data, dataVars, historyVars>>

Next ==
    \/ \E d \in Dirs : Watch(d) \/ DirChange(d)
    \/ Stop
    \/ Destroy
    \/ ReadEnds
    \/ MainStep
    \/ ThreadStep

\* Both threads keep running; nobody has to call, and no file has to appear.
Spec == Init /\ [][Next]_vars /\ WF_vars(MainStep) /\ WF_vars(ThreadStep)
-----------------------------------------------------------------------------
MainPlaces ==
    {"idle", "watch_name", "watch_sleep_wait", "watch_init_wait", "stop_reset",
     "destroy_wait", "join", "gone", "aborted"} \cup Stores \cup Signals \cup Closing
ThreadPlaces ==
    {"none", "spawned", "top", "top_close", "check", "blocked", "reset", "read", "answer",
     "open", "open_close", "store_handle", "store_deleter", "test_open", "set_run",
     "set_run_signal", "set_sleep", "set_sleep_signal", "arm", "process", "overlapped",
     "ended", "aborted"}
ResetPlaces ==
    {"out", "test", "test_deleter", "load", "call", "clear_deleter", "clear_handle"}

ControlOK ==
    /\ state \in States
    /\ server_event \in BOOLEAN
    /\ client_event \in BOOLEAN
    /\ main \in MainPlaces
    /\ arg \in Dirs \cup {NoDir}
    /\ name \in Dirs \cup {NoDir}
    /\ calls \in 0..MaxCalls
    /\ thread \in ThreadPlaces
    /\ rs \in States
    /\ after \in {"dispatch", "loop"}
    /\ change \in {"none", "stored", "read", "overwritten"}

HandlesOK ==
    /\ handle \in Handles \cup {NoHandle}
    /\ deleter \in BOOLEAN
    /\ fresh \in Handles \cup {NoHandle}
    /\ in_reset \in [Threads -> ResetPlaces]
    /\ in_reset["main"] # "out" <=> main \in {"stop_close", "destroy_close"}
    /\ in_reset["thread"] # "out" <=> thread \in {"top_close", "open_close"}
    /\ loaded \in [Threads -> Handles \cup {NoHandle}]
    /\ dir_of \in [Handles -> Dirs \cup {NoDir}]
    /\ torn \subseteq Handles \cup {NoHandle}

ReadsOK ==
    /\ watched \in Handles \cup {NoHandle}
    /\ watched # NoHandle => dir_of[watched] # NoDir
    /\ read \in {"none", "pending", "done", "failed"}
    /\ read = "pending" => watched # NoHandle /\ queue = << >> /\ data = << >>
    /\ queue \in Seq(1..MaxChanges)
    /\ queue # << >> => watched # NoHandle
    /\ data \in Seq(1..MaxChanges)
    /\ last \in Seq(1..MaxChanges)
    /\ made \in 0..MaxChanges
    /\ reported \in Seq(1..MaxChanges)

\* All variables have their types; a read is under way, and changes are kept,
\* only for an open handle.
TypeOK == ControlOK /\ HandlesOK /\ ReadsOK

\* What main has stored, and the thread has neither read nor overwritten, is not slept
\* over, also when it equals the state that the thread waits to change: when the thread
\* waits for the event, this is set or about to be set.  wait resets the event before
\* it reads the state, not after.
NoMissedWakeup ==
    thread = "blocked" /\ change = "stored" => server_event \/ main \in Signals

\* Whoever closes the handle, and whenever: a directory change is reported at
\* most once, and the changes are reported in the order in which they happened,
\* also across stop and watch on another directory.
ReportedOnce ==
    \A i, j \in DOMAIN reported : i < j => reported[i] < reported[j]

\* When the thread sleeps or has ended, no handle of the system is open, although both
\* threads close what they find and values are used again, except those that the thread
\* was just storing when main closed: between the two stores of handle_wrap::reset main
\* empties the wrapper without closing anything.
AsleepIsClosed ==
    (thread = "blocked" /\ rs = "sleep") \/ thread = "ended" =>
        \A h \in Handles : dir_of[h] # NoDir => h \in torn

\* Every call of watch and stop returns, unless the program is ended by an exception.
CallsReturn ==
    main \notin {"idle", "gone", "aborted", "destroy_close", "destroy_members", "destroy",
                 "destroy_signal", "destroy_wait", "join"}
        ~> main \in {"idle", "aborted"}

\* "waits for the background thread to pick up the change" (active.h): when the
\* change_state_and_wait( init ) of watch returns, the thread has read the change.  It has
\* not stored a state of its own in its place, as the new thread may do with the very first
\* change, and it is not still to come, as it may be when _client_event was left set.
PickedUp == [][main = "watch_init_wait" /\ main' = "idle" => change = "read"]_vars
=============================================================================
