------------------------------ MODULE UiLoops ------------------------------
(***************************************************************************)
(* The message loops of the main thread: app::run_update with its two      *)
(* dialogs (app.cpp), main_ui with the dialogs for options, about and raid *)
(* (main_ui.cpp, raid_sync_dialog.cpp), and what they stand on             *)
(* (common_window_base.h).                                                 *)
(*                                                                         *)
(* A handler that opens a dialog runs a loop of its own, inside the loop   *)
(* that called it.  All loops take messages for all windows, and all end   *)
(* with WM_QUIT, of which there is one per thread: PostQuitMessage sets a  *)
(* flag, and the innermost loop takes it.  WM_QUIT comes before input, so  *)
(* what the user does is handled when the flag is not set.  Every dialog   *)
(* is open at most once, and at most MaxDepth loops run (bounds).          *)
(*                                                                         *)
(* Once run_update has started, its steps are calls of run_update_tick,    *)
(* which queues itself as an APC of the thread and holds a pointer to a    *)
(* local variable of run_update.                                           *)
(***************************************************************************)
EXTENDS Naturals, Sequences, SequencesExt

CONSTANTS
    Build,      \* the build of the program
    Servers,    \* how many servers are asked for updates
    Versions,   \* what a server may offer; 0 is no answer
    MaxDepth    \* bound on how many loops run inside each other

ASSUME VersionsAssumption == Build \in Nat /\ Versions \subseteq Nat /\ Servers \in Nat
\* The first loop runs when the program starts.
ASSUME MaxDepthAssumption == MaxDepth \in Nat \ {0}

VARIABLES
    stack,      \* the loops that run, the innermost last
    windows,    \* the windows that exist
    quit,       \* WM_QUIT is pending
    ended,      \* "no", or why app::operator() has returned: "update" or "quit"
    config,     \* update.auto_check and update.show_info
    update,     \* update_info::_state; "none" when run_update does not run
    tick,       \* an APC for run_update_tick is queued
    task,       \* the task of the current state: "running" or "done"
    offers,     \* what the servers answer
    version,    \* _info.latest_version
    notes,      \* the dialog with the patch notes is visible
    choice,     \* do_update and display_info of run_update
    result,     \* what run_update has returned: "none", "true" or "false"
    lookup,     \* the look-up of a hash: "none", "running", "found" or "failed"
    patch,      \* history: the patch file was downloaded
    asked,      \* history: the user closed the main window or chose Exit
    cursed,     \* history: the window of a failed look-up was left to its destructor
    crossed     \* history: a window was closed while its loop was not the innermost

updateVars == <<config, update, tick, task, offers, version, notes, choice, result, patch>>
vars == <<stack, windows, quit, ended, updateVars, lookup, asked, cursed, crossed>>

Settings == [auto : BOOLEAN, show : BOOLEAN]
Dialogs == {"options", "about", "raid"}
Finished == {"update_ok", "update_none"}

Top == IF stack = << >> THEN "nothing" ELSE stack[Len(stack)]
CanPush == Len(stack) < MaxDepth
Pop == SubSeq(stack, 1, Len(stack) - 1)
Running(loop) == \E k \in DOMAIN stack : stack[k] = loop

\* Slip: the first server that answers is taken.
FirstServer(answers) == FoldLeft(LAMBDA best, v : IF best = 0 THEN v ELSE best, 0, answers)

\* get_update_server_info: a server may have no version for this architecture, answer
\* with an error, or not at all.
Answers == [1..Servers -> Versions]

\* get_best_update_server; a server that fails is passed over.
BestServer(answers) == FoldLeft(LAMBDA best, v : IF v > best THEN v ELSE best, 0, answers)
-----------------------------------------------------------------------------
\* What run_update does before its first loop, and the variables it sets.
StartUpdate(show) ==
    /\ update' = "init"
    /\ tick' = TRUE
    /\ task' = "done"
    /\ offers' = << >>
    /\ version' = 0
    /\ notes' = FALSE
    /\ choice' = [auto |-> TRUE, show |-> show]
    /\ result' = "none"
    /\ patch' = FALSE

\* app::operator() up to its first loop.
Init ==
    /\ config \in Settings
    /\ stack = IF config.auto THEN <<"peek">> ELSE <<"main">>
    /\ windows = IF config.auto THEN {"update", "notes"} ELSE {"main"}
    /\ update = IF config.auto THEN "init" ELSE "none"
    /\ tick = config.auto
    /\ task = "done"
    /\ offers = << >>
    /\ version = 0
    /\ notes = FALSE
    /\ choice = [auto |-> TRUE, show |-> config.show]
    /\ result = "none"
    /\ patch = FALSE
    /\ quit = FALSE
    /\ ended = "no"
    /\ lookup = "none"
    /\ asked = FALSE
    /\ cursed = FALSE
    /\ crossed = FALSE

\* Slip: the handler for WM_DESTROY is missing.
CloseSilently(w, loop) ==
    /\ ~ quit /\ w \in windows
    /\ windows' = windows \ {w}
    /\ crossed' = (crossed \/ (loop # "none" /\ Top # loop))
    /\ UNCHANGED <<stack, quit, ended, updateVars, lookup, asked, cursed>>

\* A window is destroyed by its user: its handler for WM_DESTROY posts WM_QUIT.
CloseWindow(w, loop) ==
    /\ ~ quit /\ w \in windows
    /\ windows' = windows \ {w}
    /\ quit' = TRUE
    /\ crossed' = (crossed \/ (loop # "none" /\ Top # loop))
    /\ UNCHANGED <<stack, ended, updateVars, lookup, asked, cursed>>

PostQuit ==
    /\ ~ quit
    /\ quit' = TRUE
    /\ UNCHANGED <<stack, windows, ended, lookup, cursed, crossed>>
-----------------------------------------------------------------------------
(* run_update and run_update_tick *)

\* The tick runs in an alertable wait; MessageBox has none.
InTick(state) == tick /\ update = state /\ Top \notin {"nothing", "message"}

TickInit ==
    /\ InTick("init")
    /\ update' = "find_server"
    /\ task' = "running"
    /\ offers' \in Answers
    /\ UNCHANGED <<stack, windows, quit, ended, config, tick, version, notes, choice,
                   result, lookup, patch, asked, cursed, crossed>>

\* The task ends.  The look-up of the versions never throws; the two downloads may
\* fail or be cancelled.
TaskEnds ==
    /\ task = "running"
    /\ task' = "done"
    /\ patch' \in IF update = "load_update" THEN BOOLEAN ELSE {FALSE}
    /\ UNCHANGED <<stack, windows, quit, ended, config, update, tick, offers, version,
                   notes, choice, result, lookup, asked, cursed, crossed>>

\* The tick that ends the update destroys the dialog and is not queued again.
LastTick(state) ==
    /\ update' = state
    /\ tick' = FALSE
    /\ windows' = windows \ {"update"}
    /\ quit' = (quit \/ "update" \in windows)
    /\ UNCHANGED <<task, notes>>

TickFindServer ==
    /\ InTick("find_server") /\ task # "running"
    /\ version' = BestServer(offers)
    /\ IF version' <= Build THEN LastTick("update_none")
       ELSE /\ update' = IF choice.show THEN "load_notes" ELSE "load_update"
            /\ notes' = choice.show
            /\ task' = "running"
            /\ UNCHANGED <<tick, windows, quit>>
    /\ UNCHANGED <<stack, ended, config, offers, choice, result, lookup, patch, asked,
                   cursed, crossed>>

\* Notes that could not be loaded are shown as a message in their place.
TickLoadNotes ==
    /\ InTick("load_notes") /\ task # "running"
    /\ update' = "load_update"
    /\ task' = "running"
    /\ UNCHANGED <<stack, windows, quit, ended, config, tick, offers, version, notes,
                   choice, result, lookup, patch, asked, cursed, crossed>>

\* Only is_done is asked: a download that failed counts as well.
TickLoadUpdate ==
    /\ InTick("load_update") /\ task # "running"
    /\ LastTick("update_ok")
    /\ UNCHANGED <<stack, ended, config, offers, version, choice, result, lookup, patch,
                   asked, cursed, crossed>>

Tick == TickInit \/ TickFindServer \/ TickLoadNotes \/ TickLoadUpdate

\* Slip: WM_QUIT ends peek_until.
PeekQuitLeaves ==
    /\ Top = "peek" /\ quit /\ update \notin Finished
    /\ quit' = FALSE
    /\ stack' = Append(Pop, "notes")
    /\ UNCHANGED <<windows, ended, updateVars, lookup, asked, cursed, crossed>>

\* peek_until takes WM_QUIT and goes on as long as its condition is not met.
PeekQuit ==
    /\ Top = "peek" /\ quit /\ update \notin Finished
    /\ quit' = FALSE
    /\ UNCHANGED <<stack, windows, ended, updateVars, lookup, asked, cursed, crossed>>

\* Slip: a dialog that was never shown is not destroyed.
LeavePeekKeepsNotes ==
    /\ Top = "peek" /\ update \in Finished
    /\ stack' = Append(Pop, "notes")
    /\ quit' = FALSE
    /\ UNCHANGED <<windows, ended, updateVars, lookup, asked, cursed, crossed>>

\* Slip: the second loop runs inside the first.
LeavePeekNested ==
    /\ Top = "peek" /\ update \in Finished
    /\ stack' = Append(stack, "notes")
    /\ windows' = IF notes THEN windows ELSE windows \ {"notes"}
    /\ quit' = (~ notes /\ "notes" \in windows)
    /\ UNCHANGED <<ended, updateVars, lookup, asked, cursed, crossed>>

\* The loop of the notes follows; notes never shown are destroyed before, and
\* the WM_QUIT of that ends their loop at once.
LeavePeek ==
    /\ Top = "peek" /\ update \in Finished
    /\ stack' = Append(Pop, "notes")
    /\ windows' = IF notes THEN windows ELSE windows \ {"notes"}
    /\ quit' = (~ notes /\ "notes" \in windows)
    /\ UNCHANGED <<ended, updateVars, lookup, asked, cursed, crossed>>

\* The rest of run_update, whose destructors destroy the dialogs that are left,
\* and what its two callers do with the result.
LeaveNotes ==
    /\ Top = "notes" /\ quit
    /\ config' = [auto |-> config.auto /\ choice.auto, show |-> config.show /\ choice.show]
    /\ update' = "none"
    /\ result' = IF update = "update_ok" THEN "true" ELSE "false"
    /\ IF Len(stack) > 1
       THEN /\ stack' = Pop
            /\ windows' = windows \ {"notes"}
            /\ quit' = ("notes" \in windows \/ update = "update_ok")
            /\ UNCHANGED ended
       ELSE IF update = "update_ok"
       THEN ended' = "update" /\ stack' = << >> /\ windows' = {} /\ quit' = FALSE
       ELSE /\ stack' = <<"main">>
            /\ windows' = {"main"}
            /\ quit' = ("notes" \in windows)
            /\ UNCHANGED ended
    /\ offers' = << >> /\ version' = 0 /\ notes' = FALSE
    /\ choice' = [auto |-> TRUE, show |-> TRUE]
    /\ UNCHANGED <<tick, task, patch, lookup, asked, cursed, crossed>>

CloseUpdate == CloseWindow("update", "none")
CloseNotes == notes /\ CloseWindow("notes", "notes")

PressRestart ==
    /\ notes /\ "notes" \in windows
    /\ PostQuit
    /\ UNCHANGED <<updateVars, asked>>

\* The check boxes of the notes: the first one is also what decides whether the
\* second can be used.  The second sets display_info to its opposite.
CheckBox ==
    /\ notes /\ "notes" \in windows /\ ~ quit
    /\ \/ choice' = [choice EXCEPT !.auto = ~ @]
       \/ choice.auto /\ choice' = [choice EXCEPT !.show = ~ @]
    /\ UNCHANGED <<stack, windows, quit, ended, config, update, tick, task, offers,
                   version, notes, result, lookup, patch, asked, cursed, crossed>>
-----------------------------------------------------------------------------
(* main_ui and its dialogs *)

\* A command of the main window opens a dialog and runs its loop.
Open(dialog) ==
    /\ "main" \in windows /\ ~ quit
    /\ ~ Running(dialog) /\ CanPush
    /\ stack' = Append(stack, dialog)
    /\ windows' = windows \cup {dialog}
    /\ UNCHANGED <<quit, ended, updateVars, lookup, asked, cursed, crossed>>

OpenOptions == Open("options")
OpenAbout == Open("about")
StartRaid == Open("raid")

FileExit ==
    /\ "main" \in windows
    /\ PostQuit
    /\ asked' = TRUE
    /\ UNCHANGED updateVars

\* Windows owned by the main window are destroyed with it.
CloseMain ==
    /\ "main" \in windows /\ ~ quit
    /\ windows' = windows \ {"main", "options", "about"}
    /\ quit' = TRUE
    /\ asked' = TRUE
    /\ crossed' = (crossed \/ Top # "main")
    /\ UNCHANGED <<stack, ended, updateVars, lookup, cursed>>

\* handle_os_events returns false, and app::operator() returns.
EndMain ==
    /\ Top = "main" /\ quit
    /\ stack' = << >>
    /\ windows' = {}
    /\ quit' = FALSE
    /\ ended' = "quit"
    /\ UNCHANGED <<updateVars, lookup, asked, cursed, crossed>>

CloseOptions == CloseWindow("options", "options")

\* OK and Apply store what is chosen; OK and Cancel end the loop.
OptionsButton ==
    /\ "options" \in windows /\ ~ quit
    /\ \/ config' \in Settings
       \/ UNCHANGED config
    /\ \/ quit' = TRUE
       \/ UNCHANGED quit
    /\ UNCHANGED <<stack, windows, ended, update, tick, task, offers, version, notes,
                   choice, result, lookup, patch, asked, cursed, crossed>>

\* "Check for Updates"; run_update runs once at a time here.
UpdateNow ==
    /\ "options" \in windows /\ ~ quit
    /\ update = "none" /\ CanPush
    /\ StartUpdate(config.show)
    /\ stack' = Append(stack, "peek")
    /\ windows' = windows \cup {"update", "notes"}
    /\ UNCHANGED <<quit, ended, config, lookup, asked, cursed, crossed>>

CloseAbout == CloseWindow("about", "about")

\* Slip: the loop passes WM_QUIT on.
LeaveDialogQuitting(dialog) ==
    /\ Top = dialog /\ quit
    /\ stack' = Pop
    /\ windows' = windows \ {dialog}
    /\ UNCHANGED <<quit, ended, updateVars, lookup, asked, cursed, crossed>>

\* The destructor of a dialog destroys the window without a word: its handler is
\* already gone.
LeaveDialog(dialog) ==
    /\ Top = dialog /\ quit
    /\ stack' = Pop
    /\ windows' = windows \ {dialog}
    /\ quit' = FALSE
    /\ UNCHANGED <<ended, updateVars, lookup, asked, cursed, crossed>>
-----------------------------------------------------------------------------
(* raid_sync_dialog *)

\* WM_CLOSE, Cancel, and OK for a server or for the address of one: the dialog of
\* connect_to_server is destroyed at once as well.
CloseRaid == CloseWindow("raid", "raid")

\* OK without an address.
NoAddress ==
    /\ "raid" \in windows /\ ~ quit /\ ~ Running("message") /\ CanPush
    /\ stack' = Append(stack, "message")
    /\ UNCHANGED <<windows, quit, ended, updateVars, lookup, asked, cursed, crossed>>

\* OK with a hash: get_ip_and_port_from_hash.
LookUp ==
    /\ "raid" \in windows /\ ~ quit /\ ~ Running("message") /\ CanPush
    /\ lookup = "none"
    /\ lookup' = "running"
    /\ stack' = Append(stack, "lookup")
    /\ windows' = windows \cup {"lookup"}
    /\ UNCHANGED <<quit, ended, updateVars, asked, cursed, crossed>>

LookUpEnds ==
    /\ lookup = "running"
    /\ lookup' \in {"found", "failed"}
    /\ UNCHANGED <<stack, windows, quit, ended, updateVars, asked, cursed, crossed>>

CloseLookUp == CloseWindow("lookup", "none")

LookUpQuit ==
    /\ Top = "lookup" /\ quit /\ lookup = "running"
    /\ quit' = FALSE
    /\ UNCHANGED <<stack, windows, ended, updateVars, lookup, asked, cursed, crossed>>

\* The destructor of the dialog posts WM_QUIT.  If a server was found, the dialog
\* of connect_to_server does so too, and the raid dialog is destroyed.
LeaveLookUp ==
    /\ Top = "lookup" /\ lookup \in {"found", "failed"}
    /\ lookup' = "none"
    /\ IF lookup = "found"
       THEN /\ stack' = Pop
            /\ windows' = windows \ {"lookup", "raid"}
            /\ quit' = TRUE
            /\ crossed' = (crossed \/ stack[Len(stack) - 1] # "raid")
            /\ UNCHANGED cursed
       ELSE /\ stack' = Append(Pop, "message")
            /\ windows' = windows \ {"lookup"}
            /\ quit' = ("lookup" \in windows)
            /\ cursed' = (cursed \/ "lookup" \in windows)
            /\ UNCHANGED crossed
    /\ UNCHANGED <<ended, updateVars, asked>>

\* MessageBox: WM_QUIT closes it and is posted again.
LeaveMessage ==
    /\ Top = "message"
    /\ stack' = Pop
    /\ UNCHANGED <<windows, quit, ended, updateVars, lookup, asked, cursed, crossed>>

\* The destructor destroys the window if it is still there, and that posts WM_QUIT.
LeaveRaid ==
    /\ Top = "raid" /\ quit
    /\ stack' = Pop
    /\ windows' = windows \ {"raid"}
    /\ quit' = ("raid" \in windows)
    /\ UNCHANGED <<ended, updateVars, lookup, asked, cursed, crossed>>
-----------------------------------------------------------------------------
Next ==
    \/ Tick \/ TaskEnds \/ PeekQuit \/ LeavePeek \/ LeaveNotes
    \/ CloseUpdate \/ CloseNotes \/ PressRestart \/ CheckBox
    \/ OpenOptions \/ OpenAbout \/ StartRaid \/ FileExit \/ CloseMain \/ EndMain
    \/ CloseOptions \/ OptionsButton \/ UpdateNow \/ CloseAbout
    \/ \E dialog \in {"options", "about"} : LeaveDialog(dialog)
    \/ CloseRaid \/ NoAddress \/ LookUp \/ LookUpEnds \/ CloseLookUp \/ LookUpQuit
    \/ LeaveLookUp \/ LeaveMessage \/ LeaveRaid

Spec == Init /\ [][Next]_vars
-----------------------------------------------------------------------------
States == {"none", "init", "find_server", "load_notes", "load_update"} \cup Finished
Loops == Dialogs \cup {"peek", "notes", "main", "lookup", "message"}

\* The types, and no more loops than the bound allows: run_update runs its two
\* loops one after the other, not one inside the other.
TypeOK ==
    /\ stack \in Seq(Loops) /\ Len(stack) <= MaxDepth
    /\ windows \subseteq Dialogs \cup {"update", "notes", "main", "lookup"}
    /\ {quit, tick, notes, patch, asked, cursed, crossed} \subseteq BOOLEAN
    /\ ended \in {"no", "update", "quit"}
    /\ {config, choice} \subseteq Settings
    /\ update \in States
    /\ task \in {"running", "done"}
    /\ offers \in Seq(Versions)
    /\ version \in Versions \cup {0}
    /\ result \in {"none", "true", "false"}
    /\ lookup \in {"none", "running", "found", "failed"}

\* The queued call of run_update_tick holds the address of a local variable of
\* run_update (app.cpp:147): it is queued only while the frame is there, whatever
\* windows are closed and whatever loops are entered and left.
TickHasFrame == tick => Running("peek") /\ update \notin Finished \cup {"none"}

\* What is downloaded is the newest version any server has, newer than the program
\* itself, and an update that ends with nothing to do missed none.
LoadsNewest ==
    /\ update \in {"load_notes", "load_update", "update_ok"} =>
          version > Build /\ \A k \in DOMAIN offers : offers[k] <= version
    /\ update = "update_none" => \A k \in DOMAIN offers : offers[k] <= Build

\* There is one WM_QUIT for all loops.  As long as every window is closed while its
\* own loop is the innermost, no loop is left running without its window and
\* without a WM_QUIT to end it.
NoLoopStranded ==
    \A loop \in Dialogs \cup {"notes", "main"} :
        Running(loop) /\ ~ crossed => loop \in windows \/ (quit /\ Top = loop)

\* The program ends because the user closed it.  The WM_QUIT of a dialog reaches
\* the loop of the main window in one case only, the failed look-up of a hash
\* (raid_sync_dialog.cpp:139-148).
EndsOnRequest == ended = "quit" => asked \/ cursed

\* app.cpp:133: "returns true if a new version was installed and the app needs to
\* restart".
InstalledUpdate == result = "true" => patch

-----------------------------------------------------------------------------
\* The user presses "Restart" in the notes, and closes each dialog, at last when no
\* other loop is in the way.
User ==
    /\ SF_vars(Top = "notes" /\ PressRestart)
    /\ SF_vars(Top = "options" /\ CloseOptions)
    /\ SF_vars(Top = "about" /\ CloseAbout)
    /\ SF_vars(Top = "raid" /\ CloseRaid)
    /\ WF_vars(LeaveMessage)

\* Tasks end, the APCs that are queued are run, and a loop that is the innermost again
\* and again finds its condition met or takes WM_QUIT.  The loops of the options and of
\* About run APCs behind each message only: messages keep coming.
LiveSpec ==
    /\ Spec /\ User
    /\ SF_vars(Tick) /\ WF_vars(TaskEnds) /\ WF_vars(LookUpEnds)
    /\ SF_vars(LeavePeek) /\ WF_vars(LeaveNotes) /\ WF_vars(LeaveLookUp)
    /\ WF_vars(LeaveRaid)
    /\ \A dialog \in {"options", "about"} : WF_vars(LeaveDialog(dialog))

\* run_update returns, unless a window was closed outside of its own loop: notes
\* closed while peek_until runs leave run() without the WM_QUIT it waits for.
UpdateReturns == update # "none" ~> update = "none" \/ crossed
=============================================================================
