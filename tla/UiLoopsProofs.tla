--------------------------- MODULE UiLoopsProofs ---------------------------
(***************************************************************************)
(* Proofs about UiLoops, for any number of servers and versions and any    *)
(* depth of loops.                                                         *)
(***************************************************************************)
EXTENDS UiLoops, DataFacts

-----------------------------------------------------------------------------
UpdateLoops == {"peek", "notes"}

\* The loops of run_update are there exactly while it runs, at most one of them at
\* a time, and the second one only when the update has finished.  The loop of the
\* main window is the outermost.
Frames ==
    /\ \A j, k \in DOMAIN stack :
          stack[j] \in UpdateLoops /\ stack[k] \in UpdateLoops => j = k
    /\ \A k \in DOMAIN stack : stack[k] \in UpdateLoops => update # "none"
    /\ Running("notes") => update \in Finished
    /\ \A k \in DOMAIN stack : stack[k] = "main" => k = 1

\* The inductive invariant.
IInv ==
    /\ stack \in Seq(Loops)
    /\ Frames
    /\ TickHasFrame

-----------------------------------------------------------------------------
\* A step that keeps the loops of run_update where they are keeps the invariant.
LEMMA Kept ==
    ASSUME IInv, stack' \in Seq(Loops), UNCHANGED <<update, tick>>,
           \A k \in DOMAIN stack' : stack'[k] \in UpdateLoops \cup {"main"} =>
              k \in DOMAIN stack /\ stack[k] = stack'[k],
           \A k \in DOMAIN stack : stack[k] \in UpdateLoops =>
              k \in DOMAIN stack' /\ stack'[k] = stack[k]
    PROVE  IInv'
<1>1. Running("notes")' <=> Running("notes")
  BY DEF Running, UpdateLoops
<1>2. Running("peek")' <=> Running("peek")
  BY DEF Running, UpdateLoops
<1>3. Frames'
  BY <1>1 DEF IInv, Frames
<1> QED BY <1>2, <1>3 DEF IInv, TickHasFrame

\* What leaving the innermost loop leaves.
LEMMA PopStack ==
    ASSUME stack \in Seq(Loops), stack # << >>
    PROVE  /\ Pop \in Seq(Loops)
           /\ Len(Pop) = Len(stack) - 1
           /\ DOMAIN Pop = DOMAIN stack \ {Len(stack)}
           /\ \A k \in DOMAIN Pop : Pop[k] = stack[k]
           /\ Len(stack) \in DOMAIN stack
           /\ Top = stack[Len(stack)]
<1>1. Len(stack) \in Nat \ {0} /\ DOMAIN stack = 1 .. Len(stack)
  BY LenProperties, EmptySeq
<1>2. Len(stack) - 1 \in 0 .. Len(stack)
  BY <1>1
<1>3. /\ Pop \in Seq(Loops)
      /\ Len(Pop) = Len(stack) - 1
      /\ \A k \in 1 .. Len(stack) - 1 : Pop[k] = stack[k]
  BY <1>1, <1>2 DEF Pop
<1>4. DOMAIN Pop = 1 .. Len(stack) - 1
  BY <1>3
<1> QED BY <1>1, <1>3, <1>4 DEF Top

\* What entering a loop adds.
LEMMA PushStack ==
    ASSUME NEW s \in Seq(Loops), NEW loop \in Loops
    PROVE  /\ Append(s, loop) \in Seq(Loops)
           /\ DOMAIN Append(s, loop) = DOMAIN s \cup {Len(s) + 1}
           /\ \A k \in DOMAIN s : Append(s, loop)[k] = s[k]
           /\ Append(s, loop)[Len(s) + 1] = loop
<1>1. DOMAIN s = 1 .. Len(s) /\ Len(s) \in Nat
  BY LenProperties
<1>2. /\ Append(s, loop) \in Seq(Loops) /\ Len(Append(s, loop)) = Len(s) + 1
      /\ \A k \in 1 .. Len(s) : Append(s, loop)[k] = s[k]
      /\ Append(s, loop)[Len(s) + 1] = loop
  BY AppendProperties
<1>3. DOMAIN Append(s, loop) = 1 .. Len(s) + 1
  BY <1>2, LenProperties
<1> QED BY <1>1, <1>2, <1>3

LEMMA InitIInv == Init => IInv
<1> SUFFICES ASSUME Init PROVE IInv
  OBVIOUS
<1>1. CASE config.auto = TRUE
  <2>1. stack = <<"peek">> /\ update = "init" /\ tick = TRUE
    BY <1>1 DEF Init
  <2> QED BY <2>1 DEF IInv, Frames, TickHasFrame, Running, Loops, Finished
<1>2. CASE config.auto = FALSE
  <2>1. stack = <<"main">> /\ update = "none" /\ tick = FALSE
    BY <1>2 DEF Init
  <2> QED BY <2>1 DEF IInv, Frames, TickHasFrame, Running, Loops, UpdateLoops
<1> QED BY <1>1, <1>2 DEF Init, Settings

LEMMA NextIInv == IInv /\ [Next]_vars => IInv'
<1> SUFFICES ASSUME IInv, [Next]_vars PROVE IInv'
  OBVIOUS
<1>u. ASSUME UNCHANGED <<stack, update, tick>> PROVE IInv'
  BY <1>u DEF IInv, Frames, TickHasFrame, Running
<1>1. CASE Tick
  <2>1. stack' = stack /\ tick /\ update \notin Finished \cup {"none"}
    BY <1>1 DEF Tick, TickInit, TickFindServer, TickLoadNotes, TickLoadUpdate, InTick, Finished
  <2>2. /\ update' # "none"
        /\ (tick' = tick /\ update' \notin Finished) \/ tick' = FALSE
    <3>1. CASE TickInit  BY <3>1 DEF TickInit, Finished
    <3>2. CASE TickFindServer
      <4>1. CASE version' <= Build  BY <3>2, <4>1 DEF TickFindServer, LastTick
      <4>2. CASE ~ (version' <= Build)
        BY <3>2, <4>2 DEF TickFindServer, Finished
      <4> QED BY <4>1, <4>2
    <3>3. CASE TickLoadNotes  BY <3>3 DEF TickLoadNotes, Finished
    <3>4. CASE TickLoadUpdate  BY <3>4 DEF TickLoadUpdate, LastTick
    <3> QED BY <1>1, <3>1, <3>2, <3>3, <3>4 DEF Tick
  <2>3. ~ Running("notes")
    BY <2>1 DEF IInv, Frames
  <2> QED BY <2>1, <2>2, <2>3 DEF IInv, Frames, TickHasFrame, Running
<1>2. CASE LeavePeek
  <2>1. /\ stack # << >> /\ Top = "peek" /\ update \in Finished
        /\ stack' = Append(Pop, "notes") /\ update' = update /\ tick' = tick
    BY <1>2 DEF LeavePeek, updateVars, Top
  <2>2. /\ Pop \in Seq(Loops)
        /\ Len(Pop) = Len(stack) - 1
        /\ DOMAIN Pop = DOMAIN stack \ {Len(stack)}
        /\ \A k \in DOMAIN Pop : Pop[k] = stack[k]
        /\ Len(stack) \in DOMAIN stack /\ stack[Len(stack)] = "peek"
    BY <2>1, PopStack DEF IInv
  <2>3. \A k \in DOMAIN Pop : Pop[k] \notin UpdateLoops
    BY <2>2 DEF IInv, Frames, UpdateLoops
  <2>n. Len(stack) \in Nat /\ Len(Pop) + 1 = Len(stack)
    BY <2>2, LenProperties DEF IInv
  <2>4. /\ stack' \in Seq(Loops)
        /\ DOMAIN stack' = DOMAIN Pop \cup {Len(stack)}
        /\ \A k \in DOMAIN Pop : stack'[k] = stack[k]
        /\ stack'[Len(stack)] = "notes"
    BY <2>1, <2>2, <2>n, PushStack DEF Loops
  <2>5. ~ tick
    BY <2>1 DEF IInv, TickHasFrame
  <2>6. \A k \in DOMAIN stack' : stack'[k] \in UpdateLoops => k = Len(stack)
    BY <2>2, <2>3, <2>4
  <2>7. update' # "none" /\ update' \in Finished
    BY <2>1 DEF Finished
  <2>8. \A k \in DOMAIN stack' : stack'[k] = "main" => k = 1
    BY <2>2, <2>4 DEF IInv, Frames
  <2>9. Frames'
    BY <2>6, <2>7, <2>8 DEF Frames
  <2>10. TickHasFrame'
    BY <2>1, <2>5 DEF TickHasFrame
  <2> QED BY <2>4, <2>9, <2>10 DEF IInv
<1>3. CASE LeaveNotes
  <2>1. stack # << >> /\ Top = "notes" /\ update' = "none" /\ tick' = tick
    BY <1>3 DEF LeaveNotes, Top
  <2>2. /\ Pop \in Seq(Loops)
        /\ DOMAIN Pop = DOMAIN stack \ {Len(stack)}
        /\ \A k \in DOMAIN Pop : Pop[k] = stack[k]
        /\ Len(stack) \in DOMAIN stack /\ stack[Len(stack)] = "notes"
    BY <2>1, PopStack DEF IInv
  <2>3. \A k \in DOMAIN Pop : Pop[k] \notin UpdateLoops
    BY <2>2 DEF IInv, Frames, UpdateLoops
  <2>4. stack' = Pop \/ stack' = << >> \/ stack' = <<"main">>
    BY <1>3 DEF LeaveNotes
  <2>5. /\ stack' \in Seq(Loops)
        /\ \A k \in DOMAIN stack' : stack'[k] \notin UpdateLoops
        /\ \A k \in DOMAIN stack' : stack'[k] = "main" => k = 1
    <3>1. CASE stack' = Pop
      BY <3>1, <2>2, <2>3 DEF IInv, Frames
    <3>2. CASE stack' = << >>
      BY <3>2
    <3>3. CASE stack' = <<"main">>
      BY <3>3 DEF Loops, UpdateLoops
    <3> QED BY <2>4, <3>1, <3>2, <3>3
  <2>6. ~ tick
    <3>1. Running("notes")
      BY <2>2 DEF Running
    <3> QED BY <3>1 DEF IInv, Frames, TickHasFrame
  <2> QED BY <2>1, <2>5, <2>6 DEF IInv, Frames, TickHasFrame, Running, UpdateLoops
<1>4. CASE UpdateNow
  <2>1. /\ stack' = Append(stack, "peek") /\ update = "none"
        /\ update' = "init" /\ tick' = TRUE
    BY <1>4 DEF UpdateNow, StartUpdate
  <2>2. stack' \in Seq(Loops)
    BY <2>1, PushStack DEF IInv, Loops
  <2>3. /\ \A k \in DOMAIN stack' : \/ k \in DOMAIN stack /\ stack'[k] = stack[k]
                                    \/ k = Len(stack) + 1
        /\ Len(stack) + 1 \in DOMAIN stack' /\ stack'[Len(stack) + 1] = "peek"
    BY <2>1, PushStack DEF IInv, Loops
  <2>4. \A k \in DOMAIN stack : stack[k] \notin UpdateLoops
    BY <2>1 DEF IInv, Frames
  <2>5. \A k \in DOMAIN stack' : stack'[k] \in UpdateLoops => k = Len(stack) + 1
    BY <2>3, <2>4
  <2>6. ~ Running("notes")'
    BY <2>3, <2>5 DEF Running, UpdateLoops
  <2> QED BY <2>1, <2>2, <2>3, <2>5, <2>6 DEF IInv, Frames, TickHasFrame, Running, Finished
<1>5. CASE EndMain
  <2>1. /\ stack # << >> /\ Top = "main" /\ stack' = << >>
        /\ UNCHANGED <<update, tick>>
    BY <1>5 DEF EndMain, updateVars, Top
  <2>2. Len(stack) \in DOMAIN stack /\ stack[Len(stack)] = "main"
    BY <2>1, PopStack DEF IInv
  <2>3. Len(stack) = 1
    BY <2>2 DEF IInv, Frames
  <2>4. DOMAIN stack = {1}
    BY <2>3, LenProperties DEF IInv
  <2>5. ~ Running("peek")
    BY <2>2, <2>3, <2>4 DEF Running
  <2>6. ~ tick
    BY <2>5 DEF IInv, TickHasFrame
  <2> QED BY <2>1, <2>6 DEF IInv, Frames, TickHasFrame, Running
<1>6. ASSUME NEW loop \in Loops \ (UpdateLoops \cup {"main"}),
             stack' = Append(stack, loop), UNCHANGED <<update, tick>>
      PROVE  IInv'
  <2>1. /\ stack' \in Seq(Loops)
        /\ DOMAIN stack' = DOMAIN stack \cup {Len(stack) + 1}
        /\ \A k \in DOMAIN stack : stack'[k] = stack[k]
        /\ stack'[Len(stack) + 1] = loop
    BY <1>6, PushStack DEF IInv
  <2> QED BY <1>6, <2>1, Kept
<1>7. ASSUME stack # << >>, Top \notin UpdateLoops, stack' = Pop,
             UNCHANGED <<update, tick>>
      PROVE  IInv'
  <2>1. /\ stack' \in Seq(Loops)
        /\ DOMAIN stack' = DOMAIN stack \ {Len(stack)}
        /\ \A k \in DOMAIN stack' : stack'[k] = stack[k]
        /\ stack[Len(stack)] \notin UpdateLoops
    BY <1>7, PopStack DEF IInv
  <2> QED BY <1>7, <2>1, Kept
<1>8. CASE LeaveLookUp
  <2>1. stack # << >> /\ Top = "lookup" /\ UNCHANGED <<update, tick>>
    BY <1>8 DEF LeaveLookUp, Top, updateVars
  <2>2. CASE stack' = Pop
    BY <2>1, <2>2, <1>7 DEF UpdateLoops
  <2>3. CASE stack' = Append(Pop, "message")
    <3>1. /\ Pop \in Seq(Loops) /\ Len(Pop) = Len(stack) - 1
          /\ DOMAIN Pop = DOMAIN stack \ {Len(stack)}
          /\ \A k \in DOMAIN Pop : Pop[k] = stack[k]
          /\ stack[Len(stack)] = "lookup"
      BY <2>1, PopStack DEF IInv
    <3>2. Len(stack) \in Nat /\ Len(Pop) + 1 = Len(stack)
      BY <3>1, LenProperties DEF IInv
    <3>3. /\ stack' \in Seq(Loops)
          /\ DOMAIN stack' = DOMAIN Pop \cup {Len(stack)}
          /\ \A k \in DOMAIN Pop : stack'[k] = stack[k]
          /\ stack'[Len(stack)] = "message"
      BY <2>3, <3>1, <3>2, PushStack DEF Loops
    <3>4. \A k \in DOMAIN stack' : stack'[k] \in UpdateLoops \cup {"main"} =>
             k \in DOMAIN stack /\ stack[k] = stack'[k]
      BY <3>1, <3>3 DEF UpdateLoops
    <3>5. \A k \in DOMAIN stack : stack[k] \in UpdateLoops =>
             k \in DOMAIN stack' /\ stack'[k] = stack[k]
      BY <3>1, <3>3 DEF UpdateLoops
    <3> QED BY <2>1, <3>3, <3>4, <3>5, Kept
  <2> QED BY <1>8, <2>2, <2>3 DEF LeaveLookUp
<1>9. CASE OpenOptions \/ OpenAbout \/ StartRaid
  BY <1>9, <1>6 DEF OpenOptions, OpenAbout, StartRaid, Open, Dialogs, Loops, UpdateLoops, updateVars
<1>10. CASE NoAddress \/ LookUp
  BY <1>10, <1>6 DEF NoAddress, LookUp, Loops, UpdateLoops, updateVars
<1>11. CASE \E dialog \in {"options", "about"} : LeaveDialog(dialog)
  BY <1>11, <1>7 DEF LeaveDialog, Top, UpdateLoops, updateVars
<1>12. CASE LeaveMessage \/ LeaveRaid
  BY <1>12, <1>7 DEF LeaveMessage, LeaveRaid, Top, UpdateLoops, updateVars
<1>13. CASE CloseUpdate \/ CloseNotes \/ CloseOptions \/ CloseAbout \/ CloseRaid
           \/ CloseLookUp
  BY <1>13, <1>u DEF CloseUpdate, CloseNotes, CloseOptions, CloseAbout, CloseRaid,
     CloseLookUp, CloseWindow, updateVars
<1>14. CASE TaskEnds \/ PeekQuit \/ PressRestart \/ CheckBox \/ FileExit \/ CloseMain
  BY <1>14, <1>u DEF TaskEnds, PeekQuit, PressRestart, CheckBox, FileExit, CloseMain,
     PostQuit, updateVars
<1>15. CASE OptionsButton \/ LookUpEnds \/ LookUpQuit
  BY <1>15, <1>u DEF OptionsButton, LookUpEnds, LookUpQuit, updateVars
<1>16. CASE UNCHANGED vars
  BY <1>16, <1>u DEF vars, updateVars
<1> QED
  BY <1>1, <1>2, <1>3, <1>4, <1>5, <1>8, <1>9, <1>10, <1>11, <1>12, <1>13, <1>14,
     <1>15, <1>16 DEF Next

\* The queued call of run_update_tick never outlives the variable it points to, for
\* every order of messages, closed windows and finished tasks.
THEOREM TickFrame == Spec => []TickHasFrame
<1>1. IInv => TickHasFrame
  BY DEF IInv
<1> QED BY InitIInv, NextIInv, <1>1, PTL DEF Spec
-----------------------------------------------------------------------------
(* Loops and their windows *)

LEMMA FramesHold == Spec => []IInv
BY InitIInv, NextIInv, PTL DEF Spec

Watched == Dialogs \cup {"notes", "main"}

\* A dialog is open once; the notes are there from the start of the update.
Safe ==
    /\ \A j, k \in DOMAIN stack : stack[j] = stack[k] /\ stack[j] \in Dialogs => j = k
    /\ Running("peek") /\ ~ crossed => "notes" \in windows
    /\ NoLoopStranded

LEMMA RunsOnce ==
    ASSUME IInv, Safe, NEW j \in DOMAIN stack, NEW k \in DOMAIN stack,
           stack[j] = stack[k], stack[j] \in Watched
    PROVE  j = k
BY DEF IInv, Frames, Safe, Watched, UpdateLoops

LEMMA StayIsSafe ==
    ASSUME Safe, stack' = stack, crossed => crossed',
           quit /\ Top \in Watched => quit',
           ~ crossed' => \A loop \in Watched : loop \in windows /\ Running(loop) =>
                            loop \in windows' \/ (quit' /\ Top = loop),
           ~ crossed' /\ Running("peek") /\ "notes" \in windows => "notes" \in windows'
    PROVE  Safe'
<1>1. Top' = Top /\ \A loop : Running(loop)' <=> Running(loop)
  BY DEF Top, Running
<1> QED BY <1>1 DEF Safe, NoLoopStranded, Watched

LEMMA PopIsSafe ==
    ASSUME IInv, Safe, stack # << >>, stack' = Pop, crossed => crossed',
           ~ crossed' => \A loop \in Watched : loop \in windows /\ Top # loop =>
                            loop \in windows' \/ (quit' /\ Top' = loop),
           "notes" \in windows /\ Top # "notes" => "notes" \in windows'
    PROVE  Safe'
<1>1. /\ DOMAIN stack' = DOMAIN stack \ {Len(stack)}
      /\ \A k \in DOMAIN stack' : stack'[k] = stack[k]
      /\ Len(stack) \in DOMAIN stack /\ Top = stack[Len(stack)]
  BY PopStack DEF IInv
<1>2. ASSUME NEW loop, Running(loop)'
      PROVE  Running(loop) /\ (loop \in Watched => Top # loop)
  <2>1. PICK k \in DOMAIN stack' : stack'[k] = loop
    BY <1>2 DEF Running
  <2>2. k \in DOMAIN stack /\ k # Len(stack) /\ stack[k] = loop
    BY <1>1, <2>1
  <2> QED BY <1>1, <2>2, RunsOnce DEF Running
<1>3. Running("peek")' => Top # "notes"
  BY <1>1, <1>2 DEF IInv, Frames, UpdateLoops, Running
<1>4. Running("peek")' /\ ~ crossed' => "notes" \in windows'
  BY <1>2, <1>3 DEF Safe
<1>5. NoLoopStranded'
  <2> SUFFICES ASSUME NEW loop \in Watched, Running(loop)', ~ crossed'
               PROVE  loop \in windows' \/ (quit' /\ Top' = loop)
    BY DEF NoLoopStranded, Watched
  <2>1. Running(loop) /\ Top # loop /\ ~ crossed
    BY <1>2
  <2>2. loop \in windows
    BY <2>1 DEF Safe, NoLoopStranded, Watched
  <2> QED BY <2>1, <2>2
<1> QED BY <1>1, <1>4, <1>5 DEF Safe

LEMMA PushIsSafe ==
    ASSUME IInv, Safe, ~ quit, crossed' = crossed, windows \subseteq windows',
           NEW x \in Loops \ {"notes", "main"}, stack' = Append(stack, x),
           x \in Dialogs => ~ Running(x) /\ x \in windows',
           x = "peek" => "notes" \in windows'
    PROVE  Safe'
<1>1. /\ DOMAIN stack' = DOMAIN stack \cup {Len(stack) + 1}
      /\ \A k \in DOMAIN stack : stack'[k] = stack[k]
      /\ stack'[Len(stack) + 1] = x
  BY PushStack DEF IInv
<1>2. \A loop : Running(loop)' => Running(loop) \/ loop = x
  BY <1>1 DEF Running
<1>3. \A j, k \in DOMAIN stack' : stack'[j] = stack'[k] /\ stack'[j] \in Dialogs => j = k
  BY <1>1 DEF Safe, Running
<1>4. Running("peek")' /\ ~ crossed' => "notes" \in windows'
  BY <1>2 DEF Safe
<1>5. NoLoopStranded'
  BY <1>2 DEF Safe, NoLoopStranded
<1> QED BY <1>3, <1>4, <1>5 DEF Safe

\* The innermost loop is exchanged for another one.
LEMMA Exchange ==
    ASSUME IInv, stack # << >>, NEW x \in Loops, stack' = Append(Pop, x)
    PROVE  /\ DOMAIN stack' = DOMAIN stack /\ Len(stack) \in DOMAIN stack
           /\ Top = stack[Len(stack)] /\ stack'[Len(stack)] = x
           /\ \A k \in DOMAIN stack : k # Len(stack) => stack'[k] = stack[k]
           /\ Top' = x
<1>1. /\ Pop \in Seq(Loops) /\ Len(Pop) = Len(stack) - 1
      /\ DOMAIN Pop = DOMAIN stack \ {Len(stack)}
      /\ \A k \in DOMAIN Pop : Pop[k] = stack[k]
      /\ Len(stack) \in DOMAIN stack /\ Top = stack[Len(stack)]
  BY PopStack DEF IInv
<1>2. Len(stack) \in Nat /\ Len(Pop) + 1 = Len(stack)
  BY <1>1, LenProperties DEF IInv
<1>3. /\ stack' \in Seq(Loops)
      /\ DOMAIN stack' = DOMAIN Pop \cup {Len(stack)}
      /\ \A k \in DOMAIN Pop : stack'[k] = Pop[k]
      /\ stack'[Len(stack)] = x
  BY <1>1, <1>2, PushStack
<1>4. DOMAIN stack' = DOMAIN stack
  BY <1>1, <1>3
<1>5. stack' # << >> /\ Len(stack') = Len(stack)
  BY <1>1, <1>2, <1>3, <1>4, LenProperties DEF IInv
<1>6. Top' = x
  BY <1>3, <1>5 DEF Top
<1> QED BY <1>1, <1>3, <1>4, <1>6

LEMMA LeavePeekIsSafe == IInv /\ Safe /\ LeavePeek => Safe'
<1> SUFFICES ASSUME IInv, Safe, LeavePeek PROVE Safe'
  OBVIOUS
<1>1. /\ stack # << >> /\ Top = "peek" /\ stack' = Append(Pop, "notes")
      /\ crossed' = crossed
      /\ windows' = IF notes THEN windows ELSE windows \ {"notes"}
      /\ quit' = (~ notes /\ "notes" \in windows)
  BY DEF LeavePeek, Top
<1>2. /\ DOMAIN stack' = DOMAIN stack /\ Len(stack) \in DOMAIN stack
      /\ stack[Len(stack)] = "peek" /\ stack'[Len(stack)] = "notes"
      /\ \A k \in DOMAIN stack : k # Len(stack) => stack'[k] = stack[k]
      /\ Top' = "notes"
  BY <1>1, Exchange DEF Loops
<1>3. \A j, k \in DOMAIN stack' : stack'[j] = stack'[k] /\ stack'[j] \in Dialogs => j = k
  BY <1>2 DEF Safe, Dialogs
<1>4. ~ Running("peek")'
  BY <1>2 DEF IInv, Frames, UpdateLoops, Running
<1>5. ~ crossed => "notes" \in windows
  BY <1>2 DEF Safe, Running
<1>6. ASSUME NEW loop \in Watched, Running(loop)', ~ crossed'
      PROVE  loop \in windows' \/ (quit' /\ Top' = loop)
  <2>1. CASE loop = "notes"
    BY <1>1, <1>2, <1>5, <1>6, <2>1
  <2>2. CASE loop # "notes"
    <3>1. Running(loop)
      BY <1>2, <1>6, <2>2 DEF Running
    <3>2. loop \in windows
      BY <1>1, <1>6, <3>1 DEF Safe, NoLoopStranded, Watched, Dialogs
    <3> QED BY <1>1, <2>2, <3>2
  <2> QED BY <2>1, <2>2
<1>7. NoLoopStranded'
  BY <1>6 DEF NoLoopStranded, Watched
<1> QED BY <1>3, <1>4, <1>7 DEF Safe

LEMMA LeaveNotesIsSafe == IInv /\ Safe /\ LeaveNotes => Safe'
<1> SUFFICES ASSUME IInv, Safe, LeaveNotes PROVE Safe'
  OBVIOUS
<1>1. stack # << >> /\ Top = "notes" /\ crossed' = crossed
  BY DEF LeaveNotes, Top
<1>2. CASE Len(stack) > 1
  <2>1. stack' = Pop /\ windows' = windows \ {"notes"}
    BY <1>2 DEF LeaveNotes
  <2> QED BY <1>1, <2>1, PopIsSafe
<1>3. CASE ~ (Len(stack) > 1)
  <2>1. stack' = << >> \/ (stack' = <<"main">> /\ windows' = {"main"})
    BY <1>3 DEF LeaveNotes
  <2>2. CASE stack' = << >>
    BY <2>2 DEF Safe, NoLoopStranded, Running
  <2>3. CASE stack' = <<"main">> /\ windows' = {"main"}
    <3>1. DOMAIN stack' = {1} /\ stack'[1] = "main"
      BY <2>3
    <3> QED BY <2>3, <3>1 DEF Safe, NoLoopStranded, Running, Dialogs
  <2> QED BY <2>1, <2>2, <2>3
<1> QED BY <1>2, <1>3

LEMMA LeaveLookUpIsSafe == IInv /\ Safe /\ LeaveLookUp => Safe'
<1> SUFFICES ASSUME IInv, Safe, LeaveLookUp PROVE Safe'
  OBVIOUS
<1>1. stack # << >> /\ Top = "lookup"
  BY DEF LeaveLookUp, Top
<1>2. CASE lookup = "found"
  <2>1. /\ stack' = Pop /\ windows' = windows \ {"lookup", "raid"} /\ quit' = TRUE
        /\ crossed' = (crossed \/ stack[Len(stack) - 1] # "raid")
    BY <1>2 DEF LeaveLookUp
  <2>2. \A loop \in Watched : loop # "lookup"
    BY DEF Watched, Dialogs
  <2>3. CASE crossed'
    BY <1>1, <2>1, <2>2, <2>3, PopIsSafe
  <2>4. CASE ~ crossed' /\ Len(stack) > 1
    <3>1. Len(stack) - 1 \in DOMAIN Pop /\ Len(stack) - 1 = Len(Pop) /\ Pop # << >>
      BY <1>1, <2>4, PopStack, LenProperties DEF IInv
    <3>2. Top' = "raid"
      BY <1>1, <2>1, <2>4, <3>1, PopStack DEF IInv, Top
    <3> QED BY <1>1, <2>1, <2>2, <3>2, PopIsSafe
  <2>5. CASE ~ (Len(stack) > 1)
    <3>1. DOMAIN stack' = {}
      BY <1>1, <2>1, <2>5, PopStack, LenProperties, EmptySeq DEF IInv
    <3> QED BY <3>1 DEF Safe, NoLoopStranded, Running
  <2> QED BY <2>3, <2>4, <2>5
<1>3. CASE lookup # "found"
  <2>1. /\ stack' = Append(Pop, "message") /\ windows' = windows \ {"lookup"}
        /\ crossed' = crossed
    BY <1>3 DEF LeaveLookUp
  <2>2. /\ DOMAIN stack' = DOMAIN stack /\ Len(stack) \in DOMAIN stack
        /\ stack[Len(stack)] = "lookup" /\ stack'[Len(stack)] = "message"
        /\ \A k \in DOMAIN stack : k # Len(stack) => stack'[k] = stack[k]
    BY <1>1, <2>1, Exchange DEF Loops
  <2>3. \A loop : Running(loop)' => Running(loop) \/ loop = "message"
    BY <2>2 DEF Running
  <2>4. \A j, k \in DOMAIN stack' : stack'[j] = stack'[k] /\ stack'[j] \in Dialogs => j = k
    BY <2>2 DEF Safe, Dialogs
  <2>5. Running("peek")' /\ ~ crossed' => "notes" \in windows'
    BY <2>1, <2>3 DEF Safe
  <2>6. NoLoopStranded'
    BY <1>1, <2>1, <2>3 DEF Safe, NoLoopStranded, Dialogs
  <2> QED BY <2>4, <2>5, <2>6 DEF Safe
<1> QED BY <1>2, <1>3

LEMMA NextSafe == IInv /\ Safe /\ [Next]_vars => Safe'
<1> SUFFICES ASSUME IInv, Safe, [Next]_vars PROVE Safe'
  OBVIOUS
<1> USE DEF Watched, Dialogs
<1>1. ASSUME UNCHANGED <<stack, windows, crossed>>, quit => quit' PROVE Safe'
  BY <1>1, StayIsSafe
<1>2. CASE Tick
  <2>1. /\ UNCHANGED <<stack, crossed>>
        /\ windows' = windows \/ windows' = windows \ {"update"}
        /\ quit => quit'
    <3>1. ASSUME NEW state, LastTick(state)
          PROVE  windows' = windows \ {"update"} /\ (quit => quit')
      BY <3>1 DEF LastTick
    <3> QED BY <1>2, <3>1 DEF Tick, TickInit, TickFindServer, TickLoadNotes, TickLoadUpdate
  <2> QED BY <2>1, StayIsSafe
<1>3. CASE PeekQuit
  <2>1. UNCHANGED <<stack, windows, crossed>> /\ Top = "peek"
    BY <1>3 DEF PeekQuit
  <2> QED BY <2>1, StayIsSafe
<1>4. CASE LookUpQuit
  <2>1. UNCHANGED <<stack, windows, crossed>> /\ Top = "lookup"
    BY <1>4 DEF LookUpQuit
  <2> QED BY <2>1, StayIsSafe
<1>5. ASSUME NEW w, NEW loop, CloseWindow(w, loop),
             w \notin Watched \/ loop = w
      PROVE  Safe'
  <2>1. /\ stack' = stack /\ quit' = TRUE /\ windows' = windows \ {w}
        /\ crossed' = (crossed \/ (loop # "none" /\ Top # loop))
    BY <1>5 DEF CloseWindow
  <2>2. CASE w \notin Watched
    BY <2>1, <2>2, StayIsSafe
  <2>3. CASE loop = w /\ w \in Watched
    <3>1. ~ crossed' => ~ crossed /\ Top = w
      BY <2>1, <2>3
    <3>2. Running("peek") /\ Top = "notes" => FALSE
      <4>1. ASSUME Top = "notes" PROVE stack # << >>
        BY <4>1 DEF Top
      <4>2. ASSUME Top = "notes" PROVE Len(stack) \in DOMAIN stack /\ stack[Len(stack)] = "notes"
        BY <4>1, <4>2, PopStack DEF IInv
      <4> QED BY <4>2 DEF IInv, Frames, UpdateLoops, Running
    <3> QED BY <2>1, <2>3, <3>1, <3>2, StayIsSafe
  <2> QED BY <1>5, <2>2, <2>3
<1>6. CASE CloseUpdate \/ CloseNotes \/ CloseOptions \/ CloseAbout \/ CloseRaid
           \/ CloseLookUp
  BY <1>5, <1>6 DEF CloseUpdate, CloseNotes, CloseOptions, CloseAbout, CloseRaid, CloseLookUp
<1>7. CASE CloseMain
  <2>1. /\ stack' = stack /\ quit' = TRUE /\ windows' = windows \ {"main", "options", "about"}
        /\ crossed' = (crossed \/ Top # "main")
    BY <1>7 DEF CloseMain
  <2>2. ASSUME Top = "main" PROVE \A loop : Running(loop) => loop = "main"
    <3>1. stack # << >>
      BY <2>2 DEF Top
    <3>2. Len(stack) \in DOMAIN stack /\ stack[Len(stack)] = "main"
      BY <2>2, <3>1, PopStack DEF IInv
    <3>3. Len(stack) = 1
      BY <3>2 DEF IInv, Frames
    <3>4. DOMAIN stack = {1}
      BY <3>3, LenProperties DEF IInv
    <3> QED BY <3>2, <3>3, <3>4 DEF Running
  <2> QED BY <2>1, <2>2, StayIsSafe
<1>8. ASSUME NEW dialog \in Dialogs, Open(dialog) PROVE Safe'
  <2>1. /\ ~ quit /\ crossed' = crossed /\ windows' = windows \cup {dialog}
        /\ stack' = Append(stack, dialog) /\ ~ Running(dialog)
    BY <1>8 DEF Open
  <2> QED BY <2>1, PushIsSafe DEF Loops
<1>9. CASE OpenOptions \/ OpenAbout \/ StartRaid
  BY <1>8, <1>9 DEF OpenOptions, OpenAbout, StartRaid
<1>10. CASE NoAddress \/ LookUp
  <2>1. /\ ~ quit /\ crossed' = crossed /\ windows \subseteq windows'
        /\ stack' = Append(stack, "message") \/ stack' = Append(stack, "lookup")
    BY <1>10 DEF NoAddress, LookUp
  <2> QED BY <2>1, PushIsSafe DEF Loops
<1>11. CASE UpdateNow
  <2>1. /\ ~ quit /\ crossed' = crossed /\ windows' = windows \cup {"update", "notes"}
        /\ stack' = Append(stack, "peek")
    BY <1>11 DEF UpdateNow
  <2> QED BY <2>1, PushIsSafe DEF Loops
<1>12. CASE EndMain
  <2>1. stack' = << >>
    BY <1>12 DEF EndMain
  <2> QED BY <2>1 DEF Safe, NoLoopStranded, Running
<1>13. CASE LeaveMessage \/ LeaveRaid \/ \E dialog \in {"options", "about"} : LeaveDialog(dialog)
  <2>1. /\ stack # << >> /\ stack' = Pop /\ crossed' = crossed
        /\ windows' = windows \/ windows' = windows \ {Top}
    BY <1>13 DEF LeaveMessage, LeaveRaid, LeaveDialog, Top
  <2> QED BY <2>1, PopIsSafe
<1>14. CASE TaskEnds \/ PressRestart \/ CheckBox \/ FileExit
  BY <1>1, <1>14 DEF TaskEnds, PressRestart, CheckBox, FileExit, PostQuit, updateVars
<1>15. CASE OptionsButton \/ LookUpEnds \/ UNCHANGED vars
  BY <1>1, <1>15 DEF OptionsButton, LookUpEnds, vars
<1> QED
  BY <1>2, <1>3, <1>4, <1>6, <1>7, <1>9, <1>10, <1>11, <1>12, <1>13, <1>14, <1>15,
     LeavePeekIsSafe, LeaveNotesIsSafe, LeaveLookUpIsSafe DEF Next

\* As long as windows are closed from the inside out, no loop waits for a WM_QUIT
\* that another loop has taken, for loops of any depth.
THEOREM LoopsEnd == Spec => []NoLoopStranded
<1>1. Init => Safe
  <2> SUFFICES ASSUME Init PROVE Safe
    OBVIOUS
  <2>1. \/ stack = <<"peek">> /\ windows = {"update", "notes"}
        \/ stack = <<"main">> /\ windows = {"main"}
    BY DEF Init
  <2>2. DOMAIN stack = {1} /\ stack[1] \in {"peek", "main"}
    BY <2>1
  <2> QED BY <2>1, <2>2 DEF Safe, NoLoopStranded, Running, Dialogs
<1>2. Safe => NoLoopStranded
  BY DEF Safe
<1> QED BY <1>1, <1>2, NextSafe, FramesHold, PTL DEF Spec
-----------------------------------------------------------------------------
(* Which loops stand inside which *)

\* Only the start-up check of updates and the main window stand at the bottom; a
\* dialog comes next, and a later update was started from the options.
Nested ==
    /\ 1 \in DOMAIN stack => stack[1] \in {"main", "peek", "notes"}
    /\ \A k \in DOMAIN stack : k > 1 => stack[1] = "main"
    /\ 2 \in DOMAIN stack => stack[2] \in Dialogs
    /\ \A k \in DOMAIN stack : stack[k] \in UpdateLoops /\ k > 1 =>
          \E j \in DOMAIN stack : j < k /\ stack[j] = "options"

\* A window is there only while its loop is, and notes that were never shown are
\* gone with peek_until.
Owned ==
    /\ \A w \in Dialogs \cup {"main", "lookup"} : w \in windows => Running(w)
    /\ "update" \in windows => Running("peek") /\ update \notin Finished
    /\ "notes" \in windows => Running("peek") \/ Running("notes")
    /\ update \in {"init", "find_server", "update_none"} => ~ notes
    /\ Running("notes") /\ update = "update_none" => "notes" \notin windows

LEMMA RunningAt ==
    ASSUME stack \in Seq(Loops), Nested, NEW loop \in Dialogs, Running(loop)
    PROVE  2 \in DOMAIN stack /\ stack[1] = "main" /\ 1 \in DOMAIN stack
<1>1. PICK k \in DOMAIN stack : stack[k] = loop
  BY DEF Running
<1>2. DOMAIN stack = 1..Len(stack) /\ Len(stack) \in Nat
  BY LenProperties
<1>3. k # 1
  BY <1>1, <1>2 DEF Nested, Dialogs
<1>4. k > 1 /\ 2 \in DOMAIN stack /\ 1 \in DOMAIN stack
  BY <1>2, <1>3
<1> QED BY <1>1, <1>4 DEF Nested

LEMMA TopIsMain ==
    ASSUME IInv, Top = "main"
    PROVE  /\ Len(stack) = 1 /\ DOMAIN stack = {1} /\ stack[1] = "main"
           /\ \A loop : Running(loop) => loop = "main"
<1>1. stack # << >>
  BY DEF Top
<1>2. Len(stack) \in DOMAIN stack /\ stack[Len(stack)] = "main"
  BY <1>1, PopStack DEF IInv
<1>3. Len(stack) = 1
  BY <1>2 DEF IInv, Frames
<1>4. DOMAIN stack = {1}
  BY <1>3, LenProperties DEF IInv
<1> QED BY <1>2, <1>3, <1>4 DEF Running

LEMMA PopIsNested ==
    ASSUME IInv, Nested, stack # << >>, stack' = Pop
    PROVE  Nested'
<1>1. /\ DOMAIN stack' = DOMAIN stack \ {Len(stack)}
      /\ \A k \in DOMAIN stack' : stack'[k] = stack[k]
      /\ DOMAIN stack = 1..Len(stack) /\ Len(stack) \in Nat
  BY PopStack, LenProperties DEF IInv
<1>2. \A k \in DOMAIN stack' : k > 1 => 1 \in DOMAIN stack'
  BY <1>1
<1>3. \A k \in DOMAIN stack', j \in DOMAIN stack : j < k => j \in DOMAIN stack'
  BY <1>1
<1>4. ASSUME NEW k \in DOMAIN stack', stack'[k] \in UpdateLoops, k > 1
      PROVE  \E j \in DOMAIN stack' : j < k /\ stack'[j] = "options"
  <2>1. PICK j \in DOMAIN stack : j < k /\ stack[j] = "options"
    BY <1>1, <1>4 DEF Nested
  <2> QED BY <1>1, <1>3, <2>1
<1> QED BY <1>1, <1>2, <1>4 DEF Nested

LEMMA PushIsNested ==
    ASSUME IInv, Nested, NEW x \in Loops, stack' = Append(stack, x),
           1 \in DOMAIN stack, stack[1] = "main",
           2 \in DOMAIN stack \/ x \in Dialogs,
           x \in UpdateLoops => Running("options")
    PROVE  Nested'
<1>1. /\ DOMAIN stack' = DOMAIN stack \cup {Len(stack) + 1}
      /\ \A k \in DOMAIN stack : stack'[k] = stack[k]
      /\ stack'[Len(stack) + 1] = x
  BY PushStack DEF IInv
<1>2. DOMAIN stack = 1..Len(stack) /\ Len(stack) \in Nat
  BY LenProperties DEF IInv
<1>3. stack'[1] = "main"
  BY <1>1
<1>4. 2 \in DOMAIN stack' => stack'[2] \in Dialogs
  <2>1. CASE 2 \in DOMAIN stack
    BY <1>1, <2>1 DEF Nested
  <2>2. CASE 2 \notin DOMAIN stack
    <3>1. Len(stack) = 1
      BY <1>2, <2>2
    <3> QED BY <1>1, <2>2, <3>1
  <2> QED BY <2>1, <2>2
<1>5. ASSUME NEW k \in DOMAIN stack', stack'[k] \in UpdateLoops, k > 1
      PROVE  \E j \in DOMAIN stack' : j < k /\ stack'[j] = "options"
  <2>1. CASE k \in DOMAIN stack
    BY <1>1, <1>5, <2>1 DEF Nested
  <2>2. CASE k = Len(stack) + 1
    <3>1. PICK j \in DOMAIN stack : stack[j] = "options"
      BY <1>1, <1>5, <2>2 DEF Running
    <3>2. j < k /\ j \in DOMAIN stack' /\ stack'[j] = "options"
      BY <1>1, <1>2, <2>2, <3>1
    <3> QED BY <3>2
  <2> QED BY <1>1, <2>1, <2>2
<1> QED BY <1>3, <1>4, <1>5 DEF Nested

LEMMA ExchangeIsNested ==
    ASSUME IInv, Nested, stack # << >>,
           \/ Top = "peek" /\ stack' = Append(Pop, "notes")
           \/ Top = "lookup" /\ stack' = Append(Pop, "message")
    PROVE  Nested'
<1>1. /\ DOMAIN stack' = DOMAIN stack /\ Len(stack) \in DOMAIN stack
      /\ \A k \in DOMAIN stack : k # Len(stack) => stack'[k] = stack[k]
      /\ \/ stack[Len(stack)] = "peek" /\ stack'[Len(stack)] = "notes"
         \/ stack[Len(stack)] = "lookup" /\ stack'[Len(stack)] = "message"
  BY Exchange DEF Loops
<1>2. DOMAIN stack = 1..Len(stack) /\ Len(stack) \in Nat
  BY LenProperties DEF IInv
<1>3. Len(stack) # 2
  BY <1>1 DEF Nested, Dialogs
<1>4. 1 \in DOMAIN stack' => stack'[1] \in {"main", "peek", "notes"}
  <2>1. stack'[1] = stack[1] \/ stack[1] \in {"peek", "lookup"}
    BY <1>1
  <2> QED BY <1>1, <2>1 DEF Nested
<1>5. \A k \in DOMAIN stack' : k > 1 => stack'[1] = "main"
  <2> SUFFICES ASSUME NEW k \in DOMAIN stack, k > 1 PROVE stack'[1] = "main"
    BY <1>1
  <2>1. 1 \in DOMAIN stack /\ 1 # Len(stack)
    BY <1>2
  <2> QED BY <1>1, <2>1 DEF Nested
<1>6. 2 \in DOMAIN stack' => stack'[2] \in Dialogs
  BY <1>1, <1>3 DEF Nested
<1>7. ASSUME NEW k \in DOMAIN stack', stack'[k] \in UpdateLoops, k > 1
      PROVE  \E j \in DOMAIN stack' : j < k /\ stack'[j] = "options"
  <2>1. stack[k] \in UpdateLoops
    BY <1>1, <1>7 DEF UpdateLoops
  <2>2. PICK j \in DOMAIN stack : j < k /\ stack[j] = "options"
    BY <1>1, <1>7, <2>1 DEF Nested
  <2>3. j # Len(stack)
    BY <1>1, <2>2
  <2> QED BY <1>1, <2>2, <2>3
<1> QED BY <1>4, <1>5, <1>6, <1>7 DEF Nested

\* What the steps do with the stack.
LEMMA StackSteps ==
    ASSUME [Next]_vars
    PROVE  \/ stack' = stack
           \/ stack' = << >>
           \/ stack # << >> /\ stack' = Pop
           \/ LeavePeek
           \/ LeaveLookUp /\ stack' = Append(Pop, "message")
           \/ LeaveNotes /\ stack' = <<"main">>
           \/ \E dialog \in Dialogs : Open(dialog)
           \/ NoAddress \/ LookUp \/ UpdateNow
<1>1. ASSUME Tick PROVE stack' = stack
  BY <1>1 DEF Tick, TickInit, TickFindServer, TickLoadNotes, TickLoadUpdate
<1>2. ASSUME \/ CloseUpdate \/ CloseNotes \/ CloseOptions \/ CloseAbout \/ CloseRaid
             \/ CloseLookUp \/ CloseMain
      PROVE  stack' = stack
  BY <1>2 DEF CloseUpdate, CloseNotes, CloseOptions, CloseAbout, CloseRaid, CloseLookUp,
     CloseWindow, CloseMain
<1>3. ASSUME TaskEnds \/ PeekQuit \/ LookUpQuit \/ PressRestart \/ CheckBox \/ FileExit
             \/ OptionsButton \/ LookUpEnds \/ UNCHANGED vars
      PROVE  stack' = stack
  BY <1>3 DEF TaskEnds, PeekQuit, LookUpQuit, PressRestart, CheckBox, FileExit, PostQuit,
     OptionsButton, LookUpEnds, vars
<1>4. ASSUME LeaveMessage \/ LeaveRaid \/ \E dialog \in {"options", "about"} : LeaveDialog(dialog)
      PROVE  stack # << >> /\ stack' = Pop
  BY <1>4 DEF LeaveMessage, LeaveRaid, LeaveDialog, Top
<1>5. ASSUME LeaveNotes
      PROVE  stack' = << >> \/ (stack # << >> /\ stack' = Pop) \/ stack' = <<"main">>
  BY <1>5 DEF LeaveNotes, Top
<1>6. ASSUME LeaveLookUp
      PROVE  (stack # << >> /\ stack' = Pop) \/ stack' = Append(Pop, "message")
  BY <1>6 DEF LeaveLookUp, Top
<1>7. ASSUME EndMain PROVE stack' = << >>
  BY <1>7 DEF EndMain
<1>8. ASSUME OpenOptions \/ OpenAbout \/ StartRaid PROVE \E dialog \in Dialogs : Open(dialog)
  BY <1>8 DEF OpenOptions, OpenAbout, StartRaid, Dialogs
<1> QED BY <1>1, <1>2, <1>3, <1>4, <1>5, <1>6, <1>7, <1>8 DEF Next

LEMMA NextNested == IInv /\ Nested /\ Owned /\ [Next]_vars => Nested'
<1> SUFFICES ASSUME IInv, Nested, Owned, [Next]_vars PROVE Nested'
  OBVIOUS
<1>1. CASE stack' = stack
  BY <1>1 DEF Nested
<1>2. CASE stack' = << >>
  BY <1>2 DEF Nested
<1>3. CASE stack # << >> /\ stack' = Pop
  BY <1>3, PopIsNested
<1>4. CASE LeavePeek \/ (LeaveLookUp /\ stack' = Append(Pop, "message"))
  <2>1. stack # << >>
    BY <1>4 DEF LeavePeek, LeaveLookUp, Top
  <2> QED BY <1>4, <2>1, ExchangeIsNested DEF LeavePeek, LeaveLookUp
<1>5. CASE stack' = <<"main">>
  <2>1. DOMAIN stack' = {1} /\ stack'[1] = "main"
    BY <1>5
  <2> QED BY <2>1 DEF Nested, UpdateLoops
<1>6. ASSUME NEW dialog \in Dialogs, Open(dialog) PROVE Nested'
  <2>1. Running("main") /\ stack' = Append(stack, dialog)
    BY <1>6 DEF Open, Owned
  <2>2. 1 \in DOMAIN stack /\ stack[1] = "main"
    BY <2>1 DEF Running, IInv, Frames
  <2> QED BY <2>1, <2>2, PushIsNested DEF Loops, UpdateLoops, Dialogs
<1>7. CASE NoAddress \/ LookUp
  <2>1. /\ Running("raid")
        /\ stack' = Append(stack, "message") \/ stack' = Append(stack, "lookup")
    BY <1>7 DEF NoAddress, LookUp, Owned, Dialogs
  <2>2. 2 \in DOMAIN stack /\ stack[1] = "main" /\ 1 \in DOMAIN stack
    BY <2>1, RunningAt DEF Dialogs, IInv
  <2> QED BY <2>1, <2>2, PushIsNested DEF Loops, UpdateLoops
<1>8. CASE UpdateNow
  <2>1. Running("options") /\ stack' = Append(stack, "peek")
    BY <1>8 DEF UpdateNow, Owned, Dialogs
  <2>2. 2 \in DOMAIN stack /\ stack[1] = "main" /\ 1 \in DOMAIN stack
    BY <2>1, RunningAt DEF Dialogs, IInv
  <2> QED BY <2>1, <2>2, PushIsNested DEF Loops
<1> QED BY <1>1, <1>2, <1>3, <1>4, <1>5, <1>6, <1>7, <1>8, StackSteps

-----------------------------------------------------------------------------
LEMMA PopIsOwned ==
    ASSUME IInv, Owned, stack # << >>, Top \notin UpdateLoops, stack' = Pop,
           windows' \subseteq windows \ {Top}, UNCHANGED <<update, notes>>
    PROVE  Owned'
<1>1. /\ DOMAIN stack' = DOMAIN stack \ {Len(stack)}
      /\ \A k \in DOMAIN stack' : stack'[k] = stack[k]
      /\ Top = stack[Len(stack)]
  BY PopStack DEF IInv
<1>2. \A loop : Running(loop) /\ loop # Top => Running(loop)'
  BY <1>1 DEF Running
<1>3. \A loop : Running(loop)' => Running(loop)
  BY <1>1 DEF Running
<1> QED BY <1>2, <1>3 DEF Owned, UpdateLoops

LEMMA PushIsOwned ==
    ASSUME IInv, Owned, NEW x \in Loops \ UpdateLoops, stack' = Append(stack, x),
           windows' \subseteq windows \cup ({x} \cap (Dialogs \cup {"lookup"})),
           UNCHANGED <<update, notes>>
    PROVE  Owned'
<1>1. /\ DOMAIN stack' = DOMAIN stack \cup {Len(stack) + 1}
      /\ \A k \in DOMAIN stack : stack'[k] = stack[k]
      /\ stack'[Len(stack) + 1] = x
  BY PushStack DEF IInv
<1>2. \A loop : Running(loop)' <=> Running(loop) \/ loop = x
  BY <1>1 DEF Running
<1>3. x # "peek" /\ x # "notes"
  BY DEF UpdateLoops
<1> QED BY <1>2, <1>3 DEF Owned, Dialogs

LEMMA StayIsOwned ==
    ASSUME Owned, stack' = stack, windows' \subseteq windows, UNCHANGED <<update, notes>>
    PROVE  Owned'
<1>1. \A loop : Running(loop)' <=> Running(loop)
  BY DEF Running
<1> QED BY <1>1 DEF Owned

LEMMA TickIsOwned == IInv /\ Owned /\ Tick => Owned'
<1> SUFFICES ASSUME IInv, Owned, Tick PROVE Owned'
  OBVIOUS
<1>1. stack' = stack /\ tick
  BY DEF Tick, TickInit, TickFindServer, TickLoadNotes, TickLoadUpdate, InTick
<1>2. /\ \A loop : Running(loop)' <=> Running(loop)
      /\ ~ Running("notes") /\ Running("peek")
  BY <1>1 DEF Running, IInv, TickHasFrame, Frames
<1>3. CASE TickInit
  BY <1>2, <1>3 DEF Owned, TickInit, InTick, Finished
<1>4. CASE TickFindServer
  <2>1. CASE version' <= Build
    BY <1>2, <1>4, <2>1 DEF Owned, TickFindServer, LastTick, InTick, Finished
  <2>2. CASE ~ (version' <= Build)
    BY <1>2, <1>4, <2>2 DEF Owned, TickFindServer, InTick, Finished
  <2> QED BY <2>1, <2>2
<1>5. CASE TickLoadNotes
  BY <1>2, <1>5 DEF Owned, TickLoadNotes, InTick, Finished
<1>6. CASE TickLoadUpdate
  BY <1>2, <1>6 DEF Owned, TickLoadUpdate, LastTick, InTick, Finished
<1> QED BY <1>3, <1>4, <1>5, <1>6 DEF Tick

LEMMA LeavePeekIsOwned == IInv /\ Owned /\ LeavePeek => Owned'
<1> SUFFICES ASSUME IInv, Owned, LeavePeek PROVE Owned'
  OBVIOUS
<1>1. /\ stack # << >> /\ Top = "peek" /\ stack' = Append(Pop, "notes")
      /\ windows' = IF notes THEN windows ELSE windows \ {"notes"}
      /\ update \in Finished /\ UNCHANGED <<update, notes>>
  BY DEF LeavePeek, Top, updateVars
<1>2. /\ DOMAIN stack' = DOMAIN stack /\ Len(stack) \in DOMAIN stack
      /\ stack[Len(stack)] = "peek" /\ stack'[Len(stack)] = "notes"
      /\ \A k \in DOMAIN stack : k # Len(stack) => stack'[k] = stack[k]
  BY <1>1, Exchange DEF Loops
<1>3. \A loop : Running(loop) /\ loop # "peek" => Running(loop)'
  BY <1>2 DEF Running
<1>4. Running("notes")'
  BY <1>2 DEF Running
<1>5. update = "update_none" => "notes" \notin windows'
  BY <1>1 DEF Owned
<1>6. \A w \in Dialogs \cup {"main", "lookup"} : w \in windows' => Running(w)'
  BY <1>1, <1>3 DEF Owned, Dialogs
<1> QED BY <1>1, <1>4, <1>5, <1>6 DEF Owned

LEMMA LeaveNotesIsOwned == IInv /\ Owned /\ LeaveNotes => Owned'
<1> SUFFICES ASSUME IInv, Owned, LeaveNotes PROVE Owned'
  OBVIOUS
<1>1. stack # << >> /\ Top = "notes" /\ update' = "none" /\ notes' = FALSE
  BY DEF LeaveNotes, Top
<1>2. /\ DOMAIN Pop = DOMAIN stack \ {Len(stack)}
      /\ \A k \in DOMAIN Pop : Pop[k] = stack[k]
      /\ Len(stack) \in DOMAIN stack /\ stack[Len(stack)] = "notes"
  BY <1>1, PopStack DEF IInv
<1>3. "update" \notin windows
  BY <1>2 DEF Owned, IInv, Frames, Running
<1>4. CASE Len(stack) > 1
  <2>1. stack' = Pop /\ windows' = windows \ {"notes"}
    BY <1>4 DEF LeaveNotes
  <2>2. \A loop : Running(loop) /\ loop # "notes" => Running(loop)'
    BY <1>2, <2>1 DEF Running
  <2>3. \A w \in Dialogs \cup {"main", "lookup"} : w \in windows' => Running(w)'
    BY <2>1, <2>2 DEF Owned, Dialogs
  <2> QED BY <1>1, <1>3, <2>1, <2>3 DEF Owned
<1>5. CASE ~ (Len(stack) > 1)
  <2>1. (stack' = << >> /\ windows' = {}) \/ (stack' = <<"main">> /\ windows' = {"main"})
    BY <1>5 DEF LeaveNotes
  <2>2. CASE stack' = << >> /\ windows' = {}
    BY <1>1, <2>2 DEF Owned, Running, Finished
  <2>3. CASE stack' = <<"main">> /\ windows' = {"main"}
    <3>1. Running("main")'
      BY <2>3 DEF Running
    <3> QED BY <1>1, <2>3, <3>1 DEF Owned, Dialogs
  <2> QED BY <2>1, <2>2, <2>3
<1> QED BY <1>4, <1>5

LEMMA LeaveLookUpIsOwned == IInv /\ Owned /\ LeaveLookUp => Owned'
<1> SUFFICES ASSUME IInv, Owned, LeaveLookUp PROVE Owned'
  OBVIOUS
<1>1. stack # << >> /\ Top = "lookup" /\ UNCHANGED <<update, notes>>
  BY DEF LeaveLookUp, Top, updateVars
<1>2. CASE lookup = "found"
  <2>1. stack' = Pop /\ windows' = windows \ {"lookup", "raid"}
    BY <1>2 DEF LeaveLookUp
  <2> QED BY <1>1, <2>1, PopIsOwned DEF UpdateLoops
<1>3. CASE lookup # "found"
  <2>1. stack' = Append(Pop, "message") /\ windows' = windows \ {"lookup"}
    BY <1>3 DEF LeaveLookUp
  <2>2. /\ DOMAIN stack' = DOMAIN stack /\ Len(stack) \in DOMAIN stack
        /\ stack[Len(stack)] = "lookup" /\ stack'[Len(stack)] = "message"
        /\ \A k \in DOMAIN stack : k # Len(stack) => stack'[k] = stack[k]
    BY <1>1, <2>1, Exchange DEF Loops
  <2>3. \A loop : Running(loop) /\ loop # "lookup" => Running(loop)'
    BY <2>2 DEF Running
  <2>4. \A loop : Running(loop)' => Running(loop) \/ loop = "message"
    BY <2>2 DEF Running
  <2> QED BY <1>1, <2>1, <2>3, <2>4 DEF Owned, Dialogs
<1> QED BY <1>2, <1>3

LEMMA NextOwned == IInv /\ Owned /\ [Next]_vars => Owned'
<1> SUFFICES ASSUME IInv, Owned, [Next]_vars PROVE Owned'
  OBVIOUS
<1>1. CASE \/ CloseUpdate \/ CloseNotes \/ CloseOptions \/ CloseAbout \/ CloseRaid
           \/ CloseLookUp \/ CloseMain
  <2>1. stack' = stack /\ windows' \subseteq windows /\ UNCHANGED <<update, notes>>
    BY <1>1 DEF CloseUpdate, CloseNotes, CloseOptions, CloseAbout, CloseRaid, CloseLookUp,
       CloseWindow, CloseMain, updateVars
  <2> QED BY <2>1, StayIsOwned
<1>2. CASE TaskEnds \/ PeekQuit \/ LookUpQuit \/ PressRestart \/ CheckBox \/ FileExit
           \/ OptionsButton \/ LookUpEnds \/ UNCHANGED vars
  <2>1. UNCHANGED <<stack, windows, update, notes>>
    BY <1>2 DEF TaskEnds, PeekQuit, LookUpQuit, PressRestart, CheckBox, FileExit, PostQuit,
       OptionsButton, LookUpEnds, vars, updateVars
  <2> QED BY <2>1, StayIsOwned
<1>3. CASE LeaveMessage
  <2>1. /\ stack # << >> /\ Top = "message" /\ stack' = Pop /\ windows' = windows
        /\ UNCHANGED <<update, notes>>
    BY <1>3 DEF LeaveMessage, Top, updateVars
  <2>2. /\ DOMAIN stack' = DOMAIN stack \ {Len(stack)}
        /\ \A k \in DOMAIN stack' : stack'[k] = stack[k]
        /\ "message" = stack[Len(stack)]
    BY <2>1, PopStack DEF IInv
  <2>3. \A loop : loop # "message" => (Running(loop) <=> Running(loop)')
    BY <2>2 DEF Running
  <2> QED BY <2>1, <2>3 DEF Owned, Dialogs
<1>4. CASE LeaveRaid \/ \E dialog \in {"options", "about"} : LeaveDialog(dialog)
  <2>1. /\ stack # << >> /\ Top \notin UpdateLoops /\ stack' = Pop
        /\ windows' = windows \ {Top} /\ UNCHANGED <<update, notes>>
    BY <1>4 DEF LeaveRaid, LeaveDialog, Top, updateVars, UpdateLoops
  <2> QED BY <2>1, PopIsOwned
<1>5. CASE OpenOptions \/ OpenAbout \/ StartRaid
  BY <1>5, PushIsOwned DEF OpenOptions, OpenAbout, StartRaid, Open, Dialogs, Loops,
     UpdateLoops, updateVars
<1>6. CASE NoAddress \/ LookUp
  BY <1>6, PushIsOwned DEF NoAddress, LookUp, Loops, UpdateLoops, updateVars
<1>7. CASE UpdateNow
  <2>1. /\ stack' = Append(stack, "peek") /\ windows' = windows \cup {"update", "notes"}
        /\ update = "none" /\ update' = "init" /\ notes' = FALSE
    BY <1>7 DEF UpdateNow, StartUpdate
  <2>2. /\ DOMAIN stack' = DOMAIN stack \cup {Len(stack) + 1}
        /\ \A k \in DOMAIN stack : stack'[k] = stack[k]
        /\ stack'[Len(stack) + 1] = "peek"
    BY <2>1, PushStack DEF IInv, Loops
  <2>3. \A loop : Running(loop)' <=> Running(loop) \/ loop = "peek"
    BY <2>2 DEF Running
  <2> QED BY <2>1, <2>3 DEF Owned, Dialogs, Finished
<1>8. CASE EndMain
  <2>1. windows' = {} /\ stack' = << >> /\ UNCHANGED <<update, notes>>
    BY <1>8 DEF EndMain, updateVars
  <2> QED BY <2>1 DEF Owned, Running
<1> QED
  BY <1>1, <1>2, <1>3, <1>4, <1>5, <1>6, <1>7, <1>8, TickIsOwned, LeavePeekIsOwned,
     LeaveNotesIsOwned, LeaveLookUpIsOwned DEF Next
-----------------------------------------------------------------------------
(* What the loop of the main window hears *)

\* Nothing but the main window, the raid dialog and what that opens.
Plain == \A k \in DOMAIN stack : stack[k] \in {"main", "raid", "message", "lookup"}

\* No WM_QUIT that nobody asked for reaches the main loop: one that is pending
\* belongs to a loop above, and in the raid dialog it means that the dialog is gone.
Requests ==
    /\ EndsOnRequest
    /\ quit /\ ~ asked /\ ~ cursed =>
          /\ Top # "main"
          /\ Plain => "raid" \notin windows \/ Running("lookup")

\* A WM_QUIT that comes while an update or the options or the about dialog runs.
LEMMA OthersRun ==
    ASSUME IInv, NEW loop \in {"options", "about", "peek", "notes"}, Running(loop)
    PROVE  Top # "main" /\ ~ Plain
BY TopIsMain DEF Plain, Running

LEMMA StayIsHeard ==
    ASSUME IInv, Requests, stack' = stack, ended' = ended, windows' \subseteq windows,
           asked => asked', cursed => cursed',
           \/ quit' => quit
           \/ asked'
           \/ Top # "main" /\ ~ Plain
           \/ Top # "main" /\ "raid" \notin windows'
           \/ Top # "main" /\ Running("lookup")
    PROVE  Requests'
<1>1. Top' = Top /\ (Plain' <=> Plain) /\ (Running("lookup")' <=> Running("lookup"))
  BY DEF Top, Plain, Running
<1> QED BY <1>1 DEF Requests, EndsOnRequest

LEMMA TickIsHeard == IInv /\ Requests /\ Tick => Requests'
<1> SUFFICES ASSUME IInv, Requests, Tick PROVE Requests'
  OBVIOUS
<1>1. /\ UNCHANGED <<stack, ended, asked, cursed>> /\ tick
      /\ windows' = windows \/ windows' = windows \ {"update"}
  <2>1. ASSUME NEW state, LastTick(state) PROVE windows' = windows \ {"update"}
    BY <2>1 DEF LastTick
  <2> QED BY <2>1 DEF Tick, TickInit, TickFindServer, TickLoadNotes, TickLoadUpdate, InTick
<1>2. Running("peek")
  BY <1>1 DEF IInv, TickHasFrame
<1> QED BY <1>1, <1>2, OthersRun, StayIsHeard

LEMMA CloseIsHeard ==
    ASSUME IInv, Owned, Requests, NEW w, NEW loop, CloseWindow(w, loop),
           w \in {"update", "notes", "options", "about", "raid", "lookup"}
    PROVE  Requests'
<1>1. /\ UNCHANGED <<stack, ended, asked, cursed>> /\ w \in windows
      /\ windows' = windows \ {w}
  BY DEF CloseWindow
<1>2. CASE w \in {"update", "notes"}
  BY <1>1, <1>2, OthersRun, StayIsHeard DEF Owned
<1>3. CASE w \in {"options", "about"}
  BY <1>1, <1>3, OthersRun, StayIsHeard DEF Owned, Dialogs
<1>4. CASE w \in {"raid", "lookup"}
  <2>1. Running(w)
    BY <1>1, <1>4 DEF Owned, Dialogs
  <2>2. Top # "main"
    BY <1>4, <2>1, TopIsMain
  <2> QED BY <1>1, <1>4, <2>1, <2>2, StayIsHeard
<1> QED BY <1>2, <1>3, <1>4

\* What is below the innermost loop.
LEMMA PopFacts ==
    ASSUME IInv, Nested, stack # << >>, stack' = Pop, IInv'
    PROVE  /\ \A loop : Running(loop) /\ loop # Top => Running(loop)'
           /\ \A loop : Running(loop)' => Running(loop)
           /\ Top \in {"main", "raid", "message", "lookup"} /\ Plain' => Plain
           /\ Top' = "main" => /\ Top \in Dialogs
                               /\ \A loop : Running(loop) => loop \in {"main", Top}
           /\ Top \in UpdateLoops /\ Len(stack) > 1 => Running("options")'
<1>1. /\ DOMAIN stack' = DOMAIN stack \ {Len(stack)}
      /\ \A k \in DOMAIN stack' : stack'[k] = stack[k]
      /\ Top = stack[Len(stack)] /\ Len(stack) \in DOMAIN stack
      /\ DOMAIN stack = 1..Len(stack) /\ Len(stack) \in Nat
  BY PopStack, LenProperties DEF IInv
<1>2. /\ \A loop : Running(loop) /\ loop # Top => Running(loop)'
      /\ \A loop : Running(loop)' => Running(loop)
  BY <1>1 DEF Running
<1>3. Top \in {"main", "raid", "message", "lookup"} /\ Plain' => Plain
  BY <1>1 DEF Plain
<1>4. ASSUME Top' = "main"
      PROVE  /\ Top \in Dialogs
             /\ \A loop : Running(loop) => loop \in {"main", Top}
  <2>1. DOMAIN stack' = {1} /\ stack'[1] = "main"
    <3>1. stack' # << >>
      BY <1>4 DEF Top
    <3>2. stack' \in Seq(Loops)
      BY DEF IInv
    <3>3. Len(stack') \in DOMAIN stack' /\ stack'[Len(stack')] = "main"
      BY <1>4, <3>1, <3>2, EmptySeq, LenProperties DEF Top
    <3>4. Len(stack') = 1
      BY <3>3 DEF IInv, Frames
    <3>5. DOMAIN stack' = 1..Len(stack')
      BY <3>2, LenProperties
    <3> QED BY <3>3, <3>4, <3>5
  <2>2. Len(stack) = 2
    <3>1. DOMAIN stack = {1, Len(stack)} /\ Len(stack) # 1
      BY <1>1, <2>1
    <3>2. ~ (Len(stack) > 2)
      <4> SUFFICES ASSUME Len(stack) > 2 PROVE FALSE
        OBVIOUS
      <4>1. 2 \in DOMAIN stack
        BY <1>1
      <4> QED BY <1>1, <3>1, <4>1
    <3> QED BY <1>1, <3>1, <3>2
  <2>3. stack[1] = "main" /\ Top = stack[2] /\ DOMAIN stack = {1, 2}
    BY <1>1, <2>1, <2>2
  <2> QED BY <2>3 DEF Nested, Running
<1>5. ASSUME Top \in UpdateLoops, Len(stack) > 1 PROVE Running("options")'
  <2>1. PICK j \in DOMAIN stack : j < Len(stack) /\ stack[j] = "options"
    BY <1>1, <1>5 DEF Nested
  <2>2. j \in DOMAIN stack' /\ stack'[j] = "options"
    BY <1>1, <2>1
  <2> QED BY <2>2 DEF Running
<1> QED BY <1>2, <1>3, <1>4, <1>5

LEMMA LeaveNotesIsHeard ==
    IInv /\ IInv' /\ Nested /\ Owned /\ Requests /\ LeaveNotes => Requests'
<1> SUFFICES ASSUME IInv, IInv', Nested, Owned, Requests, LeaveNotes PROVE Requests'
  OBVIOUS
<1>1. stack # << >> /\ Top = "notes" /\ UNCHANGED <<asked, cursed>>
  BY DEF LeaveNotes, Top
<1>2. CASE Len(stack) > 1
  <2>1. stack' = Pop /\ ended' = ended
    BY <1>2 DEF LeaveNotes
  <2>2. Running("options")'
    BY <1>1, <1>2, <2>1, PopFacts DEF UpdateLoops
  <2>3. Top' # "main"
    BY <1>1, <2>1, PopFacts DEF Dialogs
  <2>4. ~ Plain'
    BY <2>2 DEF Running, Plain
  <2> QED BY <1>1, <2>1, <2>3, <2>4 DEF Requests, EndsOnRequest
<1>3. CASE ~ (Len(stack) > 1)
  <2>1. Running("notes")
    BY <1>1, PopStack DEF IInv, Running
  <2>2. update \in Finished
    BY <2>1 DEF IInv, Frames
  <2>3. ~ quit' /\ (ended' = ended \/ ended' = "update")
    BY <1>3, <2>1, <2>2 DEF LeaveNotes, Owned, Finished
  <2> QED BY <1>1, <2>3 DEF Requests, EndsOnRequest
<1> QED BY <1>2, <1>3

LEMMA LeaveLookUpIsHeard ==
    IInv /\ IInv' /\ Nested /\ Requests /\ LeaveLookUp => Requests'
<1> SUFFICES ASSUME IInv, IInv', Nested, Requests, LeaveLookUp PROVE Requests'
  OBVIOUS
<1>1. stack # << >> /\ Top = "lookup" /\ UNCHANGED <<ended, asked>>
  BY DEF LeaveLookUp, Top
<1>2. CASE lookup = "found"
  <2>1. stack' = Pop /\ "raid" \notin windows' /\ cursed' = cursed
    BY <1>2 DEF LeaveLookUp
  <2>2. Top' # "main"
    BY <1>1, <2>1, PopFacts DEF Dialogs
  <2> QED BY <1>1, <2>1, <2>2 DEF Requests, EndsOnRequest
<1>3. CASE lookup # "found"
  <2>1. (cursed => cursed') /\ (quit' => cursed')
    BY <1>3 DEF LeaveLookUp
  <2> QED BY <1>1, <2>1 DEF Requests, EndsOnRequest
<1> QED BY <1>2, <1>3

LEMMA LeaveRaidIsHeard ==
    IInv /\ IInv' /\ Nested /\ Requests /\ LeaveRaid => Requests'
<1> SUFFICES ASSUME IInv, IInv', Nested, Requests, LeaveRaid PROVE Requests'
  OBVIOUS
<1>1. /\ stack # << >> /\ Top = "raid" /\ quit /\ stack' = Pop
      /\ "raid" \notin windows' /\ quit' = ("raid" \in windows)
      /\ UNCHANGED <<ended, asked, cursed>>
  BY DEF LeaveRaid, Top
<1>2. ASSUME Top' = "main", ~ asked, ~ cursed PROVE ~ quit'
  <2>1. \A loop : Running(loop) => loop \in {"main", "raid"}
    BY <1>1, <1>2, PopFacts
  <2>2. Plain /\ ~ Running("lookup")
    BY <2>1 DEF Plain, Running
  <2> QED BY <1>1, <1>2, <2>2 DEF Requests
<1> QED BY <1>1, <1>2 DEF Requests, EndsOnRequest

LEMMA LeaveMessageIsHeard ==
    IInv /\ IInv' /\ Nested /\ Requests /\ LeaveMessage => Requests'
<1> SUFFICES ASSUME IInv, IInv', Nested, Requests, LeaveMessage PROVE Requests'
  OBVIOUS
<1>1. /\ stack # << >> /\ Top = "message" /\ stack' = Pop
      /\ UNCHANGED <<windows, quit, ended, asked, cursed>>
  BY DEF LeaveMessage, Top
<1>2. Top' # "main" /\ (Plain' => Plain) /\ (Running("lookup") => Running("lookup")')
  BY <1>1, PopFacts DEF Dialogs
<1> QED BY <1>1, <1>2 DEF Requests, EndsOnRequest

LEMMA NextRequests ==
    IInv /\ IInv' /\ Nested /\ Owned /\ Requests /\ [Next]_vars => Requests'
<1> SUFFICES ASSUME IInv, IInv', Nested, Owned, Requests, [Next]_vars PROVE Requests'
  OBVIOUS
<1>1. CASE CloseUpdate \/ CloseNotes \/ CloseOptions \/ CloseAbout \/ CloseRaid \/ CloseLookUp
  BY <1>1, CloseIsHeard DEF CloseUpdate, CloseNotes, CloseOptions, CloseAbout, CloseRaid,
     CloseLookUp
<1>2. CASE TaskEnds \/ PeekQuit \/ LookUpQuit \/ CheckBox \/ LookUpEnds \/ UNCHANGED vars
  <2>1. UNCHANGED <<stack, windows, ended, asked, cursed>> /\ (quit' => quit)
    <3>1. CASE PeekQuit \/ LookUpQuit
      BY <3>1 DEF PeekQuit, LookUpQuit
    <3>2. CASE TaskEnds
      BY <3>2 DEF TaskEnds
    <3>3. CASE CheckBox
      BY <3>3 DEF CheckBox
    <3>4. CASE LookUpEnds
      BY <3>4 DEF LookUpEnds
    <3>5. CASE UNCHANGED vars
      BY <3>5 DEF vars
    <3> QED BY <1>2, <3>1, <3>2, <3>3, <3>4, <3>5
  <2> QED BY <2>1, StayIsHeard
<1>3. CASE FileExit \/ CloseMain
  <2>1. stack' = stack /\ ended' = ended /\ windows' \subseteq windows /\ asked' = TRUE
        /\ cursed' = cursed
    BY <1>3 DEF FileExit, CloseMain, PostQuit
  <2> QED BY <2>1, StayIsHeard
<1>4. CASE PressRestart
  <2>1. /\ UNCHANGED <<stack, windows, ended, asked, cursed>>
        /\ "notes" \in windows
    BY <1>4 DEF PressRestart, PostQuit
  <2> QED BY <2>1, OthersRun, StayIsHeard DEF Owned
<1>5. CASE OptionsButton
  <2>1. /\ UNCHANGED <<stack, windows, ended, asked, cursed>>
        /\ "options" \in windows
    BY <1>5 DEF OptionsButton
  <2> QED BY <2>1, OthersRun, StayIsHeard DEF Owned, Dialogs
<1>6. CASE LeavePeek
  <2>1. /\ stack # << >> /\ stack' = Append(Pop, "notes") /\ UNCHANGED <<ended, asked, cursed>>
    BY <1>6 DEF LeavePeek, Top
  <2>2. Top' = "notes" /\ ~ Plain'
    <3>1. /\ DOMAIN stack' = DOMAIN stack /\ Len(stack) \in DOMAIN stack
          /\ stack'[Len(stack)] = "notes" /\ Top' = "notes"
      BY <2>1, Exchange DEF Loops
    <3> QED BY <3>1 DEF Plain
  <2> QED BY <2>1, <2>2 DEF Requests, EndsOnRequest
<1>7. CASE \E dialog \in {"options", "about"} : LeaveDialog(dialog)
  BY <1>7 DEF LeaveDialog, Requests, EndsOnRequest
<1>8. CASE OpenOptions \/ OpenAbout \/ StartRaid \/ NoAddress \/ LookUp \/ UpdateNow
  <2>1. ~ quit' /\ UNCHANGED <<ended, asked, cursed>>
    BY <1>8 DEF OpenOptions, OpenAbout, StartRaid, Open, NoAddress, LookUp, UpdateNow
  <2> QED BY <2>1 DEF Requests, EndsOnRequest
<1>9. CASE EndMain
  <2>1. Top = "main" /\ quit /\ ~ quit' /\ UNCHANGED <<asked, cursed>>
    BY <1>9 DEF EndMain
  <2> QED BY <2>1 DEF Requests, EndsOnRequest
<1> QED
  BY <1>1, <1>2, <1>3, <1>4, <1>5, <1>6, <1>7, <1>8, <1>9, TickIsHeard,
     LeaveNotesIsHeard, LeaveLookUpIsHeard, LeaveRaidIsHeard, LeaveMessageIsHeard DEF Next

\* For every order of opening and closing dialogs, the program ends because its user
\* asked for it, or after a look-up that failed in a window that was still there.
THEOREM EndsWhenAsked == Spec => []EndsOnRequest
<1>1. Init => Nested /\ Owned /\ Requests
  <2> SUFFICES ASSUME Init PROVE Nested /\ Owned /\ Requests
    OBVIOUS
  <2>1. /\ \/ stack = <<"peek">> /\ windows = {"update", "notes"} /\ update = "init"
           \/ stack = <<"main">> /\ windows = {"main"} /\ update = "none"
        /\ notes = FALSE /\ quit = FALSE /\ ended = "no"
    BY DEF Init
  <2>2. DOMAIN stack = {1} /\ 1 \in DOMAIN stack
    BY <2>1
  <2>3. \/ stack[1] = "peek" /\ windows = {"update", "notes"} /\ update = "init"
        \/ stack[1] = "main" /\ windows = {"main"} /\ update = "none"
    <3>1. ASSUME stack = <<"peek">> PROVE stack[1] = "peek"
      BY <3>1
    <3>2. ASSUME stack = <<"main">> PROVE stack[1] = "main"
      BY <3>2
    <3> QED BY <2>1, <3>1, <3>2
  <2>4. Nested
    BY <2>2, <2>3 DEF Nested
  <2>5. Owned
    BY <2>1, <2>2, <2>3 DEF Owned, Running, Dialogs, Finished
  <2> QED BY <2>1, <2>4, <2>5 DEF Requests, EndsOnRequest
<1>2. Requests => EndsOnRequest
  BY DEF Requests
<1> QED
  BY <1>1, <1>2, NextNested, NextOwned, NextRequests, FramesHold, PTL DEF Spec
-----------------------------------------------------------------------------
(* Types *)

\* An entry or a leaving of a loop, as far as the types are concerned.
LEMMA StackTypes ==
    ASSUME stack \in Seq(Loops), Len(stack) <= MaxDepth
    PROVE  /\ CanPush => \A loop \in Loops : /\ Append(stack, loop) \in Seq(Loops)
                                             /\ Len(Append(stack, loop)) <= MaxDepth
           /\ stack # << >> => /\ Pop \in Seq(Loops) /\ Len(Pop) <= MaxDepth
                               /\ \A loop \in Loops : /\ Append(Pop, loop) \in Seq(Loops)
                                                      /\ Len(Append(Pop, loop)) <= MaxDepth
<1>1. Len(stack) \in Nat
  BY LenProperties
<1>2. ASSUME CanPush, NEW loop \in Loops
      PROVE  Append(stack, loop) \in Seq(Loops) /\ Len(Append(stack, loop)) <= MaxDepth
  <2>1. Append(stack, loop) \in Seq(Loops) /\ Len(Append(stack, loop)) = Len(stack) + 1
    BY AppendProperties
  <2> QED BY <1>1, <1>2, <2>1, MaxDepthAssumption DEF CanPush
<1>3. ASSUME stack # << >>
      PROVE  /\ Pop \in Seq(Loops) /\ Len(Pop) <= MaxDepth
             /\ \A loop \in Loops : /\ Append(Pop, loop) \in Seq(Loops)
                                    /\ Len(Append(Pop, loop)) <= MaxDepth
  <2>1. Pop \in Seq(Loops) /\ Len(Pop) = Len(stack) - 1
    BY <1>3, PopStack
  <2> DEFINE p == Pop
  <2> HIDE DEF p
  <2>2. p \in Seq(Loops) /\ Len(p) = Len(stack) - 1
    BY <2>1 DEF p
  <2>3. ASSUME NEW loop \in Loops
        PROVE  Append(p, loop) \in Seq(Loops) /\ Len(Append(p, loop)) <= MaxDepth
    <3>1. Append(p, loop) \in Seq(Loops) /\ Len(Append(p, loop)) = Len(p) + 1
      BY <2>2, AppendProperties
    <3> QED BY <1>1, <2>2, <3>1, MaxDepthAssumption
  <2>4. Len(p) <= MaxDepth
    BY <1>1, <2>2, MaxDepthAssumption
  <2> QED BY <2>2, <2>3, <2>4 DEF p
<1> QED BY <1>2, <1>3

\* The types of the variables of run_update.
UpdateTypes ==
    /\ config \in Settings /\ choice \in Settings
    /\ update \in States /\ task \in {"running", "done"}
    /\ tick \in BOOLEAN /\ notes \in BOOLEAN /\ patch \in BOOLEAN
    /\ offers \in Seq(Versions) /\ version \in Versions \cup {0}
    /\ result \in {"none", "true", "false"}

\* The types of the others.
LoopTypes ==
    /\ stack \in Seq(Loops) /\ Len(stack) <= MaxDepth
    /\ windows \subseteq Dialogs \cup {"update", "notes", "main", "lookup"}
    /\ quit \in BOOLEAN /\ asked \in BOOLEAN /\ cursed \in BOOLEAN /\ crossed \in BOOLEAN
    /\ ended \in {"no", "update", "quit"}
    /\ lookup \in {"none", "running", "found", "failed"}

LEMMA TypesAre == TypeOK <=> UpdateTypes /\ LoopTypes
BY DEF TypeOK, UpdateTypes, LoopTypes
BestSoFar(best, v) == IF v > best THEN v ELSE best

\* The loop over the servers ends with what the last of its steps has made.
LEMMA BestSteps ==
    ASSUME NEW s \in Seq(Nat)
    PROVE  \E g : /\ g[0] = 0
                  /\ \A i \in 1..Len(s) : g[i] = BestSoFar(g[i - 1], s[i])
                  /\ BestServer(s) = g[Len(s)]
<1> DEFINE n == Len(s)
           Val(it, S) == IF S = {} THEN 0 ELSE BestSoFar(it[S \ {Max(S)}], s[Max(S)])
           Eq(it) == it = [S \in SUBSET (1..n) |-> Val(it, S)]
           F == CHOOSE it : Eq(it)
           step == [i \in Nat |-> [acc \in Nat |-> IF i \in 1..n THEN BestSoFar(acc, s[i]) ELSE acc]]
<1>1. n \in Nat /\ DOMAIN s = 1..n /\ \A i \in 1..n : s[i] \in Nat
  BY LenProperties
<1>2. BestServer(s) = F[1..n]
  BY <1>1 DEF BestServer, FoldLeft, MapThenFoldSet, BestSoFar
<1>3. step \in [Nat -> [Nat -> Nat]]
  <2> HIDE DEF n
  <2> QED BY <1>1 DEF BestSoFar
<1>4. \A i \in 1..n, acc \in Nat : step[i][acc] = BestSoFar(acc, s[i])
  BY <1>1
<1> HIDE DEF step, n
<1>5. PICK it \in [SUBSET (1..n) -> Nat] : IsFold(it, 0, step, n)
  BY <1>1, <1>3, FoldExists
<1>6. ASSUME NEW S \in SUBSET (1..n), S # {}
      PROVE  it[S] = BestSoFar(it[S \ {Max(S)}], s[Max(S)])
  BY <1>1, <1>4, <1>5, <1>6, MaxInside DEF IsFold
<1>7. Eq(it)
  BY <1>5, <1>6 DEF IsFold
<1>8. Eq(F)
  <2> HIDE DEF Eq
  <2> QED BY <1>7
<1>9. F[{}] = 0 /\ \A i \in 1..n : F[1..i] = BestSoFar(F[1..i - 1], s[i])
  <2> HIDE DEF F
  <2>1. F[{}] = 0
    BY <1>8
  <2>2. ASSUME NEW i \in 1..n PROVE F[1..i] = BestSoFar(F[1..i - 1], s[i])
    <3>1. 1..i \in SUBSET (1..n) /\ i \in Nat /\ i > 0
      BY <1>1
    <3>2. Max(1..i) = i /\ 1..i # {} /\ (1..i) \ {i} = 1..i - 1
      BY <3>1, TopOfInterval
    <3> QED BY <3>1, <3>2, <1>8
  <2> QED BY <2>1, <2>2
<1> DEFINE g == [i \in 0..n |-> F[1..i]]
<1> HIDE DEF F
<1>10. g[0] = 0 /\ g[n] = F[1..n] /\ \A i \in 1..n : g[i] = BestSoFar(g[i - 1], s[i])
  BY <1>1, <1>9
<1> HIDE DEF g
<1> QED BY <1>2, <1>10 DEF n

\* No server has more than the best, and the best is one of the answers or none.
LEMMA BestFacts ==
    ASSUME NEW s \in Seq(Versions)
    PROVE  /\ BestServer(s) \in Versions \cup {0}
           /\ \A k \in DOMAIN s : s[k] <= BestServer(s)
<1> DEFINE N == Len(s)
<1>1. N \in Nat /\ DOMAIN s = 1..N /\ \A i \in 1..N : s[i] \in Versions /\ s[i] \in Nat
  BY LenProperties, ElementOfSeq, VersionsAssumption
<1>2. PICK g : /\ g[0] = 0
               /\ \A i \in 1..N : g[i] = BestSoFar(g[i - 1], s[i])
               /\ BestServer(s) = g[N]
  <2>1. s \in Seq(Nat)
    BY VersionsAssumption, SeqMonotonic
  <2> QED BY <2>1, BestSteps
<1> HIDE DEF N
<1> DEFINE Best(i) == g[i] \in Versions \cup {0} /\ \A k \in 1..i : s[k] <= g[i]
           P == {i \in Nat : i <= N => Best(i)}
<1>3. 0 \in P
  BY <1>2
<1>4. ASSUME NEW i \in Nat, i \in P PROVE i + 1 \in P
  <2> SUFFICES ASSUME i + 1 <= N PROVE Best(i + 1)
    OBVIOUS
  <2>1. i + 1 \in 1..N /\ (i + 1) - 1 = i /\ Best(i)
    BY <1>1, <1>4
  <2>2. g[i + 1] = BestSoFar(g[i], s[i + 1])
    BY <1>2, <2>1
  <2>3. g[i] \in Nat /\ s[i + 1] \in Nat /\ s[i + 1] \in Versions /\ \A k \in 1..i : s[k] \in Nat
    <3>1. \A k \in 1..i : k \in 1..N
      BY <1>1
    <3>2. g[i] \in Versions \cup {0}
      BY <2>1
    <3> HIDE DEF Best
    <3>3. g[i] \in Nat
      <4>1. \A v \in Versions \cup {0} : v \in Nat
        BY VersionsAssumption
      <4> QED BY <3>2, <4>1, Zenon
    <3>4. \A k \in 1..i : s[k] \in Nat
      BY <1>1, <3>1
    <3> QED BY <1>1, <2>1, <3>3, <3>4
  <2>4. g[i + 1] \in Versions \cup {0} /\ g[i + 1] >= g[i] /\ g[i + 1] >= s[i + 1] /\ g[i + 1] \in Nat
    BY <2>1, <2>2, <2>3 DEF BestSoFar
  <2>5. ASSUME NEW k \in 1..i + 1 PROVE s[k] <= g[i + 1]
    <3>1. CASE k = i + 1
      BY <2>3, <2>4, <3>1
    <3>2. CASE k # i + 1
      <4>1. k \in 1..i
        BY <3>2
      <4>2. s[k] <= g[i] /\ s[k] \in Nat
        BY <2>1, <2>3, <4>1
      <4> QED BY <2>3, <2>4, <4>2
    <3> QED BY <3>1, <3>2
  <2> QED BY <2>4, <2>5
<1> HIDE DEF P
<1>5. N \in P
  BY <1>1, <1>3, <1>4, Induct
<1> QED BY <1>1, <1>2, <1>5 DEF P

-----------------------------------------------------------------------------
LEMMA NextUpdateTypes == UpdateTypes /\ [Next]_vars => UpdateTypes'
<1> SUFFICES ASSUME UpdateTypes, [Next]_vars PROVE UpdateTypes'
  OBVIOUS
<1>u. ASSUME UNCHANGED updateVars PROVE UpdateTypes'
  BY <1>u DEF UpdateTypes, updateVars
<1>1. CASE TickInit
  <2>1. \A f \in Answers : f \in Seq(Versions)
    BY VersionsAssumption DEF Answers
  <2>2. offers' \in Seq(Versions)
    BY <1>1, <2>1 DEF TickInit
  <2> QED BY <1>1, <2>2 DEF TickInit, UpdateTypes, States
<1>2. CASE TaskEnds
  <2>1. patch' \in BOOLEAN
    <3>1. CASE update = "load_update"
      BY <1>2, <3>1 DEF TaskEnds
    <3>2. CASE update # "load_update"
      BY <1>2, <3>2 DEF TaskEnds
    <3> QED BY <3>1, <3>2
  <2>2. task' = "done" /\ UNCHANGED <<config, update, tick, offers, version, notes, choice, result>>
    BY <1>2 DEF TaskEnds
  <2> QED BY <2>1, <2>2 DEF UpdateTypes
<1>3. CASE TickFindServer
  <2>1. version' \in Versions \cup {0}
    BY <1>3, BestFacts DEF TickFindServer, UpdateTypes
  <2>2. UNCHANGED <<config, offers, choice, result, patch>>
    BY <1>3 DEF TickFindServer
  <2>3. choice.show \in BOOLEAN
    BY DEF UpdateTypes, Settings
  <2>4. CASE version' <= Build
    <3>1. update' = "update_none" /\ tick' = FALSE /\ UNCHANGED <<task, notes>>
      BY <1>3, <2>4 DEF TickFindServer, LastTick
    <3> QED BY <2>1, <2>2, <3>1 DEF UpdateTypes, States, Finished
  <2>5. CASE ~ (version' <= Build)
    <3>1. /\ update' \in {"load_notes", "load_update"} /\ notes' = choice.show
          /\ task' = "running" /\ tick' = tick
      BY <1>3, <2>5 DEF TickFindServer
    <3> QED BY <2>1, <2>2, <2>3, <3>1 DEF UpdateTypes, States
  <2> QED BY <2>4, <2>5
<1>4. CASE TickLoadNotes
  BY <1>4 DEF TickLoadNotes, UpdateTypes, States
<1>5. CASE TickLoadUpdate
  BY <1>5 DEF TickLoadUpdate, LastTick, UpdateTypes, States, Finished
<1>6. CASE LeaveNotes
  <2>1. config' \in Settings
    <3>1. config' = [auto |-> config.auto /\ choice.auto, show |-> config.show /\ choice.show]
      BY <1>6 DEF LeaveNotes
    <3>2. \A a, b, c, d \in BOOLEAN : [auto |-> a /\ b, show |-> c /\ d] \in Settings
      BY DEF Settings
    <3>3. /\ config.auto \in BOOLEAN /\ config.show \in BOOLEAN
          /\ choice.auto \in BOOLEAN /\ choice.show \in BOOLEAN
      BY DEF UpdateTypes, Settings
    <3> QED BY <3>1, <3>2, <3>3, Zenon
  <2>2. /\ update' = "none" /\ result' \in {"true", "false"} /\ offers' = << >> /\ version' = 0
        /\ notes' = FALSE /\ choice' = [auto |-> TRUE, show |-> TRUE]
        /\ UNCHANGED <<tick, task, patch>>
    BY <1>6 DEF LeaveNotes
  <2>3. << >> \in Seq(Versions)
    OBVIOUS
  <2> QED BY <2>1, <2>2, <2>3 DEF UpdateTypes, States, Settings
<1>7. CASE CheckBox
  <2>1. choice' \in Settings
    <3>1. \/ choice' = [choice EXCEPT !.auto = ~ @]
          \/ choice' = [choice EXCEPT !.show = ~ @]
      BY <1>7 DEF CheckBox
    <3> QED BY <3>1 DEF UpdateTypes, Settings
  <2> QED BY <1>7, <2>1 DEF CheckBox, UpdateTypes
<1>8. CASE OptionsButton
  <2>1. config' \in Settings
    BY <1>8 DEF OptionsButton, UpdateTypes
  <2>2. UNCHANGED <<update, tick, task, offers, version, notes, choice, result, patch>>
    BY <1>8 DEF OptionsButton
  <2> QED BY <2>1, <2>2 DEF UpdateTypes
<1>9. CASE UpdateNow
  <2>1. config.show \in BOOLEAN
    BY DEF UpdateTypes, Settings
  <2>2. << >> \in Seq(Versions)
    OBVIOUS
  <2>3. /\ update' = "init" /\ tick' = TRUE /\ task' = "done" /\ offers' = << >> /\ version' = 0
        /\ notes' = FALSE /\ choice' = [auto |-> TRUE, show |-> config.show]
        /\ result' = "none" /\ patch' = FALSE /\ config' = config
    BY <1>9 DEF UpdateNow, StartUpdate
  <2> QED BY <2>1, <2>2, <2>3 DEF UpdateTypes, States, Settings
<1>10. CASE CloseUpdate \/ CloseNotes \/ CloseOptions \/ CloseAbout \/ CloseRaid \/ CloseLookUp
  BY <1>10, <1>u DEF CloseUpdate, CloseNotes, CloseOptions, CloseAbout, CloseRaid, CloseLookUp,
     CloseWindow
<1>11. CASE PeekQuit \/ LeavePeek \/ PressRestart \/ FileExit \/ CloseMain \/ EndMain
  BY <1>11, <1>u DEF PeekQuit, LeavePeek, PressRestart, FileExit, CloseMain, EndMain
<1>12. CASE OpenOptions \/ OpenAbout \/ StartRaid \/ NoAddress \/ LookUp \/ LookUpEnds \/ LookUpQuit
  BY <1>12, <1>u DEF OpenOptions, OpenAbout, StartRaid, Open, NoAddress, LookUp, LookUpEnds,
     LookUpQuit
<1>13. CASE LeaveLookUp \/ LeaveMessage \/ LeaveRaid
            \/ \E dialog \in {"options", "about"} : LeaveDialog(dialog)
  BY <1>13, <1>u DEF LeaveLookUp, LeaveMessage, LeaveRaid, LeaveDialog
<1>14. CASE UNCHANGED vars
  BY <1>14, <1>u DEF vars
<1> QED
  BY <1>1, <1>2, <1>3, <1>4, <1>5, <1>6, <1>7, <1>8, <1>9, <1>10, <1>11, <1>12, <1>13,
     <1>14 DEF Next, Tick

LEMMA NextLoopTypes == LoopTypes /\ [Next]_vars => LoopTypes'
<1> SUFFICES ASSUME LoopTypes, [Next]_vars PROVE LoopTypes'
  OBVIOUS
<1> DEFINE All == Dialogs \cup {"update", "notes", "main", "lookup"}
           Flags == /\ quit' \in BOOLEAN /\ asked' \in BOOLEAN /\ cursed' \in BOOLEAN
                    /\ crossed' \in BOOLEAN
                    /\ ended' \in {"no", "update", "quit"}
                    /\ lookup' \in {"none", "running", "found", "failed"}
<1>s. /\ \A loop \in Loops : CanPush => /\ Append(stack, loop) \in Seq(Loops)
                                        /\ Len(Append(stack, loop)) <= MaxDepth
      /\ \A loop \in Loops : stack # << >> => /\ Append(Pop, loop) \in Seq(Loops)
                                              /\ Len(Append(Pop, loop)) <= MaxDepth
      /\ stack # << >> => Pop \in Seq(Loops) /\ Len(Pop) <= MaxDepth
  BY StackTypes DEF LoopTypes
<1>1. ASSUME stack' \in Seq(Loops), Len(stack') <= MaxDepth, windows' \subseteq All, Flags
      PROVE  LoopTypes'
  BY <1>1 DEF LoopTypes
<1>2. ASSUME stack' = stack, windows' \subseteq windows, Flags PROVE LoopTypes'
  BY <1>1, <1>2 DEF LoopTypes
<1>3. ASSUME stack # << >>, stack' = Pop, windows' \subseteq windows, Flags PROVE LoopTypes'
  BY <1>1, <1>3, <1>s DEF LoopTypes
<1>4. ASSUME NEW loop \in Loops, CanPush, stack' = Append(stack, loop), windows' \subseteq All, Flags
      PROVE  LoopTypes'
  BY <1>1, <1>4, <1>s
<1>5. ASSUME NEW loop \in Loops, stack # << >>, stack' = Append(Pop, loop), windows' \subseteq windows,
             Flags
      PROVE  LoopTypes'
  BY <1>1, <1>5, <1>s DEF LoopTypes
<1>6. ASSUME UNCHANGED <<asked, cursed, crossed, ended, lookup>>, quit' \in BOOLEAN PROVE Flags
  BY <1>6 DEF LoopTypes
<1> HIDE DEF All, Flags
<1>7. CASE Tick
  <2>1. /\ stack' = stack /\ windows' \subseteq windows
        /\ quit' = quit \/ quit' = (quit \/ "update" \in windows)
        /\ UNCHANGED <<asked, cursed, crossed, ended, lookup>>
    <3>1. CASE TickInit  BY <3>1 DEF TickInit
    <3>2. CASE TickFindServer
      <4>1. CASE version' <= Build  BY <3>2, <4>1 DEF TickFindServer, LastTick
      <4>2. CASE ~ (version' <= Build)
        BY <3>2, <4>2 DEF TickFindServer
      <4> QED BY <4>1, <4>2
    <3>3. CASE TickLoadNotes  BY <3>3 DEF TickLoadNotes
    <3>4. CASE TickLoadUpdate  BY <3>4 DEF TickLoadUpdate, LastTick
    <3> QED BY <1>7, <3>1, <3>2, <3>3, <3>4 DEF Tick
  <2>2. quit' \in BOOLEAN
    BY <2>1 DEF LoopTypes
  <2> QED BY <1>2, <1>6, <2>1, <2>2
<1>8. CASE TaskEnds \/ PeekQuit \/ CheckBox \/ OptionsButton \/ LookUpQuit \/ PressRestart
  <2>1. /\ stack' = stack /\ windows' = windows /\ quit' \in BOOLEAN
        /\ UNCHANGED <<asked, cursed, crossed, ended, lookup>>
    BY <1>8 DEF TaskEnds, PeekQuit, CheckBox, OptionsButton, LookUpQuit, PressRestart, PostQuit,
       LoopTypes
  <2> QED BY <1>2, <1>6, <2>1
<1>9. CASE LookUpEnds \/ FileExit
  BY <1>2, <1>9 DEF LookUpEnds, FileExit, PostQuit, Flags, LoopTypes
<1>10. ASSUME NEW w, NEW loop, CloseWindow(w, loop) PROVE LoopTypes'
  <2>1. crossed' \in BOOLEAN
    <3>1. crossed' = (crossed \/ (loop # "none" /\ Top # loop))
      BY <1>10 DEF CloseWindow
    <3> QED BY <3>1, Zenon
  <2> QED BY <1>2, <1>10, <2>1 DEF CloseWindow, Flags, LoopTypes
<1>11. CASE CloseUpdate \/ CloseNotes \/ CloseOptions \/ CloseAbout \/ CloseRaid \/ CloseLookUp
  BY <1>10, <1>11 DEF CloseUpdate, CloseNotes, CloseOptions, CloseAbout, CloseRaid, CloseLookUp
<1>12. CASE CloseMain
  <2>1. crossed' \in BOOLEAN
    <3>1. crossed' = (crossed \/ Top # "main")
      BY <1>12 DEF CloseMain
    <3> QED BY <3>1, Zenon
  <2> QED BY <1>2, <1>12, <2>1 DEF CloseMain, Flags, LoopTypes
<1>13. ASSUME NEW dialog \in Dialogs, Open(dialog) PROVE LoopTypes'
  <2>1. windows' \subseteq All /\ dialog \in Loops
    BY <1>13 DEF Open, LoopTypes, All, Loops
  <2> QED BY <1>4, <1>6, <1>13, <2>1 DEF Open, LoopTypes
<1>14. CASE OpenOptions \/ OpenAbout \/ StartRaid
  BY <1>13, <1>14 DEF OpenOptions, OpenAbout, StartRaid, Dialogs
<1>15. CASE NoAddress
  <2>1. windows' \subseteq All /\ "message" \in Loops
    BY <1>15 DEF NoAddress, LoopTypes, All, Loops
  <2> QED BY <1>4, <1>6, <1>15, <2>1 DEF NoAddress, LoopTypes
<1>16. CASE LookUp
  <2>1. windows' \subseteq All /\ "lookup" \in Loops
    BY <1>16 DEF LookUp, LoopTypes, All, Loops
  <2> QED BY <1>4, <1>16, <2>1 DEF LookUp, LoopTypes, Flags
<1>17. CASE UpdateNow
  <2>1. windows' \subseteq All /\ "peek" \in Loops
    BY <1>17 DEF UpdateNow, LoopTypes, All, Loops
  <2> QED BY <1>4, <1>6, <1>17, <2>1 DEF UpdateNow, LoopTypes
<1>18. CASE LeavePeek
  <2>1. /\ stack # << >> /\ stack' = Append(Pop, "notes") /\ windows' \subseteq windows
        /\ UNCHANGED <<asked, cursed, crossed, ended, lookup>> /\ "notes" \in Loops
    BY <1>18 DEF LeavePeek, Top, Loops
  <2>2. quit' \in BOOLEAN
    <3>1. quit' = (~ notes /\ "notes" \in windows)
      BY <1>18 DEF LeavePeek
    <3> QED BY <3>1, SMT
  <2> QED BY <1>5, <1>6, <2>1, <2>2
<1>19. CASE LeaveNotes
  <2>1. stack # << >> /\ UNCHANGED <<asked, cursed, crossed, lookup>>
    BY <1>19 DEF LeaveNotes, Top
  <2>2. CASE Len(stack) > 1
    <3>1. /\ stack' = Pop /\ windows' \subseteq windows /\ ended' = ended
          /\ quit' = ("notes" \in windows \/ update = "update_ok")
      BY <1>19, <2>2 DEF LeaveNotes
    <3>2. quit' \in BOOLEAN
      BY <3>1, Zenon
    <3> QED BY <1>3, <1>6, <2>1, <3>1, <3>2
  <2>3. CASE ~ (Len(stack) > 1) /\ update = "update_ok"
    <3>1. ended' = "update" /\ stack' = << >> /\ windows' = {} /\ quit' = FALSE
      BY <1>19, <2>3 DEF LeaveNotes
    <3>2. << >> \in Seq(Loops) /\ Len(<< >>) = 0 /\ 0 <= MaxDepth
      BY MaxDepthAssumption
    <3> QED BY <1>1, <2>1, <3>1, <3>2 DEF Flags, LoopTypes
  <2>4. CASE ~ (Len(stack) > 1) /\ update # "update_ok"
    <3>1. ended' = ended /\ stack' = <<"main">> /\ windows' = {"main"} /\ quit' = ("notes" \in windows)
      BY <1>19, <2>4 DEF LeaveNotes
    <3>2. <<"main">> \in Seq(Loops) /\ Len(<<"main">>) = 1 /\ 1 <= MaxDepth
      BY MaxDepthAssumption DEF Loops
    <3>3. windows' \subseteq All
      BY <3>1 DEF All
    <3>4. quit' \in BOOLEAN
      BY <3>1, SMT
    <3> QED BY <1>1, <1>6, <2>1, <3>1, <3>2, <3>3, <3>4
  <2> QED BY <2>2, <2>3, <2>4
<1>20. CASE EndMain
  <2>1. ended' = "quit" /\ stack' = << >> /\ windows' = {} /\ quit' = FALSE
        /\ UNCHANGED <<asked, cursed, crossed, lookup>>
    BY <1>20 DEF EndMain
  <2>2. << >> \in Seq(Loops) /\ Len(<< >>) = 0 /\ 0 <= MaxDepth
    BY MaxDepthAssumption
  <2> QED BY <1>1, <2>1, <2>2 DEF Flags, LoopTypes
<1>21. CASE \E dialog \in {"options", "about"} : LeaveDialog(dialog)
  BY <1>3, <1>6, <1>21 DEF LeaveDialog, Top
<1>22. CASE LeaveMessage
  BY <1>3, <1>6, <1>22 DEF LeaveMessage, Top, LoopTypes
<1>23. CASE LeaveRaid
  <2>1. quit' \in BOOLEAN
    <3>1. quit' = ("raid" \in windows)
      BY <1>23 DEF LeaveRaid
    <3> QED BY <3>1, SMT
  <2> QED BY <1>3, <1>6, <1>23, <2>1 DEF LeaveRaid, Top
<1>24. CASE LeaveLookUp
  <2>1. stack # << >> /\ lookup' = "none" /\ UNCHANGED <<ended, asked>>
    BY <1>24 DEF LeaveLookUp, Top
  <2>2. CASE lookup = "found"
    <3>1. /\ stack' = Pop /\ windows' \subseteq windows /\ quit' = TRUE /\ cursed' = cursed
          /\ crossed' = (crossed \/ stack[Len(stack) - 1] # "raid")
      BY <1>24, <2>2 DEF LeaveLookUp
    <3>2. crossed' \in BOOLEAN
      BY <3>1, Zenon
    <3> QED BY <1>3, <2>1, <3>1, <3>2 DEF Flags, LoopTypes
  <2>3. CASE lookup # "found"
    <3>1. /\ stack' = Append(Pop, "message") /\ windows' \subseteq windows /\ crossed' = crossed
          /\ quit' = ("lookup" \in windows) /\ cursed' = (cursed \/ "lookup" \in windows)
          /\ "message" \in Loops
      BY <1>24, <2>3 DEF LeaveLookUp, Loops
    <3>2. quit' \in BOOLEAN
      BY <3>1, SMT
    <3>3. cursed' \in BOOLEAN
      BY <3>1, Zenon
    <3> QED BY <1>5, <2>1, <3>1, <3>2, <3>3 DEF Flags, LoopTypes
  <2> QED BY <2>2, <2>3
<1>25. CASE UNCHANGED vars
  BY <1>2, <1>6, <1>25 DEF vars, LoopTypes
<1> QED
  BY <1>7, <1>8, <1>9, <1>11, <1>12, <1>14, <1>15, <1>16, <1>17, <1>18, <1>19, <1>20,
     <1>21, <1>22, <1>23, <1>24, <1>25 DEF Next

\* All variables keep their types, and no more loops run inside each other than the
\* bound allows.
THEOREM TypeCorrect == Spec => []TypeOK
<1>1. Init => UpdateTypes /\ LoopTypes
  <2> SUFFICES ASSUME Init PROVE UpdateTypes /\ LoopTypes
    OBVIOUS
  <2>1. config \in Settings /\ config.auto \in BOOLEAN /\ config.show \in BOOLEAN
    BY DEF Init, Settings
  <2>2. << >> \in Seq(Versions) /\ <<"peek">> \in Seq(Loops) /\ <<"main">> \in Seq(Loops)
        /\ Len(<<"peek">>) <= MaxDepth /\ Len(<<"main">>) <= MaxDepth
    BY MaxDepthAssumption DEF Loops
  <2>3. UpdateTypes
    BY <2>1, <2>2 DEF Init, UpdateTypes, Settings, States
  <2>4. LoopTypes
    BY <2>1, <2>2 DEF Init, LoopTypes
  <2> QED BY <2>3, <2>4
<1> QED BY <1>1, NextUpdateTypes, NextLoopTypes, TypesAre, PTL DEF Spec

\* What is downloaded is the newest version any server has, and an update that ends with
\* nothing to do missed none, for any number of servers and whatever they answer.
THEOREM NewestIsLoaded == Spec => []LoadsNewest
<1>1. Init => LoadsNewest
  BY DEF Init, LoadsNewest
<1>2. ASSUME TypeOK, LoadsNewest, [Next]_vars PROVE LoadsNewest'
  <2>u. ASSUME UNCHANGED <<update, offers, version>> PROVE LoadsNewest'
    BY <1>2, <2>u DEF LoadsNewest
  <2>i. ASSUME update' \in {"none", "init", "find_server"} PROVE LoadsNewest'
    BY <2>i DEF LoadsNewest
  <2>1. CASE TickInit \/ LeaveNotes \/ UpdateNow
    BY <2>1, <2>i DEF TickInit, LeaveNotes, UpdateNow, StartUpdate
  <2>2. CASE TickFindServer
    <3>1. /\ \A k \in DOMAIN offers : offers[k] <= BestServer(offers) /\ offers[k] \in Nat
          /\ BestServer(offers) \in Nat
      <4>1. offers \in Seq(Versions)
        BY <1>2 DEF TypeOK
      <4>2. \A k \in DOMAIN offers : offers[k] \in Versions
        BY <4>1, LenProperties, ElementOfSeq
      <4>3. /\ BestServer(offers) \in Versions \cup {0}
            /\ \A k \in DOMAIN offers : offers[k] <= BestServer(offers)
        BY <4>1, BestFacts
      <4>4. \A v \in Versions \cup {0} : v \in Nat
        BY VersionsAssumption
      <4> QED BY <4>2, <4>3, <4>4, Zenon
    <3>2. version' = BestServer(offers) /\ offers' = offers
      BY <2>2 DEF TickFindServer
    <3>3. CASE version' <= Build
      <4>1. update' = "update_none"
        BY <2>2, <3>3 DEF TickFindServer, LastTick
      <4>2. \A k \in DOMAIN offers : offers[k] <= Build
        BY <3>1, <3>2, <3>3, VersionsAssumption
      <4> QED BY <3>2, <4>1, <4>2 DEF LoadsNewest
    <3>4. CASE ~ (version' <= Build)
      <4>1. update' \in {"load_notes", "load_update"}
        BY <2>2, <3>4 DEF TickFindServer
      <4>2. version' > Build
        BY <3>1, <3>2, <3>4, VersionsAssumption
      <4> QED BY <3>1, <3>2, <4>1, <4>2 DEF LoadsNewest
    <3> QED BY <3>3, <3>4
  <2>3. CASE TickLoadNotes
    BY <1>2, <2>3 DEF TickLoadNotes, InTick, LoadsNewest
  <2>4. CASE TickLoadUpdate
    BY <1>2, <2>4 DEF TickLoadUpdate, InTick, LastTick, LoadsNewest
  <2>5. CASE TaskEnds \/ PeekQuit \/ LeavePeek \/ PressRestart \/ CheckBox \/ FileExit \/ CloseMain
             \/ EndMain \/ OptionsButton
    BY <2>5, <2>u DEF TaskEnds, PeekQuit, LeavePeek, PressRestart, CheckBox, FileExit, CloseMain,
       EndMain, OptionsButton, PostQuit, updateVars
  <2>6. CASE CloseUpdate \/ CloseNotes \/ CloseOptions \/ CloseAbout \/ CloseRaid \/ CloseLookUp
    BY <2>6, <2>u DEF CloseUpdate, CloseNotes, CloseOptions, CloseAbout, CloseRaid, CloseLookUp,
       CloseWindow, updateVars
  <2>7. CASE OpenOptions \/ OpenAbout \/ StartRaid \/ NoAddress \/ LookUp \/ LookUpEnds \/ LookUpQuit
    BY <2>7, <2>u DEF OpenOptions, OpenAbout, StartRaid, Open, NoAddress, LookUp, LookUpEnds,
       LookUpQuit, updateVars
  <2>8. CASE LeaveLookUp \/ LeaveMessage \/ LeaveRaid
             \/ \E dialog \in {"options", "about"} : LeaveDialog(dialog)
    BY <2>8, <2>u DEF LeaveLookUp, LeaveMessage, LeaveRaid, LeaveDialog, updateVars
  <2>9. CASE UNCHANGED vars
    BY <2>9, <2>u DEF vars, updateVars
  <2> QED
    BY <1>2, <2>1, <2>2, <2>3, <2>4, <2>5, <2>6, <2>7, <2>8, <2>9 DEF Next, Tick
<1> QED BY <1>1, <1>2, TypeCorrect, PTL DEF Spec
=============================================================================
