--------------------------- MODULE AgentFeatures ---------------------------
(***************************************************************************)
(* The handlers of an agent that change its machine: ScreenLock, InputLock *)
(* and MessageDisplay of src/agent/src/features, with the thread that runs *)
(* the commands one after the other (runAgent, CommandDispatcher) and, at  *)
(* its end, the destructors, and with the threads of the overlay window    *)
(* and of the message box.                                                 *)
(*                                                                         *)
(* Only the first thread takes the handlers' mutexes, so none is waited    *)
(* for.  External, as the code uses it: Windows.  BlockInput(TRUE) fails   *)
(* without the privilege or while input is blocked; Ctrl+Alt+Del lifts the *)
(* block.  WM_CLOSE ends the loop of the overlay, whoever sends it, and a  *)
(* message box; the user can send it, or press OK, unless input is         *)
(* blocked.  What is painted and answered is left out, and so are power    *)
(* control and screen capture, which keep nothing.                         *)
(***************************************************************************)

VARIABLES
    main,               \* where the commands' thread is
    then,               \* what MessageDisplay does after closeMessageBox
    stopping,           \* g_stopRequested was seen
    handlers,           \* not yet destroyed
    lockThread, boxThread,
    m_locked, m_lockHwnd, m_inputBlocked,   \* ScreenLock
    inputLocked,        \* InputLock::m_locked
    m_active, titled,   \* MessageDisplay; its title is not empty
    closing,            \* windows WM_CLOSE was posted to
    blocked,            \* input is blocked
    interfered          \* the user closed the overlay or lifted the block

screenVars  == <<m_locked, m_lockHwnd, m_inputBlocked>>
messageVars == <<then, m_active, titled, boxThread>>
featureHandlerVars ==
    <<main, stopping, handlers, lockThread, screenVars, inputLocked,
      messageVars, closing, blocked, interfered>>

FeaturesInit ==
    /\ main = "loop" /\ then = "return" /\ stopping = FALSE
    /\ handlers = {"screen", "input", "message"}
    /\ lockThread = "none" /\ boxThread = "none"
    /\ m_locked = FALSE /\ m_lockHwnd = FALSE /\ m_inputBlocked = FALSE
    /\ inputLocked = FALSE
    /\ m_active = FALSE /\ titled = FALSE
    /\ closing = {}
    /\ blocked = FALSE /\ interfered = {}

\* A command can be taken.
Ready == main = "loop" /\ ~stopping

----------------------------------------------------------------------------
(* Wrong versions, one slip each. *)

\* BlockInput's result is ignored.
LockWaitEndsUnchecked ==
    /\ main = "lockWait"
    /\ IF m_lockHwnd
       THEN /\ main' = "loop" /\ m_locked' = TRUE
            /\ m_inputBlocked' = TRUE /\ blocked' = TRUE
       ELSE main' = "failJoin" /\ UNCHANGED <<m_locked, m_inputBlocked, blocked>>
    /\ UNCHANGED <<m_lockHwnd, then, stopping, handlers,
                   lockThread, inputLocked, m_active, titled, boxThread,
                   closing, interfered>>

\* The handle is forgotten before the message is posted.
DestroyLockSilently ==
    /\ main' = "unlockJoin"
    /\ m_inputBlocked' = FALSE
    /\ blocked' = (blocked /\ ~m_inputBlocked)
    /\ m_lockHwnd' = FALSE
    /\ UNCHANGED <<m_locked, lockThread, inputLocked,
                   messageVars, closing, interfered>>

----------------------------------------------------------------------------
(* ScreenLock *)

\* execute("start"); it changes nothing when m_locked.
LockStart ==
    /\ Ready /\ ~m_locked
    /\ IF lockThread = "none"
       THEN lockThread' = "creating" /\ main' = "lockWait"
       ELSE UNCHANGED lockThread /\ main' = "terminated"
    /\ UNCHANGED <<m_locked, m_lockHwnd, m_inputBlocked, stopping, handlers,
                   inputLocked, messageVars, closing, blocked, interfered>>

\* m_windowReady is set, or five seconds are over, which may be at any time.
\* m_lockHwnd is then read without synchronisation: WindowCreated is before or
\* after.
LockWaitEnds ==
    /\ main = "lockWait"
    /\ IF m_lockHwnd
       THEN /\ main' = "loop" /\ m_locked' = TRUE
            /\ \E privileged \in BOOLEAN :
                  LET success == privileged /\ ~blocked
                  IN  m_inputBlocked' = success /\ blocked' = (blocked \/ success)
       ELSE main' = "failJoin" /\ UNCHANGED <<m_locked, m_inputBlocked, blocked>>
    /\ UNCHANGED <<m_lockHwnd, then, stopping, handlers,
                   lockThread, inputLocked, m_active, titled, boxThread,
                   closing, interfered>>

\* The join after a failure; then the command throws.
FailJoin ==
    /\ main = "failJoin" /\ lockThread = "ended"
    /\ main' = "loop" /\ lockThread' = "none"
    /\ UNCHANGED <<screenVars, stopping, handlers, inputLocked, messageVars,
                   closing, blocked, interfered>>

\* PostMessage to a window that is gone does nothing.
DestroyLock ==
    /\ main' = "unlockJoin"
    /\ m_inputBlocked' = FALSE
    /\ blocked' = (blocked /\ ~m_inputBlocked)
    /\ closing' = closing \cup
          (IF m_lockHwnd /\ lockThread = "shown" THEN {"overlay"} ELSE {})
    /\ m_lockHwnd' = FALSE
    /\ UNCHANGED <<m_locked, lockThread, inputLocked,
                   messageVars, interfered>>

LockStop == Ready /\ m_locked /\ DestroyLock /\ UNCHANGED <<stopping, handlers>>

UnlockJoin ==
    /\ main = "unlockJoin" /\ lockThread \in {"ended", "none"}
    /\ main' = "loop" /\ lockThread' = "none" /\ m_locked' = FALSE
    /\ UNCHANGED <<m_lockHwnd, m_inputBlocked, stopping, handlers,
                   inputLocked, messageVars, closing, blocked, interfered>>

\* lockThreadFunc up to its message loop: the window is there, or it is not.
WindowCreated ==
    /\ lockThread = "creating"
    /\ lockThread' = "shown" /\ m_lockHwnd' = TRUE
    /\ UNCHANGED <<m_locked, m_inputBlocked, main, stopping, handlers,
                   inputLocked, messageVars, closing, blocked, interfered>>

WindowFails ==
    /\ lockThread = "creating"
    /\ lockThread' = "ended"
    /\ UNCHANGED <<m_locked, m_lockHwnd, m_inputBlocked, main, stopping, handlers,
                   inputLocked, messageVars, closing, blocked, interfered>>

\* WM_CLOSE, then the end of the loop and DestroyWindow.
OverlayClosed ==
    /\ lockThread = "shown" /\ "overlay" \in closing
    /\ lockThread' = "ended" /\ closing' = closing \ {"overlay"}
    /\ UNCHANGED <<screenVars, main, stopping, handlers, inputLocked,
                   messageVars, blocked, interfered>>

----------------------------------------------------------------------------
(* InputLock *)

\* execute("start"); without success it throws.
InputStart ==
    /\ Ready /\ ~inputLocked /\ ~blocked
    /\ inputLocked' = TRUE /\ blocked' = TRUE
    /\ UNCHANGED <<main, stopping, handlers, lockThread, screenVars,
                   messageVars, closing, interfered>>

Unblock ==
    /\ inputLocked' = FALSE /\ blocked' = FALSE
    /\ UNCHANGED <<main, lockThread, screenVars, messageVars, closing, interfered>>

InputStop == Ready /\ inputLocked /\ Unblock /\ UNCHANGED <<stopping, handlers>>

----------------------------------------------------------------------------
(* MessageDisplay *)

\* The rest of execute: the box's thread is started, unless there is no text.
Show(next) ==
    /\ then' = "return"
    /\ IF next \in {"show", "showUntitled"}
       THEN /\ m_active' = TRUE /\ titled' = (next = "show")
            /\ boxThread' = "opening"
       ELSE m_active' = FALSE /\ titled' = FALSE /\ boxThread' = "none"

\* FindWindowW finds a box by its title, and only if it is open by now.
CloseMessageBox(next) ==
    /\ main' = "boxJoin" /\ then' = next
    /\ closing' = closing \cup
          (IF titled /\ boxThread = "open" THEN {"box"} ELSE {})
    /\ UNCHANGED <<lockThread, screenVars, inputLocked, m_active, titled,
                   boxThread, blocked, interfered>>

\* execute; "fail" is a start without text, "return" a stop.
DisplayCommand(next) ==
    /\ Ready
    /\ IF m_active
       THEN CloseMessageBox(next)
       ELSE /\ next \in {"show", "showUntitled"}
            /\ IF boxThread = "none"
               THEN Show(next) /\ UNCHANGED main
               ELSE main' = "terminated" /\ UNCHANGED messageVars
            /\ UNCHANGED <<lockThread, screenVars, inputLocked, closing,
                           blocked, interfered>>
    /\ UNCHANGED <<stopping, handlers>>

\* The join in closeMessageBox and what follows it.
BoxJoin ==
    /\ main = "boxJoin" /\ boxThread = "ended"
    /\ main' = "loop"
    /\ Show(then)
    /\ UNCHANGED <<stopping, handlers, lockThread, screenVars, inputLocked,
                   closing, blocked, interfered>>

\* MessageBoxW, up to its window, or without success.
BoxOpens ==
    /\ boxThread = "opening"
    /\ boxThread' \in {"open", "ended"}
    /\ UNCHANGED <<main, then, stopping, handlers, lockThread, screenVars,
                   inputLocked, m_active, titled, closing, blocked, interfered>>

BoxEnds ==
    /\ boxThread = "open" /\ boxThread' = "ended"
    /\ closing' = closing \ {"box"}
    /\ UNCHANGED <<main, then, stopping, handlers, lockThread, screenVars,
                   inputLocked, m_active, titled, blocked, interfered>>

BoxClosed == "box" \in closing /\ BoxEnds

----------------------------------------------------------------------------
(* The end of runAgent: ~CommandDispatcher, in the order of a hash table *)

StopAgent ==
    /\ Ready /\ stopping' = TRUE
    /\ UNCHANGED <<main, handlers, lockThread, screenVars, inputLocked,
                   messageVars, closing, blocked, interfered>>

\* The handler has something to undo.
Holds(h) ==
    \/ h = "screen"  /\ m_locked
    \/ h = "input"   /\ inputLocked
    \/ h = "message" /\ m_active

DestroyHandler(h) ==
    /\ main = "loop" /\ stopping /\ h \in handlers
    /\ handlers' = handlers \ {h}
    /\ IF Holds(h)
       THEN \/ h = "screen"  /\ DestroyLock
            \/ h = "input"   /\ Unblock
            \/ h = "message" /\ CloseMessageBox("return")
       ELSE UNCHANGED <<main, lockThread, screenVars, inputLocked,
                        messageVars, closing, blocked, interfered>>
    /\ UNCHANGED stopping

AgentEnds ==
    /\ main = "loop" /\ stopping /\ handlers = {}
    /\ main' = "ended"
    /\ UNCHANGED <<stopping, handlers, lockThread, screenVars, inputLocked,
                   messageVars, closing, blocked, interfered>>

----------------------------------------------------------------------------
(* The user *)

UserClosesOverlay ==
    /\ lockThread = "shown" /\ ~blocked
    /\ lockThread' = "ended" /\ closing' = closing \ {"overlay"}
    /\ interfered' = interfered \cup {"overlay"}
    /\ UNCHANGED <<screenVars, main, stopping, handlers, inputLocked,
                   messageVars, blocked>>

UserDismissesBox == ~blocked /\ BoxEnds

CtrlAltDel ==
    /\ blocked /\ blocked' = FALSE
    /\ interfered' = interfered \cup {"input"}
    /\ UNCHANGED <<main, stopping, handlers, lockThread, screenVars, inputLocked,
                   messageVars, closing>>

----------------------------------------------------------------------------

Destructors == AgentEnds \/ \E h \in handlers : DestroyHandler(h)
MainThread  == LockWaitEnds \/ FailJoin \/ UnlockJoin \/ BoxJoin \/ Destructors
LockThread  == WindowCreated \/ WindowFails \/ OverlayClosed
BoxThread   == BoxOpens \/ BoxClosed

FeaturesNext ==
    \/ LockStart \/ LockStop \/ InputStart \/ InputStop
    \/ \E next \in {"show", "showUntitled", "fail", "return"} :
          DisplayCommand(next)
    \/ StopAgent
    \/ MainThread \/ LockThread \/ BoxThread
    \/ UserClosesOverlay \/ UserDismissesBox \/ CtrlAltDel

\* The threads go on where they do not wait; nobody has to help them.
FeaturesFairness ==
    /\ WF_featureHandlerVars(MainThread)
    /\ WF_featureHandlerVars(LockThread)
    /\ WF_featureHandlerVars(BoxThread)

FeaturesSpec ==
    FeaturesInit /\ [][FeaturesNext]_featureHandlerVars /\ FeaturesFairness

----------------------------------------------------------------------------
(* Properties *)

\* The two handlers that block input share the one block of the machine: it is
\* set only while one of them knows of it, so that a stop or a destructor will
\* lift it; and unless the user lifted it, one of them at most holds it, and it
\* is set as long as that one says so.
InputFollowsFlags ==
    /\ blocked => m_inputBlocked \/ inputLocked
    /\ "input" \notin interfered =>
          /\ m_inputBlocked \/ inputLocked => blocked
          /\ ~(m_inputBlocked /\ inputLocked)

\* Between commands an overlay is shown just when ScreenLock says so, unless
\* the user closed one.
ScreenFollowsLock ==
    main = "loop" =>
       /\ lockThread = "shown" => m_locked
       /\ m_locked => lockThread = "shown" \/ "overlay" \in interfered

\* What the handlers hold of the machine is what they believe to hold, through
\* failing and late windows, commands in every order and the end of the agent:
\* no thread is replaced before it was joined, and an agent that has ended
\* leaves neither overlay nor message box nor blocked input.
LocksAreHeld ==
    /\ InputFollowsFlags
    /\ ScreenFollowsLock
    /\ main # "terminated"
    /\ main = "ended" => /\ ~blocked
                         /\ lockThread = "none" /\ boxThread = "none"

\* The window came after the five seconds, or, when a handle of such a window
\* was still there, even after the stop: nobody will close it.
LateOverlay ==
    /\ lockThread = "shown" /\ "overlay" \notin closing
    /\ main = "failJoin" \/ (main = "unlockJoin" /\ "overlay" \in interfered)

\* The box was not found by its title: only the user can close it.
BoxNotFound == main = "boxJoin" /\ boxThread = "open" /\ "box" \notin closing

\* Every command and destructor comes to an end without anybody's help, but for
\* two waits, with which the thread of the commands hangs: for an overlay that
\* was shown too late and for a message box that was not found when it was to be
\* closed.
CommandsReturn ==
    main \in {"lockWait", "failJoin", "unlockJoin", "boxJoin"}
       ~> (main \in {"loop", "ended"} \/ LateOverlay \/ BoxNotFound)
============================================================================
