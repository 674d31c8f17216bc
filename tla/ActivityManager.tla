--------------------------- MODULE ActivityManager ---------------------------
(***************************************************************************)
(* The activity stack and its one render task (src/activities/             *)
(* ActivityManager.cpp, Activity.cpp, RenderLock.h).                       *)
(*                                                                         *)
(* Two tasks share the state.  The LOOP task runs main.cpp's loop(): it    *)
(* dispatches a button action, runs ActivityManager::loop(), which calls   *)
(* the current activity, processes the pending Push / Pop / Replace and    *)
(* flushes a requested update.  The RENDER task waits for a notification,  *)
(* takes the rendering mutex and draws the current activity.  The reader's *)
(* render() drops the mutex for the waveform and, on most paths, takes it  *)
(* again; renderPassActive tells a transition that such a pass is still    *)
(* using the activity.                                                     *)
(*                                                                         *)
(* loopAt and renderAt are the two program counters.  An activity's own    *)
(* code is a context (Context) in which the task may make any of the calls *)
(* an activity may make, and at most one navigation call.                  *)
(***************************************************************************)
EXTENDS Naturals, Sequences, FiniteSets

CONSTANTS
  Activities,   \* the activity objects; an address is reused once nothing refers to it
  Readers,      \* those whose render() drops the mutex (EpubReaderActivity)
  Networked,    \* those whose usesWifi() is true
  UsbDrives,    \* those that own the raw SD card (UsbDriveActivity)
  SleepScreen,  \* the SleepActivity
  None,         \* nullptr
  Calls,        \* the calls the activities of this instance make
  MaxStack,     \* bound: the depth of stackActivities
  MaxChain      \* bound: the transitions one loop() may chain

AllCalls == {"request", "immediate", "wait", "lock", "replace", "push", "finish", "release"}

ASSUME ActivitiesAssumption ==
  /\ None \notin Activities
  /\ SleepScreen \in Activities
  /\ Readers \subseteq Activities \ {SleepScreen}
  /\ Networked \subseteq Activities
  /\ UsbDrives \subseteq Activities \ {SleepScreen}
  /\ Calls \subseteq AllCalls
  /\ MaxStack \in Nat
  /\ MaxChain \in Nat

VARIABLES
  currentActivity,    \* the activity on screen, or None
  stackActivities,    \* the buried ones, bottom first
  pendingActivity,    \* to be launched by the next transition
  pendingAction,      \* "None", "Push", "Pop" or "Replace"
  resultHandler,      \* activity -> the child whose result its handler expects
  entered,            \* the current activity's onEnter() has begun
  buriedStateReleased,\* activities that dropped their rows for a download
  activityUsesWifi,   \* the flag other tasks read
  drainInput,         \* discard input until every button is up
  sleepTransition,    \* inside goToSleep()
  requestedUpdate,    \* an update to flush at the end of loop()
  renderNotified,     \* the render task's notification value is not zero
  waitingTask,        \* the loop task is registered as waitingTaskHandle
  loopNotified,       \* the loop task's notification value is not zero
  mutex,              \* the holder of renderingMutex: "free", "loop" or "render"
  renderPassActive,
  passOn,             \* the activity the render task's call is running on, or None
  loopAt, renderAt,   \* where the two tasks are
  resumeAt,           \* the context a nested call of the loop task returns to
  navigated,          \* the running context has made its navigation call
  chain,              \* transitions made in this loop()
  press,              \* the activity a button now down, or just released, was pressed on
  owed                \* an update was requested and no pass has started since

stackVars == <<currentActivity, stackActivities, resultHandler, entered,
               buriedStateReleased, activityUsesWifi>>
pendVars  == <<pendingActivity, pendingAction>>
waitVars  == <<waitingTask, loopNotified>>
passVars  == <<renderPassActive, passOn>>
inputVars == <<drainInput, press>>
updVars   == <<requestedUpdate, renderNotified, owed>>
ctxVars   == <<resumeAt, navigated, chain>>
vars == <<stackVars, pendVars, waitVars, passVars, inputVars, updVars, ctxVars,
          sleepTransition, mutex, loopAt, renderAt>>

Contexts == {"boot", "main", "loop", "usb", "enter", "enterRoot", "handler"}
LoopPoints == Contexts \cup
  {"setup", "entering", "top", "busy", "busyPaint", "process", "exclusiveTest", "transition",
   "orphan", "flush", "notify", "locked", "waitNotify", "blocked", "asleep"}
RenderPoints == {"idle", "want", "draw", "waveform", "lastWaveform", "tail", "clear", "wake"}
Actions == {"None", "Push", "Pop", "Replace"}

Buried == {stackActivities[i] : i \in DOMAIN stackActivities}
OnStack == Buried \cup ({currentActivity} \ {None})

\* Objects something still refers to; any other address may be allocated.
Referenced == OnStack \cup ({pendingActivity, passOn, press} \ {None})
Fresh == (Activities \ Referenced) \ {SleepScreen}

UsesWifi(cur, buried) == cur \in Networked \/ \E a \in buried : a \in Networked
RequiresExclusiveStorage == currentActivity \in UsbDrives

----------------------------------------------------------------------------
Init ==
  /\ currentActivity = None /\ stackActivities = <<>>
  /\ pendingActivity = None /\ pendingAction = "None"
  /\ resultHandler = [a \in Activities |-> None]
  /\ entered = FALSE
  /\ buriedStateReleased = {}
  /\ activityUsesWifi = FALSE
  /\ drainInput = FALSE
  /\ sleepTransition = FALSE
  /\ requestedUpdate = FALSE
  /\ renderNotified = FALSE
  /\ waitingTask = FALSE /\ loopNotified = FALSE
  /\ mutex = "free"
  /\ renderPassActive = FALSE /\ passOn = None
  /\ loopAt = "setup" /\ renderAt = "idle"
  /\ resumeAt = "main" /\ navigated = FALSE /\ chain = 0
  /\ press = None
  /\ owed = FALSE

\* A reboot: the RAM starts again, whatever both tasks were doing.
Restart ==
  /\ currentActivity' = None /\ stackActivities' = <<>>
  /\ pendingActivity' = None /\ pendingAction' = "None"
  /\ resultHandler' = [a \in Activities |-> None]
  /\ entered' = FALSE
  /\ buriedStateReleased' = {}
  /\ activityUsesWifi' = FALSE
  /\ drainInput' = FALSE
  /\ sleepTransition' = FALSE
  /\ requestedUpdate' = FALSE
  /\ renderNotified' = FALSE
  /\ waitingTask' = FALSE /\ loopNotified' = FALSE
  /\ mutex' = "free"
  /\ renderPassActive' = FALSE /\ passOn' = None
  /\ loopAt' = "setup" /\ renderAt' = "idle"
  /\ resumeAt' = "main" /\ navigated' = FALSE /\ chain' = 0
  /\ press' = None
  /\ owed' = FALSE

----------------------------------------------------------------------------
(* Calls an activity makes, on the loop task, from any of its callbacks. *)

\* main.cpp's dispatch may request an update or replace the screen; the other button
\* actions reach the reader alone.  It is not reached while a USB host owns the card.
DispatchMakes(c) ==
  ~RequiresExclusiveStorage /\ (c \in {"request", "replace"} \/ currentActivity \in Readers)
MayCall(c) ==
  /\ c \in Calls
  /\ loopAt \in Contexts
  /\ loopAt = "main" => DispatchMakes(c)
\* A navigation call: one per context, never by the sleep screen or USB Drive,
\* and not past the bound on the transitions of one loop().
MayNavigate(c) ==
  /\ MayCall(c)
  /\ ~navigated
  /\ currentActivity # SleepScreen
  /\ ~RequiresExclusiveStorage
  /\ loopAt \in {"enter", "enterRoot", "handler"} => chain < MaxChain

\* requestUpdate(): deferred to the end of loop().
RequestUpdate ==
  /\ MayCall("request")
  /\ requestedUpdate' = TRUE /\ owed' = TRUE
  /\ UNCHANGED <<stackVars, pendVars, waitVars, passVars, inputVars, renderNotified,
                 ctxVars, sleepTransition, mutex, loopAt, renderAt>>

\* requestUpdate(true): notifies at once.
RequestUpdateImmediate ==
  /\ MayCall("immediate")
  /\ renderNotified' = TRUE /\ owed' = TRUE
  /\ UNCHANGED <<stackVars, pendVars, waitVars, passVars, inputVars, requestedUpdate,
                 ctxVars, sleepTransition, mutex, loopAt, renderAt>>

\* requestUpdateAndWait(): register under the critical section ...
RegisterWaiter ==
  /\ MayCall("wait")
  /\ ~waitingTask /\ mutex # "loop"       \* the asserts
  /\ waitingTask' = TRUE /\ owed' = TRUE
  /\ loopAt' = "waitNotify" /\ resumeAt' = loopAt
  /\ UNCHANGED <<stackVars, pendVars, loopNotified, passVars, inputVars, requestedUpdate,
                 renderNotified, navigated, chain, sleepTransition, mutex, renderAt>>

\* ... then notify the render task ...
NotifyRenderAndWait ==
  /\ loopAt = "waitNotify"
  /\ renderNotified' = TRUE
  /\ loopAt' = "blocked"
  /\ UNCHANGED <<stackVars, pendVars, waitVars, passVars, inputVars, requestedUpdate, owed,
                 ctxVars, sleepTransition, mutex, renderAt>>

\* ... and block in ulTaskNotifyTake() until the render task wakes the waiter.
WaiterReturns ==
  /\ loopAt = "blocked" /\ loopNotified
  /\ loopNotified' = FALSE
  /\ loopAt' = resumeAt
  /\ UNCHANGED <<stackVars, pendVars, waitingTask, passVars, inputVars, updVars,
                 ctxVars, sleepTransition, mutex, renderAt>>

\* Mutant: the state is changed after a failed Try.
LockStateByTry ==
  /\ MayCall("lock")
  /\ mutex' = IF mutex = "free" THEN "loop" ELSE mutex
  /\ loopAt' = "locked" /\ resumeAt' = loopAt
  /\ UNCHANGED <<stackVars, pendVars, waitVars, passVars, inputVars, updVars,
                 navigated, chain, sleepTransition, renderAt>>

\* A plain RenderLock around a state change of the activity.
LockState ==
  /\ MayCall("lock")
  /\ mutex = "free"
  /\ mutex' = "loop"
  /\ loopAt' = "locked" /\ resumeAt' = loopAt
  /\ UNCHANGED <<stackVars, pendVars, waitVars, passVars, inputVars, updVars,
                 navigated, chain, sleepTransition, renderAt>>

UnlockState ==
  /\ loopAt = "locked"
  /\ mutex' = "free"
  /\ loopAt' = resumeAt
  /\ UNCHANGED <<stackVars, pendVars, waitVars, passVars, inputVars, updVars,
                 ctxVars, sleepTransition, renderAt>>

\* replaceActivity() with an activity on screen, and every goTo*() on top of it.
ReplaceActivity(a) ==
  /\ MayNavigate("replace") /\ currentActivity # None
  /\ pendingActivity' = a /\ pendingAction' = "Replace"
  /\ navigated' = TRUE
  /\ UNCHANGED <<stackVars, waitVars, passVars, inputVars, updVars, resumeAt, chain,
                 sleepTransition, mutex, loopAt, renderAt>>

\* startActivityForResult(), which stores the handler and calls pushActivity().
\* An activity already pending is dropped.
StartActivityForResult(a) ==
  /\ MayNavigate("push") /\ currentActivity # None
  /\ Len(stackActivities) < MaxStack
  /\ resultHandler' = [resultHandler EXCEPT ![currentActivity] = a]
  /\ pendingActivity' = a /\ pendingAction' = "Push"
  /\ navigated' = TRUE
  /\ UNCHANGED <<currentActivity, stackActivities, entered, buriedStateReleased,
                 activityUsesWifi, waitVars, passVars, inputVars, updVars, resumeAt, chain,
                 sleepTransition, mutex, loopAt, renderAt>>

\* finish(), which calls popActivity().  An activity already pending is dropped.
Finish ==
  /\ MayNavigate("finish") /\ currentActivity # None
  /\ pendingActivity' = None /\ pendingAction' = "Pop"
  /\ navigated' = TRUE
  /\ UNCHANGED <<stackVars, waitVars, passVars, inputVars, updVars, resumeAt, chain,
                 sleepTransition, mutex, loopAt, renderAt>>

\* releaseBuriedActivityState(): every buried activity may drop what it drew.
ReleaseBuriedActivityState ==
  /\ MayCall("release") /\ stackActivities # <<>>
  /\ \E dropped \in SUBSET Buried : buriedStateReleased' = buriedStateReleased \cup dropped
  /\ UNCHANGED <<currentActivity, stackActivities, resultHandler, entered, activityUsesWifi,
                 pendVars, waitVars, passVars, inputVars, updVars, ctxVars,
                 sleepTransition, mutex, loopAt, renderAt>>

ActivityCall ==
  \/ RequestUpdate \/ RequestUpdateImmediate
  \/ RegisterWaiter
  \/ LockState
  \/ \E a \in Fresh : ReplaceActivity(a) \/ StartActivityForResult(a)
  \/ Finish
  \/ ReleaseBuriedActivityState

----------------------------------------------------------------------------
(* The loop task: main.cpp's loop() around ActivityManager::loop(). *)

\* replaceActivity() with no activity on screen launches at once, without the lock;
\* its onEnter() runs in the given context.
LaunchAtOnce(a, context) ==
  /\ currentActivity' = a /\ entered' = FALSE
  /\ activityUsesWifi' = UsesWifi(a, Buried)
  /\ loopAt' = "entering" /\ resumeAt' = context
  /\ UNCHANGED <<stackActivities, resultHandler, buriedStateReleased, pendVars, waitVars,
                 passVars, inputVars, updVars, navigated, chain, sleepTransition, mutex,
                 renderAt>>

\* currentActivity->onEnter() is called, with the lock released.
OnEnter ==
  /\ loopAt = "entering"
  /\ entered' = TRUE
  /\ loopAt' = resumeAt /\ navigated' = FALSE
  /\ UNCHANGED <<currentActivity, stackActivities, resultHandler, buriedStateReleased,
                 activityUsesWifi, pendVars, waitVars, passVars, inputVars, updVars, resumeAt,
                 chain, sleepTransition, mutex, renderAt>>

\* setup() opens the first screen.
Setup == loopAt = "setup" /\ \E a \in Fresh : LaunchAtOnce(a, "boot")
\* returnFromChild() after the last activity has gone.
ReturnFromChild == loopAt = "orphan" /\ \E a \in Fresh : LaunchAtOnce(a, "enterRoot")

\* mappedInput.update(): a button goes down on the screen on show.
PressButton ==
  /\ loopAt = "main" /\ press = None /\ currentActivity # None
  /\ press' = currentActivity
  /\ UNCHANGED <<stackVars, pendVars, waitVars, passVars, drainInput, updVars, ctxVars,
                 sleepTransition, mutex, loopAt, renderAt>>

\* The tick that saw the release edge is over.
ReleaseButton ==
  /\ loopAt = "main" /\ press # None
  /\ press' = None
  /\ UNCHANGED <<stackVars, pendVars, waitVars, passVars, drainInput, updVars, ctxVars,
                 sleepTransition, mutex, loopAt, renderAt>>

\* main.cpp reaches activityManager.loop(), its button dispatch done.
EnterManagerLoop ==
  /\ loopAt = "main"
  /\ loopAt' = "top" /\ navigated' = FALSE /\ chain' = 0
  /\ UNCHANGED <<stackVars, pendVars, waitVars, passVars, inputVars, updVars, resumeAt,
                 sleepTransition, mutex, renderAt>>

\* enterDeepSleep() -> goToSleep(): the sleep screen replaces whatever is up, and
\* loop() is run once, nested.
GoToSleep ==
  /\ loopAt = "main" /\ currentActivity # None /\ ~RequiresExclusiveStorage
  /\ pendingActivity' = SleepScreen /\ pendingAction' = "Replace"
  /\ sleepTransition' = TRUE
  /\ loopAt' = "top" /\ navigated' = FALSE /\ chain' = 0
  /\ UNCHANGED <<stackVars, waitVars, passVars, inputVars, updVars, resumeAt, mutex, renderAt>>

\* The head of loop(): exclusive storage, the input drain, and the call of
\* currentActivity->loop() when nothing is being drained.
StillDraining == drainInput /\ press # None
LoopTop ==
  /\ loopAt = "top"
  /\ IF RequiresExclusiveStorage
     THEN loopAt' = "usb" /\ UNCHANGED drainInput
     ELSE /\ drainInput' = StillDraining
          /\ loopAt' = IF ~StillDraining /\ currentActivity # None THEN "loop" ELSE "busy"
  /\ navigated' = FALSE
  /\ UNCHANGED <<stackVars, pendVars, waitVars, passVars, press, updVars, resumeAt, chain,
                 sleepTransition, mutex, renderAt>>

\* The clock's minute tick asks for a repaint.
MinuteTick ==
  /\ loopAt = "busy" /\ "request" \in Calls
  /\ requestedUpdate' = TRUE /\ owed' = TRUE
  /\ UNCHANGED <<stackVars, pendVars, waitVars, passVars, inputVars, renderNotified, ctxVars,
                 sleepTransition, mutex, loopAt, renderAt>>

\* showBusyIndicator() paints under a plain RenderLock, or decides not to.
PaintBusyIndicator ==
  /\ loopAt = "busy" /\ pendingAction # "None" /\ currentActivity # None
  /\ mutex = "free"
  /\ mutex' = "loop" /\ loopAt' = "busyPaint"
  /\ UNCHANGED <<stackVars, pendVars, waitVars, passVars, inputVars, updVars, ctxVars,
                 sleepTransition, renderAt>>

BusyIndicatorDone ==
  /\ loopAt = "busyPaint"
  /\ mutex' = "free" /\ loopAt' = "process"
  /\ UNCHANGED <<stackVars, pendVars, waitVars, passVars, inputVars, updVars, ctxVars,
                 sleepTransition, renderAt>>

SkipBusyIndicator ==
  /\ loopAt = "busy"
  /\ loopAt' = "process"
  /\ UNCHANGED <<stackVars, pendVars, waitVars, passVars, inputVars, updVars, ctxVars,
                 sleepTransition, mutex, renderAt>>

\* while (pendingAction != None): RenderLock(ExclusiveActivityAccess) takes the mutex ...
TakeExclusive ==
  /\ loopAt = "process" /\ pendingAction # "None"
  /\ pendingAction # "Pop" => pendingActivity # None
  /\ mutex = "free"
  /\ mutex' = "loop" /\ loopAt' = "exclusiveTest"
  /\ UNCHANGED <<stackVars, pendVars, waitVars, passVars, inputVars, updVars, ctxVars,
                 sleepTransition, renderAt>>

\* Mutant: a transition under a plain RenderLock.
KeepExclusiveOnMutexAlone ==
  /\ loopAt = "exclusiveTest"
  /\ loopAt' = "transition"
  /\ UNCHANGED <<stackVars, pendVars, waitVars, passVars, inputVars, updVars, ctxVars,
                 sleepTransition, mutex, renderAt>>

\* ... keeps it if no pass is in flight ...
KeepExclusive ==
  /\ loopAt = "exclusiveTest" /\ ~renderPassActive
  /\ loopAt' = "transition"
  /\ UNCHANGED <<stackVars, pendVars, waitVars, passVars, inputVars, updVars, ctxVars,
                 sleepTransition, mutex, renderAt>>

\* Mutant: the retry spins with the mutex held.
RetryExclusiveHolding ==
  /\ loopAt = "exclusiveTest" /\ renderPassActive
  /\ UNCHANGED vars

\* ... and otherwise hands it back and tries again a tick later.
RetryExclusive ==
  /\ loopAt = "exclusiveTest" /\ renderPassActive
  /\ mutex' = "free" /\ loopAt' = "process"
  /\ UNCHANGED <<stackVars, pendVars, waitVars, passVars, inputVars, updVars, ctxVars,
                 sleepTransition, renderAt>>

\* Pop of the last activity: destroy it; returnFromChild() follows, unlocked.  (The branch
\* that ignores a Pop with nothing on screen is never taken: see PendingHasActivity.)
PopLast ==
  /\ loopAt = "transition" /\ pendingAction = "Pop" /\ currentActivity # None
  /\ stackActivities = <<>>
  /\ currentActivity' = None /\ entered' = FALSE
  /\ resultHandler' = [resultHandler EXCEPT ![currentActivity] = None]
  /\ buriedStateReleased' = buriedStateReleased \ {currentActivity}
  /\ activityUsesWifi' = FALSE
  /\ pendingAction' = "None"
  /\ mutex' = "free" /\ loopAt' = "orphan" /\ chain' = chain + 1
  /\ UNCHANGED <<stackActivities, pendingActivity, waitVars, passVars, inputVars, updVars,
                 resumeAt, navigated, sleepTransition, renderAt>>

Parent == stackActivities[Len(stackActivities)]
BelowParent == SubSeq(stackActivities, 1, Len(stackActivities) - 1)
ParentGone == stackActivities # <<>> /\ Parent \in buriedStateReleased

\* Pop to a parent that dropped its state for a download: reboot to Settings.
PopToReleasedParent ==
  /\ loopAt = "transition" /\ pendingAction = "Pop" /\ currentActivity # None
  /\ ParentGone
  /\ Restart

\* Pop: destroy the child, the parent is current again, its handler is moved out
\* and called with the lock released.
PopToParent ==
  /\ loopAt = "transition" /\ pendingAction = "Pop" /\ currentActivity # None
  /\ stackActivities # <<>> /\ ~ParentGone
  /\ currentActivity' = Parent /\ stackActivities' = BelowParent
  /\ resultHandler' = [resultHandler EXCEPT ![Parent] = None, ![currentActivity] = None]
  /\ buriedStateReleased' = buriedStateReleased \ {currentActivity}
  /\ activityUsesWifi' = UsesWifi(Parent, {BelowParent[i] : i \in DOMAIN BelowParent})
  /\ pendingAction' = "None"
  /\ mutex' = "free" /\ loopAt' = "handler" /\ chain' = chain + 1 /\ navigated' = FALSE
  /\ UNCHANGED <<entered, pendingActivity, waitVars, passVars, inputVars, updVars, resumeAt,
                 sleepTransition, renderAt>>

\* Mutant: Push moves pendingActivity out before it buries the current activity, and buries
\* the moved-from pointer.
PushMovedFrom ==
  /\ loopAt = "transition" /\ pendingAction = "Push"
  /\ stackActivities' = Append(stackActivities, None)
  /\ currentActivity' = pendingActivity /\ entered' = FALSE
  /\ activityUsesWifi' = UsesWifi(pendingActivity, OnStack)
  /\ pendingActivity' = None /\ pendingAction' = "None"
  /\ mutex' = "free" /\ chain' = chain + 1
  /\ loopAt' = "entering" /\ resumeAt' = "enter"
  /\ UNCHANGED <<resultHandler, buriedStateReleased, waitVars, passVars, inputVars, updVars,
                 navigated, sleepTransition, renderAt>>

\* Push: the current activity goes onto the stack, the pending one is current.
Push ==
  /\ loopAt = "transition" /\ pendingAction = "Push"
  /\ stackActivities' = Append(stackActivities, currentActivity)
  /\ currentActivity' = pendingActivity /\ entered' = FALSE
  /\ activityUsesWifi' = UsesWifi(pendingActivity, OnStack)
  /\ pendingActivity' = None /\ pendingAction' = "None"
  /\ mutex' = "free" /\ chain' = chain + 1
  /\ loopAt' = "entering" /\ resumeAt' = "enter"
  /\ UNCHANGED <<resultHandler, buriedStateReleased, waitVars, passVars, inputVars, updVars,
                 navigated, sleepTransition, renderAt>>

\* Mutant: the buried activities survive a Replace.
ReplaceTopOnly ==
  /\ loopAt = "transition" /\ pendingAction = "Replace"
  /\ currentActivity' = pendingActivity /\ entered' = FALSE
  /\ resultHandler' = [resultHandler EXCEPT ![currentActivity] = None]
  /\ buriedStateReleased' = buriedStateReleased \ {currentActivity}
  /\ activityUsesWifi' = UsesWifi(pendingActivity, Buried)
  /\ pendingActivity' = None /\ pendingAction' = "None"
  /\ mutex' = "free" /\ chain' = chain + 1
  /\ loopAt' = "entering" /\ resumeAt' = "enter"
  /\ UNCHANGED <<stackActivities, waitVars, passVars, inputVars, updVars, navigated,
                 sleepTransition, renderAt>>

\* Replace: the current activity and the whole stack are destroyed.
Replace ==
  /\ loopAt = "transition" /\ pendingAction = "Replace"
  /\ stackActivities' = <<>>
  /\ currentActivity' = pendingActivity /\ entered' = FALSE
  /\ resultHandler' = [a \in Activities |-> None]
  /\ buriedStateReleased' = {}
  /\ activityUsesWifi' = UsesWifi(pendingActivity, {})
  /\ pendingActivity' = None /\ pendingAction' = "None"
  /\ mutex' = "free" /\ chain' = chain + 1
  /\ loopAt' = "entering" /\ resumeAt' = "enter"
  /\ UNCHANGED <<waitVars, passVars, inputVars, updVars, navigated, sleepTransition, renderAt>>

\* The callback returns.  onEnter() and a result handler are followed by the input
\* drain; a handler that queued no transition by a repaint of the parent.  The
\* launch after the last Pop arms no drain.
AfterContext(context) ==
  CASE context = "boot" -> "main"
    [] context = "usb"  -> "flush"
    [] context = "loop" -> "busy"
    [] OTHER            -> "process"
\* Mutant: the handler is cleared after its call, not moved out before it.
CallbackClearsHandler ==
  /\ loopAt \in Contexts \ {"main"}
  /\ loopAt' = AfterContext(loopAt)
  /\ drainInput' = (drainInput \/ loopAt \in {"enter", "handler"})
  /\ resultHandler' =
       [resultHandler EXCEPT ![currentActivity] = IF loopAt = "handler" THEN None ELSE @]
  /\ IF loopAt = "handler" /\ pendingAction = "None"
     THEN requestedUpdate' = TRUE /\ owed' = TRUE
     ELSE UNCHANGED <<requestedUpdate, owed>>
  /\ navigated' = FALSE
  /\ UNCHANGED <<currentActivity, stackActivities, entered, buriedStateReleased,
                 activityUsesWifi, pendVars, waitVars, passVars, press, renderNotified,
                 resumeAt, chain, sleepTransition, mutex, renderAt>>
CallbackReturns ==
  /\ loopAt \in Contexts \ {"main"}
  /\ loopAt' = AfterContext(loopAt)
  /\ drainInput' = (drainInput \/ loopAt \in {"enter", "handler"})
  /\ IF loopAt = "handler" /\ pendingAction = "None"
     THEN requestedUpdate' = TRUE /\ owed' = TRUE
     ELSE UNCHANGED <<requestedUpdate, owed>>
  /\ navigated' = FALSE
  /\ UNCHANGED <<stackVars, pendVars, waitVars, passVars, press, renderNotified, resumeAt,
                 chain, sleepTransition, mutex, renderAt>>

NothingPending ==
  /\ loopAt = "process" /\ pendingAction = "None"
  /\ loopAt' = "flush"
  /\ UNCHANGED <<stackVars, pendVars, waitVars, passVars, inputVars, updVars, ctxVars,
                 sleepTransition, mutex, renderAt>>

AfterLoop == IF sleepTransition THEN "asleep" ELSE "main"

\* The end of loop(): the flag is cleared first, the notification sent after it.
ClearRequested ==
  /\ loopAt = "flush" /\ requestedUpdate
  /\ requestedUpdate' = FALSE
  /\ loopAt' = "notify"
  /\ UNCHANGED <<stackVars, pendVars, waitVars, passVars, inputVars, renderNotified, owed,
                 ctxVars, sleepTransition, mutex, renderAt>>

NotifyRender ==
  /\ loopAt = "notify"
  /\ renderNotified' = TRUE
  /\ loopAt' = AfterLoop
  /\ UNCHANGED <<stackVars, pendVars, waitVars, passVars, inputVars, requestedUpdate, owed,
                 ctxVars, sleepTransition, mutex, renderAt>>

NothingRequested ==
  /\ loopAt = "flush" /\ ~requestedUpdate
  /\ loopAt' = AfterLoop
  /\ UNCHANGED <<stackVars, pendVars, waitVars, passVars, inputVars, updVars, ctxVars,
                 sleepTransition, mutex, renderAt>>

\* The wake after deep sleep is a reset.
Wake == loopAt = "asleep" /\ Restart

\* USB Drive leaves by a reboot, whatever the host did to the card.
RestartToHome == loopAt = "usb" /\ Restart

----------------------------------------------------------------------------
(* The render task: renderTaskLoop(). *)

\* ulTaskNotifyTake(pdTRUE) zeroes the value and returns.
TakeNotification ==
  /\ renderAt = "idle" /\ renderNotified
  /\ renderNotified' = FALSE
  /\ renderAt' = "want"
  /\ UNCHANGED <<stackVars, pendVars, waitVars, passVars, inputVars, requestedUpdate, owed,
                 ctxVars, sleepTransition, mutex, loopAt>>

\* RenderLock taken, an activity on screen: the pass starts.
StartPass ==
  /\ renderAt = "want" /\ mutex = "free" /\ currentActivity # None
  /\ mutex' = "render"
  /\ renderPassActive' = TRUE /\ passOn' = currentActivity
  /\ owed' = FALSE
  /\ renderAt' = "draw"
  /\ UNCHANGED <<stackVars, pendVars, waitVars, inputVars, requestedUpdate, renderNotified,
                 ctxVars, sleepTransition, loopAt>>

\* RenderLock taken, nothing to draw: the lock is kept until the waiter is woken.
NothingToDraw ==
  /\ renderAt = "want" /\ mutex = "free" /\ currentActivity = None
  /\ mutex' = "render"
  /\ owed' = FALSE
  /\ renderAt' = "wake"
  /\ UNCHANGED <<stackVars, pendVars, waitVars, passVars, inputVars, requestedUpdate,
                 renderNotified, ctxVars, sleepTransition, loopAt>>

\* render() asks for another pass (the reader's pre-render, a re-dispatch).
RequestFromRender ==
  /\ renderAt \in {"draw", "tail"} /\ passOn \in Readers
  /\ requestedUpdate' = TRUE /\ owed' = TRUE
  /\ UNCHANGED <<stackVars, pendVars, waitVars, passVars, inputVars, renderNotified, ctxVars,
                 sleepTransition, mutex, loopAt, renderAt>>

\* render() returns with the lock still held; so it does in the reader's short passes.
RenderReturns ==
  /\ renderAt = "draw"
  /\ renderAt' = "clear"
  /\ UNCHANGED <<stackVars, pendVars, waitVars, passVars, inputVars, updVars, ctxVars,
                 sleepTransition, mutex, loopAt>>

\* The reader drops the lock before the waveform wait, on a page (renderContents) or
\* on a page of a chapter still being built (displayBuildPage).
UnlockForWaveform ==
  /\ renderAt = "draw" /\ passOn \in Readers
  /\ mutex' = "free"
  /\ renderAt' \in {"waveform", "lastWaveform"}
  /\ UNCHANGED <<stackVars, pendVars, waitVars, passVars, inputVars, updVars, ctxVars,
                 sleepTransition, loopAt>>

\* renderNormalPass() takes it again for what follows the waveform ...
Relock ==
  /\ renderAt = "waveform" /\ mutex = "free"
  /\ mutex' = "render"
  /\ renderAt' = "tail"
  /\ UNCHANGED <<stackVars, pendVars, waitVars, passVars, inputVars, updVars, ctxVars,
                 sleepTransition, loopAt>>

\* ... and gives it back at the end of that scope, before render() returns.
TailDone ==
  /\ renderAt = "tail"
  /\ mutex' = "free"
  /\ renderAt' = "clear"
  /\ UNCHANGED <<stackVars, pendVars, waitVars, passVars, inputVars, updVars, ctxVars,
                 sleepTransition, loopAt>>

\* displayBuildPage() returns after the waveform without taking it again.
WaveformOnly ==
  /\ renderAt = "lastWaveform"
  /\ renderAt' = "clear"
  /\ UNCHANGED <<stackVars, pendVars, waitVars, passVars, inputVars, updVars, ctxVars,
                 sleepTransition, mutex, loopAt>>

\* renderPassActive is cleared after render() has returned.
ClearPassActive ==
  /\ renderAt = "clear"
  /\ renderPassActive' = FALSE /\ passOn' = None
  /\ renderAt' = "wake"
  /\ UNCHANGED <<stackVars, pendVars, waitVars, inputVars, updVars, ctxVars,
                 sleepTransition, mutex, loopAt>>

\* Mutant: the pass that ends takes the notifications that arrived during it as served.
WakeWaiterServesAll ==
  /\ renderAt = "wake"
  /\ waitingTask' = FALSE
  /\ loopNotified' = (loopNotified \/ waitingTask)
  /\ mutex' = IF mutex = "render" THEN "free" ELSE mutex
  /\ renderNotified' = FALSE
  /\ renderAt' = "idle"
  /\ UNCHANGED <<stackVars, pendVars, passVars, inputVars, requestedUpdate, owed, ctxVars,
                 sleepTransition, loopAt>>
\* Mutant: a pass is drawn for the waiter before it is woken, again after every pass.
WakeWaiterRedrawsFirst ==
  /\ renderAt = "wake"
  /\ renderNotified' = (renderNotified \/ waitingTask)
  /\ mutex' = IF mutex = "render" THEN "free" ELSE mutex
  /\ renderAt' = "idle"
  /\ UNCHANGED <<stackVars, pendVars, waitVars, passVars, inputVars, requestedUpdate, owed,
                 ctxVars, sleepTransition, loopAt>>

\* The waiter, if any, is woken, and the loop body's lock released if still held.
WakeWaiter ==
  /\ renderAt = "wake"
  /\ waitingTask' = FALSE
  /\ loopNotified' = (loopNotified \/ waitingTask)
  /\ mutex' = IF mutex = "render" THEN "free" ELSE mutex
  /\ renderAt' = "idle"
  /\ UNCHANGED <<stackVars, pendVars, passVars, inputVars, updVars, ctxVars,
                 sleepTransition, loopAt>>

----------------------------------------------------------------------------
ManagerStep ==
  \/ OnEnter \/ LoopTop \/ SkipBusyIndicator \/ BusyIndicatorDone
  \/ KeepExclusive \/ RetryExclusive
  \/ PopLast \/ PopToReleasedParent \/ PopToParent \/ Push \/ Replace
  \/ Setup \/ ReturnFromChild
  \/ NothingPending \/ ClearRequested \/ NotifyRender \/ NothingRequested
  \/ NotifyRenderAndWait \/ WaiterReturns \/ UnlockState
LoopTask ==
  \/ ManagerStep \/ EnterManagerLoop \/ CallbackReturns \/ TakeExclusive \/ PaintBusyIndicator
  \/ MinuteTick \/ ActivityCall \/ GoToSleep

RenderStep ==
  \/ TakeNotification \/ RenderReturns \/ TailDone \/ WaveformOnly
  \/ ClearPassActive \/ WakeWaiter
RenderTask ==
  \/ RenderStep \/ StartPass \/ NothingToDraw \/ Relock
  \/ UnlockForWaveform \/ RequestFromRender

Environment == PressButton \/ ReleaseButton \/ Wake \/ RestartToHome

Next == LoopTask \/ RenderTask \/ Environment

Spec == Init /\ [][Next]_vars

\* Both tasks are scheduled; a callback returns however many calls it made first; a mutex
\* that is free again and again is obtained (FreeRTOS queues its waiters).
Fairness ==
  /\ WF_vars(ManagerStep)
  /\ SF_vars(EnterManagerLoop \/ CallbackReturns)
  /\ SF_vars(TakeExclusive)
  /\ WF_vars(RenderStep)
  /\ SF_vars(StartPass \/ NothingToDraw)
  /\ SF_vars(Relock)
FairSpec == Spec /\ Fairness

----------------------------------------------------------------------------
\* The state has the types of the members it models.
ScreenTypes ==
  /\ currentActivity \in Activities \cup {None}
  /\ stackActivities \in Seq(Activities)
  /\ resultHandler \in [Activities -> Activities \cup {None}]
  /\ entered \in BOOLEAN
  /\ buriedStateReleased \in SUBSET Activities
  /\ activityUsesWifi \in BOOLEAN
  /\ pendingActivity \in Activities \cup {None}
  /\ pendingAction \in Actions
SignalTypes ==
  /\ waitingTask \in BOOLEAN /\ loopNotified \in BOOLEAN
  /\ drainInput \in BOOLEAN /\ press \in Activities \cup {None}
  /\ requestedUpdate \in BOOLEAN /\ renderNotified \in BOOLEAN /\ owed \in BOOLEAN
TaskTypes ==
  /\ mutex \in {"free", "loop", "render"}
  /\ renderPassActive \in BOOLEAN /\ passOn \in Activities \cup {None}
  /\ loopAt \in LoopPoints /\ renderAt \in RenderPoints
  /\ resumeAt \in Contexts /\ navigated \in BOOLEAN /\ chain \in Nat
  /\ sleepTransition \in BOOLEAN
TypeOK == ScreenTypes /\ SignalTypes /\ TaskTypes

\* No use after free: while the render task is inside an activity's render(), through the
\* window in which the reader has dropped the mutex too, that activity is alive and on top.
NoUseAfterFree == passOn # None => passOn = currentActivity

\* What the loop task changes under its lock is never being drawn at the same time.
NoTornFrame ==
  loopAt \in {"locked", "busyPaint", "transition"} => renderAt \notin {"draw", "tail"}

\* The while loop over pendingAction always finds what it needs: a Push or a Replace has an
\* activity to launch, nothing else keeps one, and a transition finds an activity on screen,
\* so the loop cannot spin without progress.
PendingHasActivity ==
  /\ (pendingAction \in {"Push", "Replace"}) <=> (pendingActivity # None)
  /\ loopAt = "transition" => pendingAction # "None" /\ currentActivity # None

\* Every buried activity waits for the result of exactly the activity above it.
Above(i) == IF i = Len(stackActivities) THEN currentActivity ELSE stackActivities[i + 1]
HandlerAwaitsChild ==
  loopAt # "orphan" =>
    \A i \in DOMAIN stackActivities : resultHandler[stackActivities[i]] = Above(i)

\* No object is owned twice: on the stack, on screen and pending are all different.
OwnedOnce ==
  /\ \A i, j \in DOMAIN stackActivities :
       i # j => stackActivities[i] # stackActivities[j]
  /\ currentActivity # None => currentActivity \notin Buried
  /\ pendingActivity # None => pendingActivity \notin OnStack

\* An activity that dropped its rows for a download is never on screen again.
ReleasedNeverShown == currentActivity \notin buriedStateReleased

\* The flag other tasks read is true exactly while a network activity is anywhere on the
\* stack: the radio is not taken down under a prompt, nor kept up after the last one.
RadioFlagMatchesStack == activityUsesWifi = (\E a \in OnStack : a \in Networked)

\* The bookkeeping around the stack, which Push, Pop and Replace each update in several
\* places, agrees with it whatever order callbacks, results and launches come in.
StackWellFormed ==
  /\ PendingHasActivity /\ OwnedOnce /\ HandlerAwaitsChild
  /\ ReleasedNeverShown /\ RadioFlagMatchesStack

\* Refinement: the stack the user walks and the drawing of its top, whatever the two tasks,
\* the mutex and the pending transition do in between.
Screens == INSTANCE ScreenStack WITH
  Screens <- Activities, NoScreen <- None, drawing <- passOn,
  nav <- IF currentActivity = None THEN <<>> ELSE Append(stackActivities, currentActivity)
ImplementsScreenStack == Screens!Spec

\* Every update requested is followed by a pass that starts after it, unless the device has
\* gone to sleep.
EveryUpdateDrawn == owed ~> (~owed \/ loopAt = "asleep")

\* A queued transition is carried out: it waits for the pass in flight, and no longer.
TransitionHappens == (pendingAction # "None") ~> (pendingAction = "None")

\* requestUpdateAndWait() returns.
WaiterReturnsEventually == (loopAt = "blocked") ~> (loopAt # "blocked")
=============================================================================
