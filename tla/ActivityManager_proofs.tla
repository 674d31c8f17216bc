------------------------ MODULE ActivityManager_proofs ------------------------
(***************************************************************************)
(* Proofs about ActivityManager for any set of activities, any depth of    *)
(* the stack and any number of chained transitions.                        *)
(***************************************************************************)
EXTENDS ActivityManager, SequenceTheorems, TLAPS

----------------------------------------------------------------------------
(* The inductive invariant. *)

\* Who holds the mutex at which point.
LockInv ==
  /\ mutex = "loop" <=> loopAt \in {"locked", "busyPaint", "exclusiveTest", "transition"}
  /\ renderAt \in {"draw", "tail"} => mutex = "render"
  /\ mutex = "render" => renderAt \in {"draw", "tail", "clear", "wake"}

\* A pass is in flight exactly between StartPass and ClearPassActive, on the activity on
\* screen; none is while a transition holds the mutex.
PassInv ==
  /\ renderPassActive <=> renderAt \in {"draw", "waveform", "lastWaveform", "tail", "clear"}
  /\ renderPassActive => passOn = currentActivity /\ passOn # None
  /\ ~renderPassActive => passOn = None
  /\ loopAt = "transition" => ~renderPassActive

\* The screen is empty only before setup() and between the last Pop and what follows it.
ScreenInv ==
  /\ currentActivity = None <=> loopAt \in {"setup", "orphan"}
  /\ currentActivity = None => stackActivities = <<>>

\* A transition point has a transition to make.
PendingInv ==
  /\ (pendingAction \in {"Push", "Replace"}) <=> (pendingActivity # None)
  /\ loopAt \in {"exclusiveTest", "transition"} => pendingAction # "None"

\* The sleep screen is only ever part of a sleep transition, which never returns to main.cpp.
SleepInv ==
  /\ sleepTransition => loopAt \notin {"setup", "boot", "main"}
  /\ sleepTransition /\ loopAt \in {"locked", "waitNotify", "blocked", "entering"}
       => resumeAt \notin {"boot", "main"}
  /\ SleepScreen \in OnStack \/ pendingActivity = SleepScreen => sleepTransition

IInv == TypeOK /\ LockInv /\ PassInv /\ ScreenInv /\ PendingInv /\ SleepInv /\ OwnedOnce

----------------------------------------------------------------------------
(* The actions, by what they leave alone. *)

\* The steps that change neither the stack nor what is pending.
QuietCall ==
  \/ RequestUpdate \/ RequestUpdateImmediate
  \/ RegisterWaiter \/ NotifyRenderAndWait \/ WaiterReturns
  \/ LockState \/ UnlockState
QuietLoop ==
  \/ EnterManagerLoop \/ LoopTop \/ MinuteTick
  \/ PaintBusyIndicator \/ BusyIndicatorDone \/ SkipBusyIndicator
  \/ TakeExclusive \/ KeepExclusive \/ RetryExclusive
  \/ CallbackReturns
  \/ NothingPending \/ ClearRequested \/ NotifyRender \/ NothingRequested
Buttons == PressButton \/ ReleaseButton

\* Whatever a step does, it is one of these.
LEMMA StepCases ==
  ASSUME [Next]_vars
  PROVE  \/ QuietCall \/ QuietLoop \/ Buttons \/ RenderTask \/ UNCHANGED vars
         \/ \E a \in Fresh : ReplaceActivity(a) \/ StartActivityForResult(a)
         \/ Finish \/ ReleaseBuriedActivityState \/ GoToSleep
         \/ Setup \/ ReturnFromChild \/ OnEnter
         \/ PopLast \/ PopToParent \/ PopToReleasedParent \/ Push \/ Replace \/ Wake
         \/ RestartToHome
  BY DEF Next, LoopTask, ManagerStep, ActivityCall, Environment, QuietCall, QuietLoop, Buttons

LEMMA QuietKeepsScreens ==
  ASSUME QuietCall \/ QuietLoop \/ Buttons \/ RenderTask \/ UNCHANGED vars
  PROVE  UNCHANGED <<stackVars, pendVars, sleepTransition>>
<1>1. QuietCall => UNCHANGED <<stackVars, pendVars, sleepTransition>>
  BY DEF QuietCall, RequestUpdate, RequestUpdateImmediate, RegisterWaiter, NotifyRenderAndWait,
         WaiterReturns, LockState, UnlockState
<1>2. QuietLoop => UNCHANGED <<stackVars, pendVars, sleepTransition>>
  BY DEF QuietLoop, EnterManagerLoop, LoopTop, MinuteTick, PaintBusyIndicator,
         BusyIndicatorDone, SkipBusyIndicator, TakeExclusive, KeepExclusive, RetryExclusive,
         CallbackReturns, NothingPending, ClearRequested, NotifyRender, NothingRequested
<1>3. RenderTask => UNCHANGED <<stackVars, pendVars, sleepTransition>>
  BY DEF RenderTask, RenderStep, TakeNotification, StartPass, NothingToDraw, RequestFromRender,
         RenderReturns, UnlockForWaveform, Relock, TailDone, WaveformOnly, ClearPassActive,
         WakeWaiter
<1> QED
  BY <1>1, <1>2, <1>3 DEF Buttons, PressButton, ReleaseButton, vars

----------------------------------------------------------------------------
(* Type correctness.  What a Push buries is an activity because a transition has one on *)
(* screen and one pending, so the types depend on ScreenInv and PendingInv.              *)

LEMMA ScreensTyped ==
  ASSUME ScreenTypes, ScreenInv, PendingInv, [Next]_vars
  PROVE  ScreenTypes'
<1> USE ActivitiesAssumption DEF ScreenTypes, stackVars, pendVars
<1>1. CASE UNCHANGED <<stackVars, pendVars, sleepTransition>>
  BY <1>1
<1>2. CASE \E a \in Fresh : ReplaceActivity(a) \/ StartActivityForResult(a)
  BY <1>2 DEF Fresh, ReplaceActivity, StartActivityForResult, Actions
<1>3. CASE Finish
  BY <1>3 DEF Finish, Actions
<1>4. CASE ReleaseBuriedActivityState
  BY <1>4 DEF ReleaseBuriedActivityState, Buried
<1>5. CASE GoToSleep
  BY <1>5 DEF GoToSleep, Actions
<1>6. CASE Setup \/ ReturnFromChild
  BY <1>6 DEF Setup, ReturnFromChild, LaunchAtOnce, UsesWifi, Fresh
<1>7. CASE OnEnter
  BY <1>7 DEF OnEnter
<1>8. CASE PopLast
  BY <1>8 DEF PopLast, Actions
<1>9. CASE PopToParent
  BY <1>9 DEF PopToParent, Parent, BelowParent, UsesWifi, Actions
<1>10. CASE PopToReleasedParent \/ Wake \/ RestartToHome
  <2>1. /\ currentActivity' = None /\ stackActivities' = <<>>
        /\ resultHandler' = [a \in Activities |-> None]
        /\ entered' = FALSE /\ buriedStateReleased' = {} /\ activityUsesWifi' = FALSE
        /\ pendingActivity' = None /\ pendingAction' = "None"
    BY <1>10 DEF PopToReleasedParent, Wake, RestartToHome, Restart
  <2>2. resultHandler' \in [Activities -> Activities \cup {None}]
    BY <2>1
  <2>3. stackActivities' \in Seq(Activities)
    BY <2>1
  <2> QED
    BY <2>1, <2>2, <2>3 DEF Actions
<1>11. CASE Push
  <2>1. currentActivity \in Activities /\ pendingActivity \in Activities
    BY <1>11 DEF Push, ScreenInv, PendingInv
  <2>2. stackActivities' \in Seq(Activities)
    BY <1>11, <2>1 DEF Push
  <2> QED
    BY <1>11, <2>1, <2>2 DEF Push, UsesWifi, Actions
<1>12. CASE Replace
  <2>1. stackActivities' = <<>> /\ resultHandler' = [a \in Activities |-> None]
    BY <1>12 DEF Replace
  <2>2. stackActivities' \in Seq(Activities) /\ resultHandler' \in [Activities -> Activities \cup {None}]
    BY <2>1
  <2> QED
    BY <1>12, <2>2 DEF Replace, UsesWifi, Actions
<1> QED
  BY <1>1, <1>2, <1>3, <1>4, <1>5, <1>6, <1>7, <1>8, <1>9, <1>10, <1>11, <1>12,
     StepCases, QuietKeepsScreens

LEMMA SignalsTyped ==
  ASSUME SignalTypes, ScreenTypes, [Next]_vars
  PROVE  SignalTypes'
<1> USE DEF SignalTypes, ScreenTypes, waitVars, inputVars, updVars
<1>1. CASE QuietCall
  BY <1>1 DEF QuietCall, RequestUpdate, RequestUpdateImmediate, RegisterWaiter,
              NotifyRenderAndWait, WaiterReturns, LockState, UnlockState
<1>2. CASE QuietLoop
  BY <1>2 DEF QuietLoop, EnterManagerLoop, LoopTop, StillDraining, MinuteTick,
              PaintBusyIndicator, BusyIndicatorDone, SkipBusyIndicator, TakeExclusive,
              KeepExclusive, RetryExclusive, CallbackReturns, NothingPending, ClearRequested,
              NotifyRender, NothingRequested
<1>3. CASE RenderTask
  BY <1>3 DEF RenderTask, RenderStep, TakeNotification, StartPass, NothingToDraw,
              RequestFromRender, RenderReturns, UnlockForWaveform, Relock, TailDone,
              WaveformOnly, ClearPassActive, WakeWaiter
<1>4. CASE Buttons \/ UNCHANGED vars
  BY <1>4 DEF Buttons, PressButton, ReleaseButton, vars
<1>5. CASE PopToReleasedParent \/ Wake \/ RestartToHome
  BY <1>5 DEF PopToReleasedParent, Wake, RestartToHome, Restart
<1>6. CASE \/ \E a \in Fresh : ReplaceActivity(a) \/ StartActivityForResult(a)
           \/ Finish \/ ReleaseBuriedActivityState \/ GoToSleep
  BY <1>6 DEF ReplaceActivity, StartActivityForResult, Finish, ReleaseBuriedActivityState,
              GoToSleep
<1>7. CASE \/ Setup \/ ReturnFromChild \/ OnEnter
           \/ PopLast \/ PopToParent \/ Push \/ Replace
  BY <1>7 DEF Setup, ReturnFromChild, LaunchAtOnce, OnEnter, PopLast, PopToParent, Push, Replace
<1> QED
  BY <1>1, <1>2, <1>3, <1>4, <1>5, <1>6, <1>7, StepCases

LEMMA PointsTyped ==
  /\ "setup" \in LoopPoints /\ "entering" \in LoopPoints /\ "top" \in LoopPoints
  /\ "busy" \in LoopPoints /\ "busyPaint" \in LoopPoints /\ "process" \in LoopPoints
  /\ "exclusiveTest" \in LoopPoints /\ "transition" \in LoopPoints
  /\ "orphan" \in LoopPoints /\ "flush" \in LoopPoints /\ "notify" \in LoopPoints
  /\ "locked" \in LoopPoints /\ "waitNotify" \in LoopPoints /\ "blocked" \in LoopPoints
  /\ "asleep" \in LoopPoints /\ "main" \in LoopPoints /\ "loop" \in LoopPoints
  /\ "usb" \in LoopPoints /\ "handler" \in LoopPoints
  /\ "boot" \in Contexts /\ "main" \in Contexts /\ "enter" \in Contexts
  /\ "enterRoot" \in Contexts
  /\ "idle" \in RenderPoints /\ "want" \in RenderPoints /\ "draw" \in RenderPoints
  /\ "waveform" \in RenderPoints /\ "lastWaveform" \in RenderPoints
  /\ "tail" \in RenderPoints /\ "clear" \in RenderPoints /\ "wake" \in RenderPoints
  /\ \A c \in Contexts : c \in LoopPoints
  BY DEF LoopPoints, Contexts, RenderPoints

LEMMA TasksTyped ==
  ASSUME TaskTypes, ScreenTypes, [Next]_vars
  PROVE  TaskTypes'
<1> USE PointsTyped DEF TaskTypes, ScreenTypes, passVars, ctxVars
<1>1. CASE QuietCall
  BY <1>1 DEF QuietCall, RequestUpdate, RequestUpdateImmediate, RegisterWaiter,
              NotifyRenderAndWait, WaiterReturns, LockState, UnlockState, MayCall
<1>2. CASE QuietLoop
  <2>1. CASE CallbackReturns
    BY <2>1 DEF CallbackReturns, AfterContext
  <2>2. CASE LoopTop \/ MinuteTick \/ PaintBusyIndicator
             \/ BusyIndicatorDone \/ SkipBusyIndicator
    BY <2>2 DEF LoopTop, MinuteTick, PaintBusyIndicator, BusyIndicatorDone,
                SkipBusyIndicator
  <2>3. CASE TakeExclusive \/ KeepExclusive \/ RetryExclusive
    BY <2>3 DEF TakeExclusive, KeepExclusive, RetryExclusive
  <2>4. CASE NothingPending \/ ClearRequested \/ NotifyRender \/ NothingRequested
    BY <2>4 DEF NothingPending, ClearRequested, NotifyRender, NothingRequested, AfterLoop
  <2>5. CASE EnterManagerLoop
    BY <2>5 DEF EnterManagerLoop
  <2> QED
    BY <1>2, <2>1, <2>2, <2>3, <2>4, <2>5 DEF QuietLoop
<1>3. CASE RenderTask
  BY <1>3 DEF RenderTask, RenderStep, TakeNotification, StartPass, NothingToDraw,
              RequestFromRender, RenderReturns, UnlockForWaveform, Relock, TailDone,
              WaveformOnly, ClearPassActive, WakeWaiter
<1>4. CASE Buttons \/ UNCHANGED vars
  BY <1>4 DEF Buttons, PressButton, ReleaseButton, vars
<1>5. CASE PopToReleasedParent \/ Wake \/ RestartToHome
  <2>1. chain' = 0
    BY <1>5 DEF PopToReleasedParent, Wake, RestartToHome, Restart
  <2>2. /\ loopAt' = "setup" /\ renderAt' = "idle" /\ mutex' = "free" /\ resumeAt' = "main"
        /\ navigated' = FALSE /\ sleepTransition' = FALSE
        /\ renderPassActive' = FALSE /\ passOn' = None
    BY <1>5 DEF PopToReleasedParent, Wake, RestartToHome, Restart
  <2> QED
    BY <2>1, <2>2
<1>6. CASE \/ \E a \in Fresh : ReplaceActivity(a) \/ StartActivityForResult(a)
           \/ Finish \/ ReleaseBuriedActivityState
  BY <1>6 DEF ReplaceActivity, StartActivityForResult, Finish, ReleaseBuriedActivityState
<1>11. CASE GoToSleep
  BY <1>11 DEF GoToSleep
<1>7. CASE Setup \/ ReturnFromChild \/ OnEnter
  BY <1>7 DEF Setup, ReturnFromChild, LaunchAtOnce, OnEnter
<1>8. CASE PopLast
  BY <1>8 DEF PopLast
<1>9. CASE PopToParent
  <2>1. chain' \in Nat
    BY <1>9 DEF PopToParent
  <2> QED
    BY <1>9, <2>1 DEF PopToParent
<1>10. CASE Push \/ Replace
  BY <1>10 DEF Push, Replace
<1> QED
  BY <1>1, <1>2, <1>3, <1>4, <1>5, <1>6, <1>7, <1>8, <1>9, <1>10, <1>11, StepCases
----------------------------------------------------------------------------
(* The two tasks: the mutex, and the pass in flight. *)

LEMMA LockKept ==
  ASSUME LockInv, TaskTypes, [Next]_vars
  PROVE  LockInv'
<1> USE DEF LockInv
<1>1. CASE QuietCall
  BY <1>1 DEF QuietCall, RequestUpdate, RequestUpdateImmediate, RegisterWaiter, MayCall,
              NotifyRenderAndWait, WaiterReturns, LockState, UnlockState, TaskTypes, Contexts
<1>2. CASE QuietLoop
  <2>1. CASE CallbackReturns
    BY <2>1 DEF CallbackReturns, AfterContext, Contexts
  <2>2. CASE LoopTop \/ EnterManagerLoop \/ MinuteTick \/ PaintBusyIndicator
             \/ BusyIndicatorDone \/ SkipBusyIndicator
    BY <2>2 DEF LoopTop, EnterManagerLoop, MinuteTick, PaintBusyIndicator, BusyIndicatorDone,
                SkipBusyIndicator
  <2>3. CASE TakeExclusive \/ KeepExclusive \/ RetryExclusive
    BY <2>3 DEF TakeExclusive, KeepExclusive, RetryExclusive
  <2>4. CASE NothingPending \/ ClearRequested \/ NotifyRender \/ NothingRequested
    BY <2>4 DEF NothingPending, ClearRequested, NotifyRender, NothingRequested, AfterLoop
  <2> QED
    BY <1>2, <2>1, <2>2, <2>3, <2>4 DEF QuietLoop
<1>3. CASE RenderTask
  BY <1>3 DEF RenderTask, RenderStep, TakeNotification, StartPass, NothingToDraw,
              RequestFromRender, RenderReturns, UnlockForWaveform, Relock, TailDone,
              WaveformOnly, ClearPassActive, WakeWaiter
<1>4. CASE Buttons \/ UNCHANGED vars
  BY <1>4 DEF Buttons, PressButton, ReleaseButton, vars
<1>5. CASE PopToReleasedParent \/ Wake \/ RestartToHome
  BY <1>5 DEF PopToReleasedParent, Wake, RestartToHome, Restart
<1>6. CASE \/ \E a \in Fresh : ReplaceActivity(a) \/ StartActivityForResult(a)
           \/ Finish \/ ReleaseBuriedActivityState
  BY <1>6 DEF ReplaceActivity, StartActivityForResult, Finish, ReleaseBuriedActivityState
<1>7. CASE Setup \/ ReturnFromChild \/ OnEnter
  BY <1>7 DEF Setup, ReturnFromChild, LaunchAtOnce, OnEnter, TaskTypes, Contexts
<1>8. CASE PopLast \/ PopToParent \/ Push \/ Replace
  BY <1>8 DEF PopLast, PopToParent, Push, Replace
<1>9. CASE GoToSleep
  BY <1>9 DEF GoToSleep
<1> QED
  BY <1>1, <1>2, <1>3, <1>4, <1>5, <1>6, <1>7, <1>8, <1>9, StepCases

LEMMA PassKept ==
  ASSUME PassInv, LockInv, ScreenInv, TaskTypes, [Next]_vars
  PROVE  PassInv'
<1> USE DEF PassInv, passVars
<1>1. CASE QuietCall
  BY <1>1 DEF QuietCall, RequestUpdate, RequestUpdateImmediate, RegisterWaiter, stackVars,
              NotifyRenderAndWait, WaiterReturns, LockState, UnlockState, TaskTypes, Contexts
<1>2. CASE QuietLoop
  <2>1. CASE CallbackReturns
    BY <2>1 DEF CallbackReturns, AfterContext, stackVars
  <2>2. CASE LoopTop \/ EnterManagerLoop \/ MinuteTick \/ PaintBusyIndicator
             \/ BusyIndicatorDone \/ SkipBusyIndicator
    BY <2>2 DEF LoopTop, EnterManagerLoop, MinuteTick, PaintBusyIndicator, BusyIndicatorDone,
                SkipBusyIndicator, stackVars
  <2>3. CASE TakeExclusive \/ KeepExclusive \/ RetryExclusive
    BY <2>3 DEF TakeExclusive, KeepExclusive, RetryExclusive, stackVars
  <2>4. CASE NothingPending \/ ClearRequested \/ NotifyRender \/ NothingRequested
    BY <2>4 DEF NothingPending, ClearRequested, NotifyRender, NothingRequested, AfterLoop,
                stackVars
  <2> QED
    BY <1>2, <2>1, <2>2, <2>3, <2>4 DEF QuietLoop
<1>3. CASE RenderTask
  BY <1>3 DEF RenderTask, RenderStep, TakeNotification, StartPass, NothingToDraw,
              RequestFromRender, RenderReturns, UnlockForWaveform, Relock, TailDone,
              WaveformOnly, ClearPassActive, WakeWaiter, stackVars, LockInv
<1>4. CASE Buttons \/ UNCHANGED vars
  BY <1>4 DEF Buttons, PressButton, ReleaseButton, vars, stackVars
<1>5. CASE PopToReleasedParent \/ Wake \/ RestartToHome
  BY <1>5 DEF PopToReleasedParent, Wake, RestartToHome, Restart
<1>6. CASE \/ \E a \in Fresh : ReplaceActivity(a) \/ StartActivityForResult(a)
           \/ Finish \/ ReleaseBuriedActivityState
  BY <1>6 DEF ReplaceActivity, StartActivityForResult, Finish, ReleaseBuriedActivityState,
              stackVars
<1>7. CASE Setup \/ ReturnFromChild
  BY <1>7 DEF Setup, ReturnFromChild, LaunchAtOnce, ScreenInv
<1>8. CASE OnEnter
  BY <1>8 DEF OnEnter, TaskTypes, Contexts
<1>9. CASE PopLast \/ PopToParent \/ Push \/ Replace
  BY <1>9 DEF PopLast, PopToParent, Push, Replace
<1>10. CASE GoToSleep
  BY <1>10 DEF GoToSleep, stackVars
<1> QED
  BY <1>1, <1>2, <1>3, <1>4, <1>5, <1>6, <1>7, <1>8, <1>9, <1>10, StepCases

LEMMA ScreenKept ==
  ASSUME ScreenInv, PendingInv, TypeOK, [Next]_vars
  PROVE  ScreenInv'
<1> USE DEF ScreenInv, stackVars
<1>1. CASE QuietCall
  BY <1>1 DEF QuietCall, RequestUpdate, RequestUpdateImmediate, RegisterWaiter, MayCall,
              NotifyRenderAndWait, WaiterReturns, LockState, UnlockState, TypeOK, TaskTypes,
              Contexts
<1>2. CASE QuietLoop
  <2>1. CASE CallbackReturns
    BY <2>1 DEF CallbackReturns, AfterContext, Contexts
  <2>2. CASE LoopTop \/ EnterManagerLoop \/ MinuteTick \/ PaintBusyIndicator
             \/ BusyIndicatorDone \/ SkipBusyIndicator
    BY <2>2 DEF LoopTop, EnterManagerLoop, MinuteTick, PaintBusyIndicator, BusyIndicatorDone,
                SkipBusyIndicator
  <2>3. CASE TakeExclusive \/ KeepExclusive \/ RetryExclusive
    BY <2>3 DEF TakeExclusive, KeepExclusive, RetryExclusive
  <2>4. CASE NothingPending \/ ClearRequested \/ NotifyRender \/ NothingRequested
    BY <2>4 DEF NothingPending, ClearRequested, NotifyRender, NothingRequested, AfterLoop
  <2> QED
    BY <1>2, <2>1, <2>2, <2>3, <2>4 DEF QuietLoop
<1>3. CASE RenderTask
  BY <1>3 DEF RenderTask, RenderStep, TakeNotification, StartPass, NothingToDraw,
              RequestFromRender, RenderReturns, UnlockForWaveform, Relock, TailDone,
              WaveformOnly, ClearPassActive, WakeWaiter
<1>4. CASE Buttons \/ UNCHANGED vars
  BY <1>4 DEF Buttons, PressButton, ReleaseButton, vars
<1>5. CASE PopToReleasedParent \/ Wake \/ RestartToHome
  BY <1>5 DEF PopToReleasedParent, Wake, RestartToHome, Restart
<1>6. CASE \/ \E a \in Fresh : ReplaceActivity(a) \/ StartActivityForResult(a)
           \/ Finish \/ ReleaseBuriedActivityState
  BY <1>6 DEF ReplaceActivity, StartActivityForResult, Finish, ReleaseBuriedActivityState
<1>7. CASE Setup \/ ReturnFromChild
  BY <1>7, ActivitiesAssumption DEF Setup, ReturnFromChild, LaunchAtOnce, Fresh
<1>8. CASE OnEnter
  BY <1>8 DEF OnEnter, TypeOK, TaskTypes, Contexts
<1>9. CASE PopLast
  BY <1>9 DEF PopLast
<1>10. CASE PopToParent
  BY <1>10, ActivitiesAssumption DEF PopToParent, Parent, TypeOK, ScreenTypes
<1>11. CASE Push \/ Replace
  BY <1>11 DEF Push, Replace, PendingInv
<1>12. CASE GoToSleep
  BY <1>12 DEF GoToSleep
<1> QED
  BY <1>1, <1>2, <1>3, <1>4, <1>5, <1>6, <1>7, <1>8, <1>9, <1>10, <1>11, <1>12, StepCases

LEMMA PendingKept ==
  ASSUME PendingInv, TypeOK, [Next]_vars
  PROVE  PendingInv'
<1> USE DEF PendingInv, pendVars
<1>1. CASE QuietCall
  BY <1>1 DEF QuietCall, RequestUpdate, RequestUpdateImmediate, RegisterWaiter,
              NotifyRenderAndWait, WaiterReturns, LockState, UnlockState, TypeOK, TaskTypes,
              Contexts
<1>2. CASE QuietLoop
  <2>1. CASE CallbackReturns
    BY <2>1 DEF CallbackReturns, AfterContext, Contexts
  <2>2. CASE LoopTop \/ EnterManagerLoop \/ MinuteTick \/ PaintBusyIndicator
             \/ BusyIndicatorDone \/ SkipBusyIndicator
    BY <2>2 DEF LoopTop, EnterManagerLoop, MinuteTick, PaintBusyIndicator, BusyIndicatorDone,
                SkipBusyIndicator
  <2>3. CASE TakeExclusive \/ KeepExclusive \/ RetryExclusive
    BY <2>3 DEF TakeExclusive, KeepExclusive, RetryExclusive
  <2>4. CASE NothingPending \/ ClearRequested \/ NotifyRender \/ NothingRequested
    BY <2>4 DEF NothingPending, ClearRequested, NotifyRender, NothingRequested, AfterLoop
  <2> QED
    BY <1>2, <2>1, <2>2, <2>3, <2>4 DEF QuietLoop
<1>3. CASE RenderTask
  BY <1>3 DEF RenderTask, RenderStep, TakeNotification, StartPass, NothingToDraw,
              RequestFromRender, RenderReturns, UnlockForWaveform, Relock, TailDone,
              WaveformOnly, ClearPassActive, WakeWaiter
<1>4. CASE Buttons \/ UNCHANGED vars
  BY <1>4 DEF Buttons, PressButton, ReleaseButton, vars
<1>5. CASE PopToReleasedParent \/ Wake \/ RestartToHome
  BY <1>5 DEF PopToReleasedParent, Wake, RestartToHome, Restart
<1>6. CASE \E a \in Fresh : ReplaceActivity(a) \/ StartActivityForResult(a)
  BY <1>6, ActivitiesAssumption DEF ReplaceActivity, StartActivityForResult, Fresh
<1>7. CASE Finish \/ ReleaseBuriedActivityState
  BY <1>7 DEF Finish, ReleaseBuriedActivityState, MayNavigate, MayCall, Contexts
<1>8. CASE Setup \/ ReturnFromChild \/ OnEnter
  BY <1>8 DEF Setup, ReturnFromChild, LaunchAtOnce, OnEnter, TypeOK, TaskTypes, Contexts
<1>9. CASE PopLast \/ PopToParent \/ Push \/ Replace
  BY <1>9 DEF PopLast, PopToParent, Push, Replace
<1>10. CASE GoToSleep
  BY <1>10, ActivitiesAssumption DEF GoToSleep
<1> QED
  BY <1>1, <1>2, <1>3, <1>4, <1>5, <1>6, <1>7, <1>8, <1>9, <1>10, StepCases
----------------------------------------------------------------------------
(* The stack: what a transition does to the set of buried activities. *)

LEMMA BuriedUnchanged ==
  ASSUME UNCHANGED <<stackVars, pendVars>>
  PROVE  Buried' = Buried /\ OnStack' = OnStack
  BY DEF stackVars, pendVars, Buried, OnStack

LEMMA EmptyBuried ==
  ASSUME stackActivities' = <<>>
  PROVE  Buried' = {}
  BY DEF Buried

LEMMA BuriedByPush ==
  ASSUME ScreenTypes, Push
  PROVE  Buried' = Buried \cup {currentActivity}
<1>1. stackActivities' = Append(stackActivities, currentActivity)
  BY DEF Push
<1>2. stackActivities \in Seq(Activities \cup {None})
  BY DEF ScreenTypes
<1> QED
  BY <1>1, <1>2 DEF Buried, ScreenTypes

LEMMA ParentSplit ==
  ASSUME ScreenTypes, stackActivities # <<>>
  PROVE  /\ Len(stackActivities) \in Nat \ {0}
         /\ Parent \in Buried /\ Parent \in Activities
         /\ BelowParent \in Seq(Activities)
         /\ Len(BelowParent) = Len(stackActivities) - 1
         /\ \A i \in 1..(Len(stackActivities) - 1) : BelowParent[i] = stackActivities[i]
         /\ stackActivities = Append(BelowParent, Parent)
<1> DEFINE n == Len(stackActivities)
<1>1. stackActivities \in Seq(Activities) /\ n \in Nat \ {0}
  BY DEF ScreenTypes
<1>2. Parent \in Buried /\ Parent \in Activities
  BY <1>1 DEF Parent, Buried
<1>3. /\ BelowParent \in Seq(Activities) /\ Len(BelowParent) = n - 1
      /\ \A i \in 1..(n - 1) : BelowParent[i] = stackActivities[i]
  <2>1. \A i \in 1..(n - 1) : stackActivities[i] \in Activities
    BY <1>1
  <2>2. 1 \in Int /\ n - 1 \in Int /\ n - 1 >= 0
    BY <1>1
  <2>3. BelowParent = SubSeq(stackActivities, 1, n - 1)
    BY DEF BelowParent
  <2> HIDE DEF n
  <2>4. BelowParent \in Seq(Activities)
    BY <2>1, <2>2, <2>3, SubSeqProperties
  <2>5. Len(BelowParent) = n - 1
    BY <2>1, <2>2, <2>3, SubSeqProperties
  <2>6. ASSUME NEW i \in 1..(n - 1)
        PROVE  BelowParent[i] = stackActivities[i]
    <3>1. i \in 1..((n - 1) - 1 + 1) /\ 1 + i - 1 = i
      BY <2>2
    <3>2. BelowParent[i] = stackActivities[1 + i - 1]
      BY <2>1, <2>2, <2>3, <3>1, SubSeqProperties
    <3> QED
      BY <3>1, <3>2
  <2> QED
    BY <2>4, <2>5, <2>6
<1>4. stackActivities = Append(BelowParent, Parent)
  <2>1. Append(BelowParent, Parent) \in Seq(Activities) /\ Len(Append(BelowParent, Parent)) = n
    BY <1>1, <1>2, <1>3
  <2>2. \A i \in 1..n : Append(BelowParent, Parent)[i] = stackActivities[i]
    BY <1>1, <1>2, <1>3 DEF Parent
  <2> QED
    BY <1>1, <2>1, <2>2, SeqEqual
<1> QED
  BY <1>1, <1>2, <1>3, <1>4

LEMMA BuriedByPop ==
  ASSUME ScreenTypes, OwnedOnce, PopToParent
  PROVE  Buried' = Buried \ {Parent} /\ Parent \in Buried
<1>1. stackActivities' = BelowParent /\ stackActivities # <<>>
  BY DEF PopToParent
<1>2. \A i \in 1..(Len(stackActivities) - 1) : stackActivities[i] # Parent
  BY <1>1, ParentSplit DEF OwnedOnce, Parent, ScreenTypes
<1>3. /\ DOMAIN stackActivities = 1..Len(stackActivities)
      /\ DOMAIN stackActivities' = 1..(Len(stackActivities) - 1)
      /\ Len(stackActivities) \in Nat \ {0}
  BY <1>1, ParentSplit DEF ScreenTypes
<1>4. \A i \in DOMAIN stackActivities' : stackActivities'[i] = stackActivities[i]
  BY <1>1, <1>3, ParentSplit
<1> QED
  BY <1>1, <1>2, <1>3, <1>4, ParentSplit DEF Buried, Parent

\* A pop leaves no activity on the stack that was not there before.
LEMMA PopKeepsOnStack ==
  ASSUME ScreenTypes, OwnedOnce, PopLast \/ PopToParent
  PROVE  OnStack' \subseteq OnStack /\ pendingActivity' = pendingActivity
<1>1. CASE PopLast
  BY <1>1, EmptyBuried DEF PopLast, OnStack
<1>2. CASE PopToParent
  BY <1>2, BuriedByPop DEF PopToParent, OnStack
<1> QED
  BY <1>1, <1>2

\* A Push or a Replace puts the pending activity on the stack, and nothing else that was
\* not there before.
LEMMA LaunchOnStack ==
  ASSUME ScreenTypes, ScreenInv, Push \/ Replace
  PROVE  OnStack' \subseteq OnStack \cup {pendingActivity} /\ pendingActivity' = None
<1>1. CASE Push
  BY <1>1, BuriedByPush DEF Push, OnStack, ScreenInv
<1>2. CASE Replace
  BY <1>2, EmptyBuried DEF Replace, OnStack
<1> QED
  BY <1>1, <1>2

LEMMA SleepKept ==
  ASSUME SleepInv, ScreenInv, PendingInv, OwnedOnce, TypeOK, [Next]_vars
  PROVE  SleepInv'
<1> USE ActivitiesAssumption DEF SleepInv
<1>1. CASE QuietCall
  <2>1. OnStack' = OnStack /\ UNCHANGED <<pendingActivity, sleepTransition>>
    BY <1>1, QuietKeepsScreens, BuriedUnchanged DEF pendVars
  <2>2. CASE RequestUpdate \/ RequestUpdateImmediate \/ NotifyRenderAndWait
    BY <2>1, <2>2 DEF RequestUpdate, RequestUpdateImmediate, NotifyRenderAndWait, ctxVars
  <2>3. CASE RegisterWaiter \/ LockState
    BY <2>1, <2>3 DEF RegisterWaiter, LockState
  <2>4. CASE WaiterReturns \/ UnlockState
    BY <2>1, <2>4 DEF WaiterReturns, UnlockState, ctxVars, TypeOK, TaskTypes, Contexts
  <2> QED
    BY <1>1, <2>2, <2>3, <2>4 DEF QuietCall
<1>2. CASE QuietLoop
  <2>1. CASE CallbackReturns
    BY <2>1, <1>2, QuietKeepsScreens, BuriedUnchanged
       DEF pendVars, CallbackReturns, AfterContext, Contexts
  <2>2. CASE LoopTop \/ EnterManagerLoop \/ MinuteTick \/ PaintBusyIndicator
             \/ BusyIndicatorDone \/ SkipBusyIndicator
    BY <2>2, <1>2, QuietKeepsScreens, BuriedUnchanged
       DEF pendVars, LoopTop, EnterManagerLoop, MinuteTick, PaintBusyIndicator,
           BusyIndicatorDone, SkipBusyIndicator
  <2>3. CASE TakeExclusive \/ KeepExclusive \/ RetryExclusive
    BY <2>3, <1>2, QuietKeepsScreens, BuriedUnchanged
       DEF pendVars, TakeExclusive, KeepExclusive, RetryExclusive
  <2>4. CASE NothingPending \/ ClearRequested \/ NotifyRender \/ NothingRequested
    BY <2>4, <1>2, QuietKeepsScreens, BuriedUnchanged
       DEF pendVars, NothingPending, ClearRequested, NotifyRender, NothingRequested, AfterLoop
  <2> QED
    BY <1>2, <2>1, <2>2, <2>3, <2>4 DEF QuietLoop
<1>3. CASE RenderTask
  <2>1. UNCHANGED <<loopAt, resumeAt>>
    BY <1>3 DEF RenderTask, RenderStep, TakeNotification, StartPass, NothingToDraw,
                RequestFromRender, RenderReturns, UnlockForWaveform, Relock, TailDone,
                WaveformOnly, ClearPassActive, WakeWaiter, ctxVars
  <2> QED
    BY <1>3, <2>1, QuietKeepsScreens, BuriedUnchanged DEF pendVars
<1>4. CASE Buttons \/ UNCHANGED vars
  <2>1. UNCHANGED <<loopAt, resumeAt>>
    BY <1>4 DEF Buttons, PressButton, ReleaseButton, vars, ctxVars
  <2> QED
    BY <1>4, <2>1, QuietKeepsScreens, BuriedUnchanged DEF pendVars
<1>5. CASE PopToReleasedParent \/ Wake \/ RestartToHome
  <2>1. /\ stackActivities' = <<>> /\ currentActivity' = None /\ pendingActivity' = None
        /\ sleepTransition' = FALSE
    BY <1>5 DEF PopToReleasedParent, Wake, RestartToHome, Restart
  <2> QED
    BY <2>1, EmptyBuried DEF OnStack
<1>6. CASE \E a \in Fresh : ReplaceActivity(a) \/ StartActivityForResult(a)
  <2>1. UNCHANGED <<loopAt, resumeAt, sleepTransition>> /\ pendingActivity' # SleepScreen
    BY <1>6 DEF ReplaceActivity, StartActivityForResult, Fresh
  <2>2. OnStack' = OnStack
    BY <1>6 DEF ReplaceActivity, StartActivityForResult, stackVars, OnStack, Buried
  <2> QED
    BY <2>1, <2>2
<1>7. CASE Finish \/ ReleaseBuriedActivityState
  BY <1>7 DEF Finish, ReleaseBuriedActivityState, stackVars, pendVars, ctxVars, OnStack, Buried
<1>8. CASE Setup \/ ReturnFromChild
  <2>1. stackActivities' = <<>> /\ currentActivity' # SleepScreen
        /\ UNCHANGED <<pendingActivity, sleepTransition>>
    BY <1>8 DEF Setup, ReturnFromChild, LaunchAtOnce, Fresh, ScreenInv, pendVars
  <2>2. loopAt' = "entering" /\ (loopAt = "setup" \/ resumeAt' = "enterRoot")
    BY <1>8 DEF Setup, ReturnFromChild, LaunchAtOnce
  <2> QED
    BY <2>1, <2>2, EmptyBuried DEF OnStack
<1>9. CASE OnEnter
  BY <1>9 DEF OnEnter, OnStack, Buried, pendVars, TypeOK, TaskTypes, Contexts
<1>10. CASE PopLast \/ PopToParent
  <2>1. loopAt' \in {"orphan", "handler"} /\ UNCHANGED sleepTransition
    BY <1>10 DEF PopLast, PopToParent
  <2> QED
    BY <1>10, <2>1, PopKeepsOnStack DEF TypeOK
<1>11. CASE Push \/ Replace
  <2>1. loopAt' = "entering" /\ resumeAt' = "enter" /\ UNCHANGED sleepTransition
    BY <1>11 DEF Push, Replace
  <2> QED
    BY <1>11, <2>1, LaunchOnStack DEF TypeOK
<1>12. CASE GoToSleep
  BY <1>12 DEF GoToSleep
<1> QED
  BY <1>1, <1>2, <1>3, <1>4, <1>5, <1>6, <1>7, <1>8, <1>9, <1>10, <1>11, <1>12, StepCases

LEMMA OwnedKept ==
  ASSUME OwnedOnce, SleepInv, ScreenInv, PendingInv, TypeOK, [Next]_vars
  PROVE  OwnedOnce'
<1> USE ActivitiesAssumption
<1>1. CASE QuietCall \/ QuietLoop \/ Buttons \/ RenderTask \/ UNCHANGED vars
  BY <1>1, QuietKeepsScreens, BuriedUnchanged DEF OwnedOnce, stackVars, pendVars
<1>2. CASE PopToReleasedParent \/ Wake \/ RestartToHome
  <2>1. stackActivities' = <<>> /\ currentActivity' = None /\ pendingActivity' = None
    BY <1>2 DEF PopToReleasedParent, Wake, RestartToHome, Restart
  <2> QED
    BY <2>1 DEF OwnedOnce
<1>3. CASE \E a \in Fresh : ReplaceActivity(a) \/ StartActivityForResult(a)
  <2>1. UNCHANGED <<stackActivities, currentActivity>> /\ pendingActivity' \notin OnStack
    BY <1>3 DEF ReplaceActivity, StartActivityForResult, Fresh, Referenced, stackVars
  <2> QED
    BY <2>1 DEF OwnedOnce, OnStack, Buried
<1>4. CASE Finish \/ ReleaseBuriedActivityState \/ OnEnter
  BY <1>4 DEF Finish, ReleaseBuriedActivityState, OnEnter, OwnedOnce, OnStack, Buried,
              stackVars, pendVars
<1>5. CASE GoToSleep
  <2>1. SleepScreen \notin OnStack
    BY <1>5 DEF GoToSleep, SleepInv
  <2> QED
    BY <1>5, <2>1 DEF GoToSleep, OwnedOnce, OnStack, Buried, stackVars
<1>6. CASE Setup \/ ReturnFromChild
  <2>1. stackActivities = <<>>
    BY <1>6 DEF Setup, ReturnFromChild, ScreenInv
  <2>2. stackActivities' = <<>> /\ UNCHANGED pendingActivity
        /\ (pendingActivity # None => currentActivity' # pendingActivity)
    BY <1>6, <2>1 DEF Setup, ReturnFromChild, LaunchAtOnce, Fresh, Referenced, pendVars
  <2> QED
    BY <2>2, EmptyBuried DEF OwnedOnce, OnStack
<1>7. CASE PopLast
  BY <1>7, EmptyBuried DEF PopLast, OwnedOnce, OnStack
<1>8. CASE PopToParent
  <2>1. stackActivities' = BelowParent /\ currentActivity' = Parent /\ stackActivities # <<>>
    BY <1>8 DEF PopToParent
  <2>2. Parent \notin Buried' /\ Buried' \subseteq Buried /\ Parent \in Buried
    BY <1>8, BuriedByPop DEF TypeOK
  <2>3. /\ DOMAIN stackActivities' \subseteq DOMAIN stackActivities
        /\ \A i \in DOMAIN stackActivities' : stackActivities'[i] = stackActivities[i]
    BY <2>1, ParentSplit DEF TypeOK, ScreenTypes
  <2>4. pendingActivity' = pendingActivity
    BY <1>8 DEF PopToParent
  <2> QED
    BY <2>1, <2>2, <2>3, <2>4 DEF OwnedOnce, OnStack
<1>9. CASE Push
  <2>1. /\ stackActivities' = Append(stackActivities, currentActivity)
        /\ currentActivity' = pendingActivity /\ pendingActivity' = None
        /\ pendingActivity # None /\ currentActivity # None
    BY <1>9 DEF Push, PendingInv, ScreenInv
  <2>2. Buried' = Buried \cup {currentActivity}
    BY <1>9, BuriedByPush DEF TypeOK
  <2>3. currentActivity \notin Buried /\ pendingActivity \notin OnStack
    BY <2>1 DEF OwnedOnce
  <2>4. \A i, j \in DOMAIN stackActivities' : i # j => stackActivities'[i] # stackActivities'[j]
    BY <2>1, <2>3 DEF OwnedOnce, TypeOK, ScreenTypes, Buried
  <2> QED
    BY <2>1, <2>2, <2>3, <2>4 DEF OwnedOnce, OnStack
<1>10. CASE Replace
  <2>1. stackActivities' = <<>> /\ pendingActivity' = None
    BY <1>10 DEF Replace
  <2> QED
    BY <2>1, EmptyBuried DEF OwnedOnce
<1> QED
  BY <1>1, <1>2, <1>3, <1>4, <1>5, <1>6, <1>7, <1>8, <1>9, <1>10, StepCases

----------------------------------------------------------------------------
(* The invariant, and what follows from it. *)

LEMMA InitInv == Init => IInv
<1> SUFFICES ASSUME Init PROVE IInv
  OBVIOUS
<1> USE ActivitiesAssumption
<1>1. ScreenTypes
  <2>1. resultHandler \in [Activities -> Activities \cup {None}]
    BY DEF Init
  <2>2. stackActivities \in Seq(Activities)
    BY DEF Init
  <2> QED
    BY <2>1, <2>2 DEF Init, ScreenTypes, Actions
<1>2. SignalTypes
  BY DEF Init, SignalTypes
<1>3. TaskTypes
  BY PointsTyped DEF Init, TaskTypes
<1>4. LockInv /\ PassInv /\ ScreenInv /\ PendingInv
  BY DEF Init, LockInv, PassInv, ScreenInv, PendingInv
<1>5. SleepInv /\ OwnedOnce
  BY DEF Init, SleepInv, OwnedOnce, OnStack, Buried
<1> QED
  BY <1>1, <1>2, <1>3, <1>4, <1>5 DEF IInv, TypeOK

LEMMA InvKept == IInv /\ [Next]_vars => IInv'
  BY ScreensTyped, SignalsTyped, TasksTyped, LockKept, PassKept, ScreenKept, PendingKept,
     SleepKept, OwnedKept
  DEF IInv, TypeOK

\* The invariant every theorem below rests on.
THEOREM Invariance == Spec => []IInv
  BY InitInv, InvKept, PTL DEF Spec

\* Every variable keeps its type: in particular no empty pointer is ever pushed on the stack.
THEOREM TypeCorrect == Spec => []TypeOK
  BY Invariance, PTL DEF IInv

\* No use after free: the activity the render task is inside of, also while it has given the
\* mutex back for the waveform, is the one on screen.
THEOREM RenderSafe == Spec => []NoUseAfterFree
<1>1. IInv => NoUseAfterFree
  BY DEF IInv, PassInv, NoUseAfterFree
<1> QED
  BY <1>1, Invariance, PTL

\* The loop task's changes under its lock and the drawing of a frame exclude each other.
THEOREM FrameSafe == Spec => []NoTornFrame
<1>1. IInv => NoTornFrame
  BY DEF IInv, LockInv, NoTornFrame
<1> QED
  BY <1>1, Invariance, PTL

\* A queued transition always has what it needs, so the loop over pendingAction progresses.
THEOREM TransitionsWellFormed == Spec => []PendingHasActivity
<1>1. IInv => PendingHasActivity
  BY DEF IInv, PendingInv, ScreenInv, PendingHasActivity
<1> QED
  BY <1>1, Invariance, PTL

\* No activity is owned by two places at once.
THEOREM SingleOwner == Spec => []OwnedOnce
  BY Invariance, PTL DEF IInv

----------------------------------------------------------------------------
(* What is kept about the stack beside it: released rows, handlers, the radio's flag. *)

\* Rows are dropped of buried activities only; an activity about to be buried awaits the
\* one that will bury it; the flag follows the stack.
BookInv ==
  /\ buriedStateReleased \subseteq Buried
  /\ HandlerAwaitsChild
  /\ pendingAction = "Push" =>
       currentActivity # None /\ resultHandler[currentActivity] = pendingActivity
  /\ RadioFlagMatchesStack

LEMMA QuietKeepsBook ==
  ASSUME IInv, BookInv, UNCHANGED <<stackVars, pendVars>>
  PROVE  BookInv'
<1>1. Buried' = Buried /\ OnStack' = OnStack
  BY BuriedUnchanged
<1>2. stackActivities # <<>> => loopAt # "orphan"
  BY DEF IInv, ScreenInv
<1>3. HandlerAwaitsChild'
  <2>1. stackActivities = <<>> => HandlerAwaitsChild'
    BY DEF stackVars, HandlerAwaitsChild
  <2> QED
    BY <1>2, <2>1 DEF BookInv, HandlerAwaitsChild, Above, stackVars
<1> QED
  BY <1>1, <1>3 DEF BookInv, RadioFlagMatchesStack, stackVars, pendVars

\* A stack that is emptied takes its bookkeeping with it.
LEMMA EmptyBook ==
  ASSUME stackActivities' = <<>>, buriedStateReleased' = {}, pendingAction' # "Push",
         activityUsesWifi' = (currentActivity' # None /\ currentActivity' \in Networked)
  PROVE  BookInv'
<1>1. Buried' = {} /\ OnStack' = {currentActivity'} \ {None}
  BY EmptyBuried DEF OnStack
<1>2. HandlerAwaitsChild'
  BY DEF HandlerAwaitsChild
<1>3. RadioFlagMatchesStack'
  BY <1>1 DEF RadioFlagMatchesStack
<1> QED
  BY <1>1, <1>2, <1>3 DEF BookInv

\* The parent's handler is moved out; those below it still await what is above them.
LEMMA PopKeepsBook ==
  ASSUME IInv, BookInv, PopToParent
  PROVE  BookInv'
<1> USE DEF IInv, TypeOK
<1>1. Buried' = Buried \ {Parent} /\ Parent \in Buried /\ Parent \in Activities
  BY BuriedByPop, ParentSplit DEF PopToParent
<1>2. currentActivity \notin Buried /\ currentActivity # None /\ currentActivity \in Activities
  BY DEF PopToParent, OwnedOnce, ScreenTypes
<1>3. buriedStateReleased' \subseteq Buried'
  BY <1>1, <1>2 DEF PopToParent, ParentGone, BookInv
<1>4. HandlerAwaitsChild'
  <2> DEFINE n == Len(stackActivities)
  <2>1. /\ stackActivities' = BelowParent /\ currentActivity' = Parent /\ stackActivities # <<>>
        /\ resultHandler' = [resultHandler EXCEPT ![Parent] = None, ![currentActivity] = None]
    BY DEF PopToParent
  <2>2. /\ DOMAIN stackActivities = 1..n /\ n \in Nat \ {0}
        /\ DOMAIN stackActivities' = 1..(n - 1) /\ Len(stackActivities') = n - 1
        /\ \A i \in 1..(n - 1) : stackActivities'[i] = stackActivities[i]
    BY <2>1, ParentSplit DEF ScreenTypes
  <2>3. loopAt # "orphan" /\ Parent = stackActivities[n]
    BY DEF PopToParent, Parent
  <2>4. \A i \in 1..n : resultHandler[stackActivities[i]] = Above(i)
    BY <2>2, <2>3 DEF BookInv, HandlerAwaitsChild
  <2>5. \A i : Above(i) = IF i = n THEN currentActivity ELSE stackActivities[i + 1]
    BY DEF Above
  <2>6. \A i : Above(i)' = IF i = n - 1 THEN Parent ELSE stackActivities'[i + 1]
    BY <2>1, <2>2 DEF Above
  <2>7. \A i, j \in 1..n : i # j => stackActivities[i] # stackActivities[j]
    BY <2>2 DEF OwnedOnce
  <2>8. \A i \in 1..n : stackActivities[i] # currentActivity /\ stackActivities[i] \in Activities
    BY <1>2, <2>2 DEF Buried, ScreenTypes
  <2>9. ASSUME NEW i \in 1..(n - 1)
        PROVE  resultHandler'[stackActivities'[i]] = Above(i)'
    <3> HIDE DEF n
    <3>1. i \in 1..n /\ n \in 1..n /\ i # n /\ (i # n - 1 => i + 1 \in 1..(n - 1))
      BY <2>2
    <3>2. stackActivities[i] # Parent
      BY <2>3, <2>7, <3>1
    <3>3. resultHandler'[stackActivities[i]] = resultHandler[stackActivities[i]]
      BY <2>1, <2>8, <3>1, <3>2 DEF ScreenTypes
    <3>4. resultHandler[stackActivities[i]] = stackActivities[i + 1]
      BY <2>4, <2>5, <3>1
    <3>5. CASE i = n - 1
      <4>1. i + 1 = n
        BY <2>2, <3>5
      <4> QED
        BY <2>2, <2>3, <2>6, <3>3, <3>4, <3>5, <4>1
    <3>6. CASE i # n - 1
      BY <2>2, <2>6, <3>1, <3>3, <3>4, <3>6
    <3> QED
      BY <3>5, <3>6
  <2> QED
    BY <2>2, <2>9 DEF HandlerAwaitsChild
<1>5. RadioFlagMatchesStack'
  <2>1. OnStack' = Buried' \cup {Parent}
    BY <1>1, ActivitiesAssumption DEF PopToParent, OnStack
  <2>2. activityUsesWifi' = UsesWifi(Parent, Buried')
    BY DEF PopToParent, Buried
  <2> QED
    BY <2>1, <2>2 DEF RadioFlagMatchesStack, UsesWifi
<1>6. pendingAction' # "Push"
  BY DEF PopToParent
<1> QED
  BY <1>3, <1>4, <1>5, <1>6 DEF BookInv

\* The activity buried by a Push is the one whose handler awaits what was pending.
LEMMA PushKeepsBook ==
  ASSUME IInv, BookInv, Push
  PROVE  BookInv'
<1> USE DEF IInv, TypeOK
<1>1. /\ stackActivities' = Append(stackActivities, currentActivity)
      /\ currentActivity' = pendingActivity /\ pendingActivity # None
      /\ resultHandler' = resultHandler /\ resultHandler[currentActivity] = pendingActivity
      /\ currentActivity # None /\ loopAt # "orphan"
  BY DEF Push, BookInv, PendingInv, ScreenInv
<1>2. Buried' = Buried \cup {currentActivity}
  BY BuriedByPush
<1>3. buriedStateReleased' \subseteq Buried'
  BY <1>2 DEF Push, BookInv
<1>4. HandlerAwaitsChild'
  <2> DEFINE n == Len(stackActivities)
  <2>1. /\ DOMAIN stackActivities = 1..n /\ n \in Nat
        /\ DOMAIN stackActivities' = 1..(n + 1) /\ Len(stackActivities') = n + 1
        /\ \A i \in 1..n : stackActivities'[i] = stackActivities[i]
        /\ stackActivities'[n + 1] = currentActivity
    BY <1>1 DEF ScreenTypes
  <2>2. \A i \in 1..n : resultHandler[stackActivities[i]] = Above(i)
    BY <1>1, <2>1 DEF BookInv, HandlerAwaitsChild
  <2>3. \A i : Above(i) = IF i = n THEN currentActivity ELSE stackActivities[i + 1]
    BY DEF Above
  <2>4. \A i : Above(i)' = IF i = n + 1 THEN pendingActivity ELSE stackActivities'[i + 1]
    BY <1>1, <2>1 DEF Above
  <2>5. ASSUME NEW i \in 1..(n + 1)
        PROVE  resultHandler'[stackActivities'[i]] = Above(i)'
    <3> HIDE DEF n
    <3>1. CASE i = n + 1
      BY <1>1, <2>1, <2>4, <3>1
    <3>2. CASE i = n
      <4>1. i \in 1..n /\ i # n + 1
        BY <2>1, <3>2
      <4>2. Above(i)' = currentActivity
        BY <2>1, <2>4, <3>2, <4>1
      <4> QED
        BY <1>1, <2>1, <2>2, <2>3, <3>2, <4>1, <4>2
    <3>3. CASE i # n + 1 /\ i # n
      <4>1. i \in 1..n /\ i + 1 \in 1..n
        BY <2>1, <3>3
      <4> QED
        BY <1>1, <2>1, <2>2, <2>3, <2>4, <3>3, <4>1
    <3> QED
      BY <3>1, <3>2, <3>3
  <2> QED
    BY <2>1, <2>5 DEF HandlerAwaitsChild
<1>5. RadioFlagMatchesStack'
  <2>1. OnStack' = OnStack \cup {pendingActivity}
    BY <1>1, <1>2 DEF OnStack
  <2>2. activityUsesWifi' = UsesWifi(pendingActivity, OnStack)
    BY DEF Push
  <2> QED
    BY <2>1, <2>2 DEF RadioFlagMatchesStack, UsesWifi
<1>6. pendingAction' # "Push"
  BY DEF Push
<1> QED
  BY <1>3, <1>4, <1>5, <1>6 DEF BookInv

\* A call of the activity on screen touches no handler but its own, which nothing awaits yet.
LEMMA CallKeepsBook ==
  ASSUME IInv, BookInv,
         \/ \E a \in Fresh : ReplaceActivity(a) \/ StartActivityForResult(a)
         \/ Finish \/ ReleaseBuriedActivityState \/ GoToSleep \/ OnEnter
  PROVE  BookInv'
<1> USE DEF IInv, TypeOK
<1>1. UNCHANGED <<stackActivities, currentActivity, activityUsesWifi>>
  BY DEF ReplaceActivity, StartActivityForResult, Finish, ReleaseBuriedActivityState, GoToSleep,
         OnEnter, stackVars
<1>2. Buried' = Buried /\ OnStack' = OnStack
  BY <1>1 DEF Buried, OnStack
<1>3. buriedStateReleased' \subseteq Buried'
  BY <1>2 DEF BookInv, ReplaceActivity, StartActivityForResult, Finish,
              ReleaseBuriedActivityState, GoToSleep, OnEnter, stackVars
<1>4. stackActivities # <<>> => loopAt # "orphan" /\ currentActivity \notin Buried
  BY DEF ScreenInv, OwnedOnce
<1>5. \A i \in DOMAIN stackActivities : stackActivities[i] \in Buried /\ stackActivities[i] \in Activities
  BY DEF Buried, ScreenTypes
<1>6. \A i \in DOMAIN stackActivities : resultHandler'[stackActivities[i]] = resultHandler[stackActivities[i]]
  <2>1. CASE \E a \in Fresh : StartActivityForResult(a)
    <3>1. PICK a \in Fresh : resultHandler' = [resultHandler EXCEPT ![currentActivity] = a]
      BY <2>1 DEF StartActivityForResult
    <3>2. \A i \in DOMAIN stackActivities : stackActivities[i] # currentActivity
      BY <1>4, <1>5 DEF ScreenTypes
    <3> QED
      BY <1>5, <3>1, <3>2 DEF ScreenTypes
  <2>2. CASE ~\E a \in Fresh : StartActivityForResult(a)
    BY <2>2 DEF ReplaceActivity, Finish, ReleaseBuriedActivityState, GoToSleep, OnEnter, stackVars
  <2> QED
    BY <2>1, <2>2
<1>7. HandlerAwaitsChild'
  <2>1. \A i : Above(i)' = Above(i)
    BY <1>1 DEF Above
  <2>2. \A i \in DOMAIN stackActivities : resultHandler[stackActivities[i]] = Above(i)
    BY <1>4 DEF BookInv, HandlerAwaitsChild, ScreenTypes
  <2> QED
    BY <1>1, <1>6, <2>1, <2>2 DEF HandlerAwaitsChild
<1>8. pendingAction' = "Push" =>
        currentActivity' # None /\ resultHandler'[currentActivity'] = pendingActivity'
  <2>1. CASE \E a \in Fresh : StartActivityForResult(a)
    BY <2>1 DEF StartActivityForResult, ScreenTypes
  <2>2. CASE \/ \E a \in Fresh : ReplaceActivity(a)
             \/ Finish \/ GoToSleep
    BY <2>2 DEF ReplaceActivity, Finish, GoToSleep
  <2>3. CASE ReleaseBuriedActivityState \/ OnEnter
    BY <2>3 DEF ReleaseBuriedActivityState, OnEnter, BookInv, pendVars
  <2> QED
    BY <2>1, <2>2, <2>3
<1>9. RadioFlagMatchesStack'
  BY <1>1, <1>2 DEF BookInv, RadioFlagMatchesStack
<1> QED
  BY <1>3, <1>7, <1>8, <1>9 DEF BookInv

LEMMA BookKept ==
  ASSUME IInv, BookInv, [Next]_vars
  PROVE  BookInv'
<1> USE ActivitiesAssumption
<1>1. CASE QuietCall \/ QuietLoop \/ Buttons \/ RenderTask \/ UNCHANGED vars
  BY <1>1, QuietKeepsScreens, QuietKeepsBook
<1>2. CASE \/ \E a \in Fresh : ReplaceActivity(a) \/ StartActivityForResult(a)
           \/ Finish \/ ReleaseBuriedActivityState \/ GoToSleep \/ OnEnter
  BY <1>2, CallKeepsBook
<1>3. CASE PopToReleasedParent \/ Wake \/ RestartToHome
  <2>1. /\ stackActivities' = <<>> /\ buriedStateReleased' = {} /\ pendingAction' = "None"
        /\ activityUsesWifi' = FALSE /\ currentActivity' = None
    BY <1>3 DEF PopToReleasedParent, Wake, RestartToHome, Restart
  <2> QED
    BY <2>1, EmptyBook
<1>4. CASE Setup \/ ReturnFromChild
  <2>1. stackActivities = <<>> /\ Buried = {} /\ currentActivity = None
    BY <1>4 DEF Setup, ReturnFromChild, IInv, ScreenInv, Buried
  <2>2. PICK a \in Fresh : /\ UNCHANGED <<stackActivities, buriedStateReleased, pendingAction>>
                           /\ currentActivity' = a /\ activityUsesWifi' = UsesWifi(a, Buried)
                           /\ UNCHANGED <<resultHandler, pendingActivity>>
    BY <1>4 DEF Setup, ReturnFromChild, LaunchAtOnce, pendVars
  <2>3. a # None /\ buriedStateReleased = {}
    BY <2>1, <2>2 DEF Fresh, BookInv
  <2>4. pendingAction # "Push"
    BY <2>1 DEF BookInv
  <2>5. activityUsesWifi' = (a \in Networked)
    BY <2>1, <2>2 DEF UsesWifi
  <2> QED
    BY <2>1, <2>2, <2>3, <2>4, <2>5, EmptyBook
<1>5. CASE PopLast
  <2>1. /\ stackActivities' = <<>> /\ currentActivity' = None /\ activityUsesWifi' = FALSE
        /\ pendingAction' = "None" /\ stackActivities = <<>>
        /\ buriedStateReleased' = buriedStateReleased \ {currentActivity}
    BY <1>5 DEF PopLast
  <2>2. buriedStateReleased' = {}
    BY <2>1 DEF BookInv, Buried
  <2> QED
    BY <2>1, <2>2, EmptyBook
<1>6. CASE Replace
  <2>1. /\ stackActivities' = <<>> /\ buriedStateReleased' = {} /\ pendingAction' = "None"
        /\ currentActivity' = pendingActivity
        /\ activityUsesWifi' = (pendingActivity \in Networked)
    BY <1>6 DEF Replace, UsesWifi
  <2>2. pendingActivity # None
    BY <1>6 DEF Replace, IInv, PendingInv
  <2> QED
    BY <2>1, <2>2, EmptyBook
<1> QED
  BY <1>1, <1>2, <1>3, <1>4, <1>5, <1>6, PopKeepsBook, PushKeepsBook, StepCases

\* Released rows, result handlers and the radio's flag agree with the stack in every state.
THEOREM BookkeepingKept == Spec => []StackWellFormed
<1>1. Init => BookInv
  <2> SUFFICES ASSUME Init PROVE BookInv
    OBVIOUS
  <2>1. Buried = {} /\ OnStack = {}
    BY DEF Init, OnStack, Buried
  <2>2. HandlerAwaitsChild
    BY DEF Init, HandlerAwaitsChild
  <2>3. RadioFlagMatchesStack
    BY <2>1 DEF Init, RadioFlagMatchesStack
  <2> QED
    BY <2>1, <2>2, <2>3 DEF Init, BookInv
<1>2. IInv /\ BookInv => StackWellFormed
  <2> SUFFICES ASSUME IInv, BookInv PROVE StackWellFormed
    OBVIOUS
  <2>1. PendingHasActivity /\ OwnedOnce
    BY DEF IInv, PendingInv, ScreenInv, PendingHasActivity
  <2>2. ReleasedNeverShown
    BY ActivitiesAssumption DEF ReleasedNeverShown, BookInv, IInv, OwnedOnce, TypeOK, ScreenTypes
  <2> QED
    BY <2>1, <2>2 DEF StackWellFormed, BookInv
<1>3. IInv /\ BookInv /\ [Next]_vars => BookInv'
  BY BookKept
<1> QED
  BY <1>1, <1>2, <1>3, Invariance, PTL DEF Spec

----------------------------------------------------------------------------
(* The manager implements ScreenStack. *)

Nav == IF currentActivity = None THEN <<>> ELSE Append(stackActivities, currentActivity)

\* The render task's steps: a drawing of the top starts, ends, or neither.
LEMMA RenderMaps ==
  ASSUME IInv, RenderTask
  PROVE  Screens!StartDrawing \/ Screens!EndDrawing \/ UNCHANGED Screens!vars
<1>1. UNCHANGED <<currentActivity, stackActivities>>
  BY QuietKeepsScreens DEF stackVars
<1>2. CASE StartPass
  <2>1. passOn = None /\ passOn' = currentActivity /\ currentActivity # None
    BY <1>2 DEF StartPass, IInv, PassInv, LockInv
  <2>2. /\ Append(stackActivities, currentActivity) # <<>>
        /\ Append(stackActivities, currentActivity)
             [Len(Append(stackActivities, currentActivity))] = currentActivity
    BY DEF IInv, TypeOK, ScreenTypes
  <2> QED
    BY <1>1, <2>1, <2>2 DEF Screens!StartDrawing, Screens!Idle
<1>3. CASE ClearPassActive
  BY <1>1, <1>3 DEF ClearPassActive, IInv, PassInv, Screens!EndDrawing, Screens!Idle
<1>4. CASE ~StartPass /\ ~ClearPassActive
  <2>1. UNCHANGED passOn
    BY <1>4 DEF RenderTask, RenderStep, TakeNotification, NothingToDraw, RequestFromRender,
                RenderReturns, UnlockForWaveform, Relock, TailDone, WaveformOnly, WakeWaiter,
                passVars
  <2> QED
    BY <1>1, <2>1 DEF Screens!vars
<1> QED
  BY <1>2, <1>3, <1>4

\* The shown screens of the mapping are the activities on the stack.
LEMMA ShownOnStack ==
  ASSUME ScreenTypes, currentActivity # None
  PROVE  {Nav[i] : i \in DOMAIN Nav} = OnStack
<1>1. /\ Len(Nav) = Len(stackActivities) + 1 /\ DOMAIN Nav = 1..(Len(stackActivities) + 1)
      /\ Nav[Len(stackActivities) + 1] = currentActivity
      /\ \A i \in DOMAIN stackActivities : Nav[i] = stackActivities[i]
      /\ DOMAIN stackActivities = 1..Len(stackActivities) /\ Len(stackActivities) \in Nat
  BY DEF Nav, ScreenTypes
<1> QED
  BY <1>1 DEF OnStack, Buried

LEMMA StepMaps ==
  ASSUME IInv, [Next]_vars
  PROVE  [Screens!Next]_Screens!vars
<1> USE ActivitiesAssumption
<1>1. CASE RenderTask
  BY <1>1, RenderMaps DEF Screens!Next
<1>2. CASE \/ QuietCall \/ QuietLoop \/ Buttons \/ UNCHANGED vars
           \/ \E a \in Fresh : ReplaceActivity(a) \/ StartActivityForResult(a)
           \/ Finish \/ ReleaseBuriedActivityState \/ GoToSleep \/ OnEnter
  <2>1. UNCHANGED <<currentActivity, stackActivities>>
    BY <1>2, QuietKeepsScreens
       DEF ReplaceActivity, StartActivityForResult, Finish, ReleaseBuriedActivityState,
           GoToSleep, OnEnter, stackVars
  <2>2. UNCHANGED passOn
    <3>1. QuietCall => UNCHANGED passOn
      BY DEF QuietCall, RequestUpdate, RequestUpdateImmediate, RegisterWaiter,
             NotifyRenderAndWait, WaiterReturns, LockState, UnlockState, passVars
    <3>2. QuietLoop => UNCHANGED passOn
      BY DEF QuietLoop, EnterManagerLoop, LoopTop, MinuteTick, PaintBusyIndicator,
             BusyIndicatorDone, SkipBusyIndicator, TakeExclusive, KeepExclusive,
             RetryExclusive, CallbackReturns, NothingPending, ClearRequested, NotifyRender,
             NothingRequested, passVars
    <3> QED
      BY <1>2, <3>1, <3>2
         DEF Buttons, PressButton, ReleaseButton, vars, ReplaceActivity,
             StartActivityForResult, Finish, ReleaseBuriedActivityState, GoToSleep, OnEnter,
             passVars
  <2> QED
    BY <2>1, <2>2 DEF Screens!vars
<1>3. CASE Setup \/ ReturnFromChild
  <2>1. PICK a \in Fresh : currentActivity' = a /\ currentActivity = None
                           /\ UNCHANGED <<stackActivities, passOn>>
    BY <1>3 DEF Setup, ReturnFromChild, LaunchAtOnce, ScreenInv, IInv, passVars
  <2>2. a \in Activities /\ stackActivities = <<>> /\ passOn = None
    BY <2>1 DEF Fresh, IInv, ScreenInv, PassInv
  <2>3. Screens!Open(a)
    BY <2>1, <2>2 DEF Screens!Open, Screens!Idle, Screens!Shown
  <2> QED
    BY <2>2, <2>3 DEF Screens!Next
<1>4. CASE PopLast \/ PopToParent \/ Push \/ Replace
  <2>1. /\ passOn = None /\ passOn' = None
        /\ currentActivity \in Activities /\ currentActivity # None
        /\ stackActivities \in Seq(Activities)
    BY <1>4 DEF PopLast, PopToParent, Push, Replace, passVars, IInv, PassInv, ScreenInv,
                TypeOK, ScreenTypes
  <2>2. CASE PopLast
    <3>1. stackActivities = <<>> /\ currentActivity' = None
      BY <2>2 DEF PopLast
    <3>2. Append(stackActivities, currentActivity) # <<>>
          /\ SubSeq(Append(stackActivities, currentActivity), 1,
                    Len(Append(stackActivities, currentActivity)) - 1) = <<>>
      BY <2>1, <3>1
    <3>3. Screens!Back
      BY <2>1, <3>1, <3>2 DEF Screens!Back, Screens!Idle
    <3> QED
      BY <3>3 DEF Screens!Next
  <2>3. CASE PopToParent
    <3>1. /\ stackActivities # <<>> /\ currentActivity' = Parent /\ stackActivities' = BelowParent
          /\ Parent \in Activities /\ stackActivities = Append(BelowParent, Parent)
      BY <2>3, ParentSplit DEF PopToParent, IInv, TypeOK
    <3>2. Append(stackActivities, currentActivity) # <<>>
          /\ SubSeq(Append(stackActivities, currentActivity), 1,
                    Len(Append(stackActivities, currentActivity)) - 1) = stackActivities
      BY <2>1
    <3>3. Screens!Back
      BY <2>1, <3>1, <3>2 DEF Screens!Back, Screens!Idle
    <3> QED
      BY <3>3 DEF Screens!Next
  <2>4. CASE Push
    <3>1. /\ stackActivities' = Append(stackActivities, currentActivity)
          /\ currentActivity' = pendingActivity
          /\ pendingActivity \in Activities /\ pendingActivity # None
          /\ pendingActivity \notin OnStack
      BY <2>4 DEF Push, IInv, PendingInv, OwnedOnce, TypeOK, ScreenTypes
    <3>2. Screens!Open(pendingActivity)
      BY <2>1, <3>1, ShownOnStack
         DEF Screens!Open, Screens!Idle, Screens!Shown, Nav, IInv, TypeOK
    <3> QED
      BY <3>1, <3>2 DEF Screens!Next
  <2>5. CASE Replace
    <3>1. /\ stackActivities' = <<>> /\ currentActivity' = pendingActivity
          /\ pendingActivity \in Activities /\ pendingActivity # None
          /\ pendingActivity \notin OnStack
      BY <2>5 DEF Replace, IInv, PendingInv, OwnedOnce, TypeOK, ScreenTypes
    <3>2. Append(stackActivities', currentActivity') = <<pendingActivity>>
      BY <3>1
    <3>3. Screens!Replace(pendingActivity)
      BY <2>1, <3>1, <3>2, ShownOnStack
         DEF Screens!Replace, Screens!Idle, Screens!Shown, Nav, IInv, TypeOK
    <3> QED
      BY <3>1, <3>3 DEF Screens!Next
  <2> QED
    BY <1>4, <2>2, <2>3, <2>4, <2>5
<1>5. CASE PopToReleasedParent \/ Wake \/ RestartToHome
  BY <1>5 DEF PopToReleasedParent, Wake, RestartToHome, Restart, Screens!Restart, Screens!Next
<1> QED
  BY <1>1, <1>2, <1>3, <1>4, <1>5, StepCases

\* Whatever the two tasks do, the user sees one stack of screens, walked only between drawings.
THEOREM Refinement == Spec => ImplementsScreenStack
<1>1. Init => Screens!Init
  BY DEF Init, Screens!Init
<1> QED
  BY <1>1, StepMaps, Invariance, PTL DEF Spec, ImplementsScreenStack, Screens!Spec
=============================================================================
