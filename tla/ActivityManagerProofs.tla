---------------------- MODULE ActivityManagerProofs -------------------------
(***************************************************************************)
(* The safety invariants of ActivityManager, for every set of activities   *)
(* and every depth of the stack.  The argument: whoever draws or carries   *)
(* out a transition holds renderingMutex, so a drawn screen cannot change; *)
(* currentActivity is empty only between the last pop and the launch of    *)
(* the home screen; and a waiter is woken exactly once.                    *)
(***************************************************************************)
EXTENDS ActivityManager, SequenceTheorems, TLAPS

(* TypeOK in two parts: the flags, and everything else. *)
FlagsOK ==
    /\ requestedUpdate \in BOOLEAN /\ notified \in BOOLEAN
    /\ waiter \in BOOLEAN /\ woken \in BOOLEAN
    /\ inHandler \in BOOLEAN /\ sleeping \in BOOLEAN
    /\ owed \in BOOLEAN

ScreensOK ==
    /\ current \in Activity \cup {Null}
    /\ stack \in Seq(Activity) /\ Len(stack) <= MaxStack
    /\ handlers \subseteq Activity
    /\ pendingAction \in {"None", "Push", "Pop", "Replace"}
    /\ pendingActivity \in Activity \cup {Null}
    /\ mutex \in {"free", "loop", "render"}
    /\ lpc \in LoopSteps
    /\ rpc \in {"wait", "lock", "draw", "wake"}
    /\ drawing \in Activity \cup {Null}

(* renderingMutex is held exactly where the two tasks believe it is. *)
LockInv ==
    /\ mutex = "render" <=> rpc \in {"draw", "wake"}
    /\ mutex = "loop" => lpc \in {"acting", "locked"}
    /\ lpc = "locked" => mutex = "loop" /\ pendingAction # "None"

(* The screen: absent only while the way home is being launched. *)
ScreenInv ==
    /\ current = Null <=> lpc = "goHome"
    /\ rpc = "draw" => drawing = current /\ drawing # Null

PendingInv ==
    /\ PendingHasActivity
    /\ pendingAction = "Push" => Len(stack) < MaxStack

(* A waiter is registered or already woken, never both. *)
WaitInv == NoStrayWake /\ ~(woken /\ waiter)

IInv == FlagsOK /\ ScreensOK /\ LockInv /\ ScreenInv /\ PendingInv /\ WaitInv

-----------------------------------------------------------------------------
(* The first screen is current, nothing is pending and nobody waits. *)
LEMMA InitIInv == Init => IInv
<1> SUFFICES ASSUME Init PROVE IInv
  OBVIOUS
<1> USE ActivityAssumption, StackAssumption DEF Init, Activity
<1>1. FlagsOK
  BY Zenon DEF FlagsOK
<1>2. ScreensOK
  BY DEF ScreensOK, LoopSteps
<1>3. LockInv /\ ScreenInv /\ PendingInv /\ WaitInv
  BY DEF LockInv, ScreenInv, PendingInv, WaitInv, PendingHasActivity, NoStrayWake
<1> QED
  BY <1>1, <1>2, <1>3 DEF IInv

(* What activity code may call: only a request of its own changes what is  *)
(* pending, and only requestUpdateAndWait registers a waiter.              *)
LEMMA ActivityCodeKeepsIInv ==
    ASSUME IInv, RequestUpdate \/ AskReplace \/ AskPush \/ AskFinish
                 \/ TakeRenderLock \/ GiveRenderLock \/ WaitRegister
    PROVE  IInv'
<1> USE ActivityAssumption, StackAssumption DEF IInv, ScreensOK, LoopSteps, LockInv, ScreenInv,
        PendingInv, WaitInv, PendingHasActivity, NoStrayWake, Activity,
        vars, screens, pending, signals, loopVars, renderVars
<1>1. CASE RequestUpdate
  <2>1. FlagsOK'
    BY <1>1, Zenon DEF FlagsOK, RequestUpdate, Acting
  <2>2. ScreensOK' /\ LockInv' /\ ScreenInv' /\ PendingInv' /\ WaitInv'
    BY <1>1 DEF RequestUpdate, Acting
  <2> QED
    BY <2>1, <2>2
<1>2. CASE AskReplace
  BY <1>2 DEF FlagsOK, AskReplace, Acting, replaceActivity, Unused
<1>3. CASE AskPush
  BY <1>3 DEF FlagsOK, AskPush, Acting, pushActivity, Unused
<1>4. CASE AskFinish
  BY <1>4 DEF FlagsOK, AskFinish, Acting, popActivity
<1>5. CASE TakeRenderLock
  BY <1>5 DEF FlagsOK, TakeRenderLock, Acting
<1>6. CASE GiveRenderLock
  BY <1>6 DEF FlagsOK, GiveRenderLock
<1>7. CASE WaitRegister
  <2>1. FlagsOK'
    BY <1>7, Zenon DEF FlagsOK, WaitRegister, Acting
  <2>2. ScreensOK' /\ LockInv' /\ ScreenInv' /\ PendingInv' /\ WaitInv'
    BY <1>7 DEF WaitRegister, Acting
  <2> QED
    BY <2>1, <2>2
<1> QED
  BY <1>1, <1>2, <1>3, <1>4, <1>5, <1>6, <1>7

(* Waits end and activity code returns to the loop.                        *)
LEMMA ReturnKeepsIInv ==
    ASSUME IInv, WaitNotify \/ WaitReturn \/ ActingReturns \/ HandlerReturns
    PROVE  IInv'
<1> USE ActivityAssumption, StackAssumption DEF IInv, ScreensOK, LoopSteps, LockInv, ScreenInv,
        PendingInv, WaitInv, PendingHasActivity, NoStrayWake, Activity,
        vars, screens, pending, signals, loopVars, renderVars
<1>1. CASE WaitNotify
  BY <1>1 DEF FlagsOK, WaitNotify
<1>2. CASE WaitReturn
  <2>1. FlagsOK'
    BY <1>2, Zenon DEF FlagsOK, WaitReturn
  <2>2. ScreensOK' /\ LockInv' /\ ScreenInv' /\ PendingInv' /\ WaitInv'
    BY <1>2 DEF WaitReturn
  <2> QED
    BY <2>1, <2>2
<1>3. CASE ActingReturns
  BY <1>3 DEF FlagsOK, ActingReturns, AfterActivity
<1>4. CASE HandlerReturns
  <2>1. FlagsOK'
    BY <1>4, Zenon DEF FlagsOK, HandlerReturns, Redraw
  <2>2. ScreensOK' /\ LockInv' /\ ScreenInv' /\ PendingInv' /\ WaitInv'
    BY <1>4 DEF HandlerReturns, Redraw
  <2> QED
    BY <2>1, <2>2
<1> QED
  BY <1>1, <1>2, <1>3, <1>4

(* The render task draws only what is current, under the lock it holds.    *)
LEMMA RenderKeepsIInv ==
    ASSUME IInv, RenderTake \/ RenderBegin \/ RenderAsks \/ RenderDone
                 \/ RenderWake
    PROVE  IInv'
<1> USE ActivityAssumption, StackAssumption DEF IInv, ScreensOK, LoopSteps, LockInv, ScreenInv,
        PendingInv, WaitInv, PendingHasActivity, NoStrayWake, Activity,
        vars, screens, pending, signals, loopVars, renderVars
<1>1. CASE RenderTake
  <2>1. FlagsOK'
    BY <1>1, Zenon DEF FlagsOK, RenderTake
  <2>2. ScreensOK' /\ LockInv' /\ ScreenInv' /\ PendingInv' /\ WaitInv'
    BY <1>1 DEF RenderTake
  <2> QED
    BY <2>1, <2>2
<1>2. CASE RenderBegin
  <2>1. FlagsOK'
    BY <1>2, Zenon DEF FlagsOK, RenderBegin, RenderLocks
  <2>2. ScreensOK' /\ LockInv' /\ ScreenInv' /\ PendingInv' /\ WaitInv'
    BY <1>2 DEF RenderBegin, RenderLocks
  <2> QED
    BY <2>1, <2>2
<1>3. CASE RenderAsks
  BY <1>3 DEF FlagsOK, RenderAsks
<1>4. CASE RenderDone
  BY <1>4 DEF FlagsOK, RenderDone, NotificationsKept
<1>5. CASE RenderWake
  <2>1. FlagsOK'
    BY <1>5, Zenon DEF FlagsOK, RenderWake, WaiterCleared
  <2>2. (woken' => woken \/ waiter) /\ ~waiter' /\ UNCHANGED lpc
    BY <1>5, Zenon DEF RenderWake, WaiterCleared, loopVars
  <2>3. WaitInv'
    BY <2>2
  <2>4. ScreensOK' /\ LockInv' /\ ScreenInv' /\ PendingInv'
    BY <1>5 DEF RenderWake
  <2> QED
    BY <2>1, <2>3, <2>4
<1> QED
  BY <1>1, <1>2, <1>3, <1>4, <1>5

(* Gestures, the tick of the current activity, sleep and the reset after it. *)
LEMMA TickKeepsIInv ==
    ASSUME IInv, HomeGesture \/ PanelGesture \/ RunActivity \/ UsbChanged
                 \/ goToSleep \/ Reset
    PROVE  IInv'
<1> USE ActivityAssumption, StackAssumption DEF IInv, ScreensOK, LoopSteps, LockInv, ScreenInv,
        PendingInv, WaitInv, PendingHasActivity, NoStrayWake, Activity,
        vars, screens, pending, signals, loopVars, renderVars
<1>1. CASE HomeGesture
  BY <1>1 DEF FlagsOK, HomeGesture, popActivity, replaceActivity, Unused, ReturnFromLoop
<1>2. CASE PanelGesture
  BY <1>2 DEF FlagsOK, PanelGesture, pushActivity, Unused, ReturnFromLoop
<1>3. CASE RunActivity
  BY <1>3 DEF FlagsOK, RunActivity
<1>4. CASE UsbChanged
  BY <1>4 DEF FlagsOK, UsbChanged
<1>5. CASE goToSleep
  BY <1>5 DEF FlagsOK, goToSleep, replaceActivity, Unused
<1>6. CASE Reset
  <2>1. FlagsOK'
    BY <1>6, Zenon DEF FlagsOK, Reset
  <2>2. ScreensOK' /\ LockInv' /\ ScreenInv' /\ PendingInv' /\ WaitInv'
    BY <1>6 DEF Reset
  <2> QED
    BY <2>1, <2>2
<1> QED
  BY <1>1, <1>2, <1>3, <1>4, <1>5, <1>6

(* A transition owns the lock while it changes the screen.                 *)
LEMMA TransitionKeepsIInv ==
    ASSUME IInv, TransitionLock \/ PopLast \/ GoHomeNow \/ PopToParent
                 \/ Launch \/ PendingDone \/ FlushUpdate
    PROVE  IInv'
<1> USE ActivityAssumption, StackAssumption DEF IInv, ScreensOK, LoopSteps, LockInv, ScreenInv,
        PendingInv, WaitInv, PendingHasActivity, NoStrayWake, Activity,
        vars, screens, pending, signals, loopVars, renderVars
<1>1. CASE TransitionLock
  BY <1>1 DEF FlagsOK, TransitionLock
<1>2. CASE PopLast
  BY <1>2 DEF FlagsOK, PopLast, AfterLastPop
<1>3. CASE GoHomeNow
  BY <1>3 DEF FlagsOK, GoHomeNow, Unused
<1>4. CASE PopToParent
  <2>1. FlagsOK'
    BY <1>4, Zenon DEF FlagsOK, PopToParent, Redraw
  <2>2. ScreensOK' /\ LockInv' /\ ScreenInv' /\ PendingInv' /\ WaitInv'
    BY <1>4 DEF PopToParent, Redraw
  <2> QED
    BY <2>1, <2>2
<1>5. CASE Launch
  <2>1. FlagsOK'
    BY <1>5, Zenon DEF FlagsOK, Launch
  <2>2. current \in Activity /\ pendingActivity \in Activity
    BY <1>5 DEF Launch
  <2>3. stack' \in Seq(Activity) /\ Len(stack') <= MaxStack
    <3>1. CASE pendingAction = "Replace"
      BY <3>1, <1>5 DEF Launch
    <3>2. CASE pendingAction = "Push"
      <4>1. stack' = Append(stack, current)
        BY <3>2, <1>5 DEF Launch
      <4>2. stack' \in Seq(Activity) /\ Len(stack') = Len(stack) + 1
        BY <4>1, <2>2, AppendProperties
      <4> QED
        BY <4>2, <3>2
    <3> QED
      BY <3>1, <3>2, <1>5 DEF Launch
  <2>4. ScreensOK'
    BY <2>2, <2>3, <1>5 DEF Launch, RequestDone
  <2>5. LockInv' /\ ScreenInv' /\ PendingInv' /\ WaitInv'
    BY <2>2, <1>5 DEF Launch, RequestDone
  <2> QED
    BY <2>1, <2>4, <2>5
<1>6. CASE PendingDone
  BY <1>6 DEF FlagsOK, PendingDone
<1>7. CASE FlushUpdate
  <2>1. FlagsOK'
    BY <1>7, Zenon DEF FlagsOK, FlushUpdate, ReturnFromLoop
  <2>2. ScreensOK' /\ LockInv' /\ ScreenInv' /\ PendingInv' /\ WaitInv'
    BY <1>7 DEF FlushUpdate, ReturnFromLoop
  <2> QED
    BY <2>1, <2>2
<1> QED
  BY <1>1, <1>2, <1>3, <1>4, <1>5, <1>6, <1>7

(* Every step of either task keeps the invariant. *)
LEMMA NextKeepsIInv == IInv /\ [Next]_vars => IInv'
<1> SUFFICES ASSUME IInv, [Next]_vars PROVE IInv'
  OBVIOUS
<1>1. CASE ActivityCode
  BY <1>1, ActivityCodeKeepsIInv DEF ActivityCode
<1>2. CASE WaitNotify \/ WaitReturn \/ ActingReturns \/ HandlerReturns
  BY <1>2, ReturnKeepsIInv
<1>3. CASE HomeGesture \/ PanelGesture \/ RunActivity \/ UsbChanged \/ goToSleep \/ Reset
  BY <1>3, TickKeepsIInv
<1>4. CASE \/ TransitionLock \/ PopLast \/ GoHomeNow \/ PopToParent \/ Launch
           \/ PendingDone \/ FlushUpdate
  BY <1>4, TransitionKeepsIInv
<1>5. CASE RenderTask
  BY <1>5, RenderKeepsIInv DEF RenderTask
<1>6. CASE UNCHANGED vars
  BY <1>6 DEF IInv, FlagsOK, ScreensOK, LockInv, ScreenInv, PendingInv, PendingHasActivity,
              WaitInv, NoStrayWake, vars, screens, pending, signals, loopVars, renderVars
<1> QED
  BY <1>1, <1>2, <1>3, <1>4, <1>5, <1>6 DEF Next, LoopTask

(* So it holds of every reachable state. *)
LEMMA IInvAlways == Spec => []IInv
BY InitIInv, NextKeepsIInv, PTL DEF Spec

(* Every variable keeps to its type and the stack to its bound. *)
THEOREM TypeCorrect == Spec => []TypeOK
<1>1. IInv => TypeOK
  BY DEF IInv, FlagsOK, ScreensOK, TypeOK
<1> QED
  BY <1>1, IInvAlways, PTL

(* What the render task draws is the current activity until the draw is    *)
(* over: no push, pop, replace or sleep of the loop task takes it away.    *)
THEOREM NothingDrawnIsTakenAway == Spec => []DrawnIsCurrent
<1>1. IInv => DrawnIsCurrent
  BY DEF IInv, ScreenInv, DrawnIsCurrent
<1> QED
  BY <1>1, IInvAlways, PTL

(* A pending push or replace has the activity it was given, and a finish() *)
(* leaves none, whatever request replaces one that was not carried out yet.*)
(* That no caller gives an empty pointer, on which the loop would spin, is *)
(* how the requests are modelled and no conclusion.                        *)
THEOREM RequestsKeepTheirActivity == Spec => []PendingHasActivity
<1>1. IInv => PendingHasActivity
  BY DEF IInv, PendingInv
<1> QED
  BY <1>1, IInvAlways, PTL

(* However the stack is unwound, activity code never runs without a        *)
(* current activity.                                                       *)
THEOREM NeverWithoutAScreen == Spec => []AlwaysAScreen
<1>1. IInv => AlwaysAScreen
  BY DEF IInv, ScreenInv, AlwaysAScreen
<1> QED
  BY <1>1, IInvAlways, PTL

(* No notification of the loop task outlives the wait it belongs to. *)
THEOREM WakesBelongToWaits == Spec => []NoStrayWake
<1>1. IInv => NoStrayWake
  BY DEF IInv, WaitInv
<1> QED
  BY <1>1, IInvAlways, PTL
=============================================================================
