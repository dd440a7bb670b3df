-------------------------- MODULE ActivityManager ---------------------------
(***************************************************************************)
(* src/activities/ActivityManager.{h,cpp}, Activity.cpp, RenderLock.h.     *)
(*                                                                         *)
(* One activity is the current screen; others wait below it on a stack.    *)
(* The Arduino loop task runs the current activity and carries out the     *)
(* transition it asked for (push, pop, replace).  The render task draws    *)
(* the current activity whenever it is notified.  Both meet at             *)
(* renderingMutex, at a task notification and at waitingTaskHandle.        *)
(*                                                                         *)
(* An activity object is a member of Activity: allocated when something    *)
(* makes a screen, free again once it is destroyed.                        *)
(***************************************************************************)
EXTENDS Integers, Sequences

CONSTANTS
    Home,      \* launcher objects (isHomeActivity)
    Panel,     \* frontlight panel objects (isFrontlightPanel)
    Sleep,     \* sleep screen objects
    Screen,    \* every other activity object
    Null,      \* an empty unique_ptr
    MaxStack   \* bound on the depth of the stack

Activity == Home \cup Panel \cup Sleep \cup Screen

ASSUME ActivityAssumption == Null \notin Activity
ASSUME StackAssumption == MaxStack \in Nat

VARIABLES
    current,          \* currentActivity
    stack,            \* stackActivities, the top last
    pendingAction, pendingActivity,
    handlers,         \* the activities whose resultHandler is set
    requestedUpdate,  \* an update is due at the end of this loop()
    notified,         \* the render task has a notification to take
    waiter,           \* waitingTaskHandle is set
    woken,            \* the loop task has a notification to take
    mutex,            \* who holds renderingMutex: "free", "loop" or "render"
    lpc,              \* where the loop task is
    inHandler,        \* the activity code that runs is a result handler
    sleeping,         \* this loop() was called by goToSleep
    rpc,              \* where the render task is
    drawing,          \* the activity the render task is drawing
    owed              \* ghost: the current screen asked for a draw not begun since

loopVars == <<lpc, inHandler, sleeping>>
renderVars == <<rpc, drawing>>
screens == <<current, stack, handlers>>
pending == <<pendingAction, pendingActivity>>
signals == <<requestedUpdate, notified, waiter, woken>>
vars == <<screens, pending, signals, mutex, loopVars, renderVars, owed>>

OnStack == {stack[i] : i \in 1..Len(stack)}
Live == ({current, pendingActivity} \cup OnStack) \ {Null}
Unused == Activity \ (Live \cup {drawing})

LoopSteps == {"top", "acting", "waitNotify", "waiting", "pending", "locked",
              "goHome", "notify", "asleep"}

TypeOK ==
    /\ current \in Activity \cup {Null}
    /\ stack \in Seq(Activity) /\ Len(stack) <= MaxStack
    /\ handlers \subseteq Activity
    /\ pendingAction \in {"None", "Push", "Pop", "Replace"}
    /\ pendingActivity \in Activity \cup {Null}
    /\ requestedUpdate \in BOOLEAN /\ notified \in BOOLEAN
    /\ waiter \in BOOLEAN /\ woken \in BOOLEAN
    /\ mutex \in {"free", "loop", "render"}
    /\ lpc \in LoopSteps /\ inHandler \in BOOLEAN /\ sleeping \in BOOLEAN
    /\ rpc \in {"wait", "lock", "draw", "wake"}
    /\ drawing \in Activity \cup {Null}
    /\ owed \in BOOLEAN

(* setup() routes to a first activity, which enters at once. *)
Init ==
    /\ current \in Home \cup Screen
    /\ stack = <<>> /\ handlers = {}
    /\ pendingAction = "None" /\ pendingActivity = Null
    /\ requestedUpdate = FALSE /\ notified = FALSE /\ waiter = FALSE /\ woken = FALSE
    /\ mutex = "free"
    /\ lpc = "top" /\ inHandler = FALSE /\ sleeping = FALSE
    /\ rpc = "wait" /\ drawing = Null
    /\ owed = FALSE

-----------------------------------------------------------------------------
(* The transitions an activity may ask for.  A later request replaces an   *)
(* earlier one that has not been carried out yet.  Every caller passes an  *)
(* activity: it tests what it allocated, or make_unique aborts.            *)

replaceActivity(a) == pendingAction' = "Replace" /\ pendingActivity' = a

pushActivity(a) == pendingAction' = "Push" /\ pendingActivity' = a

(* Mutation: the activity of an earlier request is left behind. *)
popKeepsPending == pendingAction' = "Pop" /\ UNCHANGED pendingActivity

popActivity == pendingAction' = "Pop" /\ pendingActivity' = Null

-----------------------------------------------------------------------------
(* Calls made while activity code runs on the loop task: in loop(), in     *)
(* onEnter(), in a result handler.                                         *)

Acting == lpc = "acting" /\ current \notin Sleep \cup {Null}

RequestUpdate ==
    /\ Acting
    /\ \/ requestedUpdate' = TRUE /\ UNCHANGED notified   \* at the end of this loop()
       \/ notified' = TRUE /\ UNCHANGED requestedUpdate   \* immediate
    /\ owed' = TRUE
    /\ UNCHANGED <<screens, pending, waiter, woken, mutex, loopVars, renderVars>>

AskReplace ==
    /\ Acting
    /\ \E a \in Unused \cap (Home \cup Screen) : replaceActivity(a)
    /\ UNCHANGED <<screens, signals, mutex, loopVars, renderVars, owed>>

(* startActivityForResult, or a plain pushActivity. *)
AskPush ==
    /\ Acting /\ Len(stack) < MaxStack
    /\ \E a \in Unused \cap Screen : pushActivity(a)
    /\ handlers' \in {handlers, handlers \cup {current}}
    /\ UNCHANGED <<current, stack, signals, mutex, loopVars, renderVars, owed>>

AskFinish ==
    /\ Acting
    /\ popActivity
    /\ UNCHANGED <<screens, signals, mutex, loopVars, renderVars, owed>>

(* RenderLock around state that render() reads. *)
TakeRenderLock ==
    /\ Acting /\ mutex = "free"
    /\ mutex' = "loop"
    /\ UNCHANGED <<screens, pending, signals, loopVars, renderVars, owed>>

GiveRenderLock ==
    /\ lpc = "acting" /\ mutex = "loop"
    /\ mutex' = "free"
    /\ UNCHANGED <<screens, pending, signals, loopVars, renderVars, owed>>

(* requestUpdateAndWait asserts that the caller holds no RenderLock. *)
WaitRegister ==
    /\ Acting /\ mutex # "loop" /\ ~waiter
    /\ waiter' = TRUE /\ lpc' = "waitNotify"
    /\ UNCHANGED <<screens, pending, requestedUpdate, notified, woken, mutex, inHandler, sleeping,
                   renderVars, owed>>

WaitNotify ==
    /\ lpc = "waitNotify"
    /\ notified' = TRUE /\ lpc' = "waiting" /\ owed' = TRUE
    /\ UNCHANGED <<screens, pending, requestedUpdate, waiter, woken, mutex, inHandler, sleeping,
                   renderVars>>

WaitReturn ==
    /\ lpc = "waiting" /\ woken
    /\ woken' = FALSE /\ lpc' = "acting"
    /\ UNCHANGED <<screens, pending, requestedUpdate, notified, waiter, mutex, inHandler, sleeping,
                   renderVars, owed>>

(* Mutation: a due update is drawn before the transition is looked at. *)
UpdateFirst == IF requestedUpdate THEN "notify" ELSE "pending"

AfterActivity == "pending"

(* loop() or onEnter() returns. *)
ActingReturns ==
    /\ lpc = "acting" /\ mutex # "loop" /\ ~inHandler
    /\ lpc' = AfterActivity
    /\ UNCHANGED <<screens, pending, signals, mutex, inHandler, sleeping, renderVars, owed>>

(* The popped activity's parent is drawn again. *)
Redraw == requestedUpdate' = TRUE /\ owed' = TRUE

(* A result handler returns: unless it asked for another transition the    *)
(* screen it ran on is drawn again.                                        *)
HandlerReturns ==
    /\ lpc = "acting" /\ mutex # "loop" /\ inHandler
    /\ lpc' = "pending" /\ inHandler' = FALSE
    /\ \/ pendingAction = "None" /\ Redraw
       \/ pendingAction # "None" /\ UNCHANGED <<requestedUpdate, owed>>
    /\ UNCHANGED <<screens, pending, notified, waiter, woken, mutex, sleeping, renderVars>>

ActivityCode ==
    \/ RequestUpdate \/ AskReplace \/ AskPush \/ AskFinish
    \/ TakeRenderLock \/ GiveRenderLock \/ WaitRegister

-----------------------------------------------------------------------------
(* ActivityManager::loop.                                                  *)

ReturnFromLoop == lpc' = IF sleeping THEN "asleep" ELSE "top"

(* Handled by the activity (which may finish itself) or a way home.  Both  *)
(* return before any pending transition is carried out.                    *)
HomeGesture ==
    /\ lpc = "top" /\ current \notin Home
    /\ \/ UNCHANGED pending
       \/ current \in Panel \cup Screen /\ popActivity
       \/ \E a \in Unused \cap Home : replaceActivity(a)
    /\ ReturnFromLoop
    /\ UNCHANGED <<screens, signals, mutex, inHandler, sleeping, renderVars, owed>>

PanelGesture ==
    /\ lpc = "top" /\ current \notin Panel /\ Len(stack) < MaxStack
    /\ \E a \in Unused \cap Panel : pushActivity(a)
    /\ ReturnFromLoop
    /\ UNCHANGED <<screens, signals, mutex, inHandler, sleeping, renderVars, owed>>

RunActivity ==
    /\ lpc = "top"
    /\ lpc' = "acting"
    /\ UNCHANGED <<screens, pending, signals, mutex, inHandler, sleeping, renderVars, owed>>

(* With Push or Replace and no pendingActivity the while loop spins.       *)
TransitionLock ==
    /\ lpc = "pending" /\ mutex = "free"
    /\ pendingAction = "Pop" \/ (pendingAction # "None" /\ pendingActivity # Null)
    /\ mutex' = "loop" /\ lpc' = "locked"
    /\ UNCHANGED <<screens, pending, signals, inHandler, sleeping, renderVars, owed>>

(* Mutation: popping the last activity leaves no screen. *)
StayWithoutScreen == "pending"

AfterLastPop == "goHome"

PopLast ==
    /\ lpc = "locked" /\ pendingAction = "Pop" /\ stack = <<>>
    /\ current' = Null /\ handlers' = handlers \ {current}
    /\ pendingAction' = "None"
    /\ mutex' = "free" /\ lpc' = AfterLastPop /\ owed' = FALSE
    /\ UNCHANGED <<stack, pendingActivity, signals, inHandler, sleeping, renderVars>>

(* goHome with no current activity launches at once, outside the lock.     *)
GoHomeNow ==
    /\ lpc = "goHome"
    /\ current' \in Unused \cap Home
    /\ lpc' = "acting"
    /\ UNCHANGED <<stack, handlers, pending, signals, mutex, inHandler, sleeping, renderVars,
                   owed>>

PopToParent ==
    /\ lpc = "locked" /\ pendingAction = "Pop" /\ stack # <<>>
    /\ current' = stack[Len(stack)]
    /\ stack' = SubSeq(stack, 1, Len(stack) - 1)
    /\ pendingAction' = "None" /\ mutex' = "free"
    /\ handlers' = handlers \ {current, current'}
    /\ \/ current' \in handlers       \* its resultHandler runs, moved out of it
          /\ lpc' = "acting" /\ inHandler' = TRUE /\ owed' = FALSE
          /\ UNCHANGED requestedUpdate
       \/ current' \notin handlers
          /\ lpc' = "pending" /\ Redraw /\ UNCHANGED inHandler
    /\ UNCHANGED <<pendingActivity, notified, waiter, woken, sleeping, renderVars>>

(* Mutation: the request that has been carried out stays pending. *)
RequestKept == UNCHANGED pendingAction

RequestDone == pendingAction' = "None"

Launch ==
    /\ lpc = "locked" /\ pendingAction \in {"Push", "Replace"}
    /\ \/ /\ pendingAction = "Replace"     \* onExit and destroy, the whole stack
          /\ stack' = <<>> /\ handlers' = {}
       \/ /\ pendingAction = "Push"
          /\ stack' = Append(stack, current) /\ UNCHANGED handlers
    /\ current' = pendingActivity
    /\ RequestDone /\ pendingActivity' = Null
    /\ mutex' = "free" /\ lpc' = "acting" /\ owed' = FALSE   \* onEnter follows, unlocked
    /\ UNCHANGED <<signals, inHandler, sleeping, renderVars>>

PendingDone ==
    /\ lpc = "pending" /\ pendingAction = "None"
    /\ lpc' = "notify"
    /\ UNCHANGED <<screens, pending, signals, mutex, inHandler, sleeping, renderVars, owed>>

FlushUpdate ==
    /\ lpc = "notify"
    /\ notified' = (notified \/ requestedUpdate) /\ requestedUpdate' = FALSE
    /\ ReturnFromLoop
    /\ UNCHANGED <<screens, pending, waiter, woken, mutex, inHandler, sleeping, renderVars, owed>>

-----------------------------------------------------------------------------
(* The main loop, between two calls of ActivityManager::loop.              *)

(* The battery icon: USB was plugged or unplugged. *)
UsbChanged ==
    /\ lpc = "top" /\ ~sleeping
    /\ requestedUpdate' = TRUE /\ owed' = TRUE
    /\ UNCHANGED <<screens, pending, notified, waiter, woken, mutex, loopVars, renderVars>>

goToSleep ==
    /\ lpc = "top" /\ ~sleeping
    /\ \E a \in Unused \cap Sleep : replaceActivity(a)
    /\ sleeping' = TRUE
    /\ UNCHANGED <<screens, signals, mutex, lpc, inHandler, renderVars, owed>>

(* Waking from deep sleep is a chip reset: setup() runs again. *)
Reset ==
    /\ lpc = "asleep"
    /\ current' \in Home \cup Screen /\ stack' = <<>> /\ handlers' = {}
    /\ pendingAction' = "None" /\ pendingActivity' = Null
    /\ requestedUpdate' = FALSE /\ notified' = FALSE /\ waiter' = FALSE /\ woken' = FALSE
    /\ mutex' = "free"
    /\ lpc' = "top" /\ inHandler' = FALSE /\ sleeping' = FALSE
    /\ rpc' = "wait" /\ drawing' = Null
    /\ owed' = FALSE

LoopTask ==
    \/ ActivityCode \/ WaitNotify \/ WaitReturn \/ ActingReturns \/ HandlerReturns
    \/ HomeGesture \/ PanelGesture \/ RunActivity
    \/ TransitionLock \/ PopLast \/ GoHomeNow \/ PopToParent \/ Launch
    \/ PendingDone \/ FlushUpdate
    \/ UsbChanged \/ goToSleep \/ Reset

-----------------------------------------------------------------------------
(* renderTaskLoop.                                                         *)

RenderTake ==
    /\ rpc = "wait" /\ notified
    /\ notified' = FALSE /\ rpc' = "lock"
    /\ UNCHANGED <<screens, pending, requestedUpdate, waiter, woken, mutex, loopVars, drawing, owed>>

(* Mutation: currentActivity is drawn without renderingMutex. *)
RenderUnlocked == UNCHANGED mutex

RenderLocks == mutex = "free" /\ mutex' = "render"

RenderBegin ==
    /\ rpc = "lock" /\ RenderLocks
    /\ drawing' = current
    /\ \/ current # Null /\ rpc' = "draw" /\ owed' = FALSE
       \/ current = Null /\ rpc' = "wake" /\ UNCHANGED owed
    /\ UNCHANGED <<screens, pending, signals, loopVars>>

(* A render() may find more to draw and ask for another update. *)
RenderAsks ==
    /\ rpc = "draw"
    /\ requestedUpdate' = TRUE /\ owed' = TRUE
    /\ UNCHANGED <<screens, pending, notified, waiter, woken, mutex, loopVars, renderVars>>

(* Mutation: notifications that arrived during the draw are dropped. *)
NotificationsDropped == notified' = FALSE

NotificationsKept == UNCHANGED notified

RenderDone ==
    /\ rpc = "draw"
    /\ rpc' = "wake" /\ drawing' = Null
    /\ NotificationsKept
    /\ UNCHANGED <<screens, pending, requestedUpdate, waiter, woken, mutex, loopVars, owed>>

(* Mutation: the waiting task is woken but stays registered. *)
WaiterKept == UNCHANGED waiter

WaiterCleared == waiter' = FALSE

(* ~RenderLock follows the wake-up at the end of the iteration. *)
RenderWake ==
    /\ rpc = "wake"
    /\ woken' = (woken \/ waiter) /\ WaiterCleared
    /\ rpc' = "wait" /\ mutex' = "free"
    /\ UNCHANGED <<screens, pending, requestedUpdate, notified, loopVars, drawing, owed>>

RenderTask == RenderTake \/ RenderBegin \/ RenderAsks \/ RenderDone \/ RenderWake

Next == LoopTask \/ RenderTask

Spec == Init /\ [][Next]_vars

(* FreeRTOS runs both tasks and hands the mutex to whoever waits for it;   *)
(* activity code returns; gestures are edges, so they do not arrive on     *)
(* every tick.  Nothing is asked of the user.                              *)
Fairness ==
    /\ WF_vars(RenderTake) /\ SF_vars(RenderBegin) /\ WF_vars(RenderDone) /\ WF_vars(RenderWake)
    /\ WF_vars(WaitNotify) /\ WF_vars(WaitReturn)
    /\ WF_vars(GiveRenderLock) /\ SF_vars(ActingReturns) /\ SF_vars(HandlerReturns)
    /\ SF_vars(RunActivity)
    /\ SF_vars(TransitionLock) /\ WF_vars(PopLast \/ GoHomeNow \/ PopToParent \/ Launch)
    /\ WF_vars(PendingDone) /\ WF_vars(FlushUpdate) /\ WF_vars(Reset)

FairSpec == Spec /\ Fairness

-----------------------------------------------------------------------------
(* Properties                                                              *)

(* What the render task draws is the current activity, and it stays so     *)
(* until the draw is over: no transition destroys or covers a screen that  *)
(* is being drawn (renderTaskLoop, "avoid a TOCTOU race").                 *)
DrawnIsCurrent == rpc = "draw" => drawing = current

(* The pending action and the activity kept for it stay a pair, whatever   *)
(* request replaces one that is not carried out yet: a push or a replace   *)
(* has the activity it was given, and a finish() after it leaves none.     *)
PendingHasActivity == pendingAction \in {"Push", "Replace"} <=> pendingActivity # Null

(* There is a screen whenever activity code runs or the loop is between    *)
(* two calls: the last finish() of a stack leads home.                     *)
AlwaysAScreen == lpc \in {"top", "acting", "notify", "waiting"} => current # Null

(* The loop task's notification is only ever outstanding while it is in    *)
(* requestUpdateAndWait: a stray one would end the next wait at once.      *)
NoStrayWake == woken \/ waiter => lpc \in {"waitNotify", "waiting"}

(* Every request for an update is followed by a draw that begins after it, *)
(* unless the screen that asked is gone or covered by then.                *)
OwedIsDrawn == owed ~> ~owed

(* A transition that was asked for is carried out, or a later request      *)
(* replaces it that is, unless the device goes to sleep first: whatever the*)
(* activity, a wait inside it, gestures, updates and the render task's     *)
(* locking do meanwhile. One that goToSleep itself asks for, or finds, may *)
(* be lost to a gesture in its only call of loop() (see SleepScreenShown). *)
RequestServed == pendingAction # "None" /\ ~sleeping ~> pendingAction = "None" \/ sleeping

(* "sleep screen must be rendered immediately, the caller will go to sleep *)
(* right after this returns" (goToSleep). It does not hold.                *)
SleepScreenShown == lpc = "asleep" => current \in Sleep
=============================================================================
