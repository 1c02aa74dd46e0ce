----------------------------- MODULE Application -----------------------------
(***************************************************************************)
(* One application: Runtime (initialized, failed, terminated), the         *)
(* applicationContext between the game and the native API, and the         *)
(* adapter's eventHandler, goUpdate and callback slots.                    *)
(*                                                                         *)
(* The native side calls in with an event, a frame or a menu selection;    *)
(* the game's code then runs in `stage`, makes any number of calls on its  *)
(* context, and returns, with an error where its callback may return one.  *)
(* Everything is on one thread, so nothing else is called in meanwhile.    *)
(* What the context hands to the native side (settings, a button callback, *)
(* menu items, a menu image) has to be taken back when the game ends.      *)
(***************************************************************************)
EXTENDS Naturals, FiniteSets

CONSTANTS
  Handles,       \* native menu item handles, reused once an item is removed
  Items,         \* bound on the menu items a game creates
  Bitmaps,       \* owned bitmaps of the menu's size
  ButtonEvents   \* BRIDGE_BUTTON_EVENT_CAPACITY

VARIABLES
  initialized, failed, stopped,  \* Runtime
  registered,         \* bridgeRegisterUpdate has been called
  stage,              \* whose code runs: "idle", "frame" or a game callback
  systemTerminating,  \* applicationContext.systemTerminating
  ended,              \* applicationContext.terminated
  autoLockDisabled,   \* applicationContext's copy of the auto-lock setting
  crankTracked, crankInitial,       \* crankSoundsTracked, crankSoundsInitial
  accelerometerEnabled,             \* applicationContext's copy
  settings,           \* the native settings
  atStart,            \* the native settings when the game started
  buttons,            \* the adapter's buttonCallback is set
  buttonQueue,        \* transitions waiting in the bridge
  created,            \* menu items created so far: applicationContext.menuItems
  handle,             \* item -> ownedMenuItem.handle
  menu,               \* native handle -> the callback id it was given
  menuCallbacks,      \* ids in the menuCallbacks registry
  image,              \* MenuImageState.image
  nativeImage,        \* the native menu image
  users,              \* bitmap -> menuImageUsers
  closedBitmaps              \* bitmaps that were closed and freed

lifecycle == <<initialized, failed, stopped, registered, stage, systemTerminating, ended>>
controls  == <<autoLockDisabled, crankTracked, crankInitial, settings, buttons, buttonQueue>>
motion    == <<accelerometerEnabled>>
menuVars  == <<created, handle, menu, menuCallbacks>>
images    == <<image, nativeImage, users, closedBitmaps>>
application == <<lifecycle, controls, motion, menuVars, images, atStart>>

Nothing == 0
MenuItems == 1 .. Items

(* A native handle and a bitmap are told apart from none: the adapter      *)
(* takes handle 0 for an item that could not be added                      *)
(* (simulator.go.tmpl:506), and no menu image is nil.                      *)
HandlesAreSome == Nothing \notin Handles /\ Nothing \notin Bitmaps /\ Items \in Nat /\ ButtonEvents \in Nat

GameStages == {"init", "update", "event", "terminate", "button", "menu"}
InGame == stage \in GameStages

ApplicationInit ==
  /\ initialized = FALSE /\ failed = FALSE /\ stopped = FALSE
  /\ registered = FALSE
  /\ stage = "idle"
  /\ systemTerminating = FALSE /\ ended = FALSE
  /\ autoLockDisabled = FALSE
  /\ crankTracked = FALSE /\ crankInitial = FALSE
  /\ accelerometerEnabled = FALSE
  /\ \E crank \in BOOLEAN :
       settings = [autoLock |-> FALSE, crank |-> crank, accelerometer |-> FALSE]
  /\ atStart = settings
  /\ buttons = FALSE
  /\ buttonQueue = 0
  /\ created = 0
  /\ handle = [i \in MenuItems |-> Nothing]
  /\ menu = [h \in Handles |-> Nothing]
  /\ menuCallbacks = {}
  /\ image = Nothing /\ nativeImage = Nothing
  /\ users = [b \in Bitmaps |-> 0]
  /\ closedBitmaps = {}

-----------------------------------------------------------------------------
(* System controls.  The gate closes when the termination begins.          *)

ControlsOpen == InGame /\ ~systemTerminating /\ ~ended

SetAutoLockDisabled(disabled) ==
  /\ ControlsOpen
  /\ settings' = [settings EXCEPT !.autoLock = disabled]
  /\ autoLockDisabled' = disabled
  /\ UNCHANGED <<lifecycle, crankTracked, crankInitial, buttons, buttonQueue, motion,
                 menuVars, images, atStart>>

(* The first call keeps the setting it found.                              *)
TrackLatest(disabled) ==
  /\ crankTracked' = TRUE
  /\ crankInitial' = settings.crank
TrackFirst(disabled) ==
  /\ crankTracked' = TRUE
  /\ crankInitial' = IF crankTracked THEN crankInitial ELSE settings.crank

SetCrankSoundsDisabled(disabled) ==
  /\ ControlsOpen
  /\ settings' = [settings EXCEPT !.crank = disabled]
  /\ TrackFirst(disabled)
  /\ UNCHANGED <<lifecycle, autoLockDisabled, buttons, buttonQueue, motion, menuVars, images,
                 atStart>>

(* bridgeSetButtonCallback empties the queue whichever callback it sets. *)
SetButtonCallback(on) ==
  /\ ControlsOpen
  /\ buttons' = on
  /\ buttonQueue' = 0
  /\ UNCHANGED <<lifecycle, autoLockDisabled, crankTracked, crankInitial, settings, motion,
                 menuVars, images, atStart>>

(* The menu image retains its bitmap: the count of its users keeps the     *)
(* bitmap from being closed.                                               *)
ReplaceUncounted(b) == users
ReplaceKeepsOld(b) == [c \in Bitmaps |-> users[c] + (IF c = b THEN 1 ELSE 0)]
Replace(b) ==
  IF image = b THEN users
  ELSE [c \in Bitmaps |-> users[c] + (IF c = b THEN 1 ELSE 0) - (IF c = image THEN 1 ELSE 0)]

Cleared == [c \in Bitmaps |-> IF c = image THEN users[c] - 1 ELSE users[c]]

SetMenuImage(b) ==
  /\ ControlsOpen
  /\ b \notin closedBitmaps
  /\ users' = Replace(b)
  /\ image' = b
  /\ nativeImage' = b
  /\ UNCHANGED <<lifecycle, controls, motion, menuVars, closedBitmaps, atStart>>

ClearMenuImage ==
  /\ ControlsOpen
  /\ nativeImage' = Nothing
  /\ users' = Cleared
  /\ image' = Nothing
  /\ UNCHANGED <<lifecycle, controls, motion, menuVars, closedBitmaps, atStart>>

CloseBitmap(b) ==
  /\ InGame
  /\ b \notin closedBitmaps
  /\ users[b] = 0
  /\ closedBitmaps' = closedBitmaps \cup {b}
  /\ UNCHANGED <<lifecycle, controls, motion, menuVars, image, nativeImage, users, atStart>>

-----------------------------------------------------------------------------
(* Calls that stay open while the game handles its termination.            *)

SetAccelerometerEnabled(enabled) ==
  /\ InGame
  /\ settings' = [settings EXCEPT !.accelerometer = enabled]
  /\ accelerometerEnabled' = enabled
  /\ UNCHANGED <<lifecycle, autoLockDisabled, crankTracked, crankInitial, buttons, buttonQueue,
                 menuVars, images, atStart>>

(* addMenuItem: a full native menu refuses, and the id is forgotten. *)
AddMenuItem ==
  /\ InGame
  /\ created < Items
  /\ \E h \in Handles :
       /\ menu[h] = Nothing
       /\ created' = created + 1
       /\ handle' = [handle EXCEPT ![created + 1] = h]
       /\ menu' = [menu EXCEPT ![h] = created + 1]
       /\ menuCallbacks' = menuCallbacks \cup {created + 1}
  /\ UNCHANGED <<lifecycle, controls, motion, images, atStart>>

(* ownedMenuItem.Remove: the handle is forgotten, because the native side  *)
(* may give it to another item.                                            *)
KeptHandles(removed) == handle
ForgottenHandles(removed) == [i \in MenuItems |-> IF i \in removed THEN Nothing ELSE handle[i]]

RemoveItems(removed) ==
  LET handles == {handle[i] : i \in removed} \ {Nothing}
  IN  /\ menu' = [h \in Handles |-> IF h \in handles THEN Nothing ELSE menu[h]]
      /\ menuCallbacks' = menuCallbacks \ {menu[h] : h \in handles}
      /\ handle' = ForgottenHandles(removed)
      /\ UNCHANGED created

RemoveMenuItem(i) ==
  /\ InGame
  /\ i <= created
  /\ RemoveItems({i})
  /\ UNCHANGED <<lifecycle, controls, motion, images, atStart>>

-----------------------------------------------------------------------------
(* eventHandler. *)

StoppedByFailure == failed
Stopped == failed \/ stopped

Listening == stage = "idle" /\ ~Stopped

EventInit ==
  /\ Listening
  /\ ~initialized
  /\ registered' = TRUE
  /\ stage' = "init"
  /\ UNCHANGED <<initialized, failed, stopped, systemTerminating, ended, controls, motion,
                 menuVars, images, atStart>>

(* Pause, resume, lock, unlock, low power and the mirror events. *)
EventOther ==
  /\ Listening
  /\ initialized
  /\ stage' = "event"
  /\ UNCHANGED <<initialized, failed, stopped, registered, systemTerminating, ended,
                 controls, motion, menuVars, images, atStart>>

(* beginSystemTermination, before the game hears of it. *)
EventTerminate ==
  /\ Listening
  /\ initialized
  /\ stage' = "terminate"
  /\ systemTerminating' = TRUE
  /\ buttons' = FALSE
  /\ buttonQueue' = 0
  /\ nativeImage' = Nothing
  /\ users' = Cleared
  /\ image' = Nothing
  /\ autoLockDisabled' = FALSE
  /\ settings' = [settings EXCEPT
                    !.autoLock = IF autoLockDisabled THEN FALSE ELSE @,
                    !.crank = IF crankTracked THEN crankInitial ELSE @]
  /\ crankTracked' = FALSE
  /\ UNCHANGED <<initialized, failed, stopped, registered, ended, crankInitial, motion,
                 menuVars, closedBitmaps, atStart>>

ReturnInit ==
  /\ stage = "init"
  /\ stage' = "idle"
  /\ \E ok \in BOOLEAN : initialized' = ok /\ failed' = ~ok
  /\ UNCHANGED <<stopped, registered, systemTerminating, ended, controls, motion, menuVars,
                 images, atStart>>

ReturnEvent ==
  /\ stage = "event"
  /\ stage' = "idle"
  /\ failed' \in BOOLEAN
  /\ UNCHANGED <<initialized, stopped, registered, systemTerminating, ended, controls,
                 motion, menuVars, images, atStart>>

(* The context cleans up whether the handler returned an error or not. *)
ReturnTerminate ==
  /\ stage = "terminate"
  /\ stage' = "idle"
  /\ ended' = TRUE
  /\ \E ok \in BOOLEAN : stopped' = ok /\ failed' = ~ok
  /\ settings' = [settings EXCEPT !.accelerometer = IF accelerometerEnabled THEN FALSE ELSE @]
  /\ accelerometerEnabled' = FALSE
  /\ RemoveItems(1 .. created)
  /\ UNCHANGED <<initialized, registered, systemTerminating, autoLockDisabled, crankTracked,
                 crankInitial, buttons, buttonQueue, images, atStart>>

-----------------------------------------------------------------------------
(* Native callbacks into the bridge and the adapter. *)

(* bridgeButtonCallback drops the newest transition when its queue is full. *)
ButtonPressed ==
  /\ stage = "idle"
  /\ buttons
  /\ buttonQueue < ButtonEvents
  /\ buttonQueue' = buttonQueue + 1
  /\ UNCHANGED <<lifecycle, autoLockDisabled, crankTracked, crankInitial, settings, buttons,
                 motion, menuVars, images, atStart>>

(* goMenuCallback: the id that the native item was given is looked up. *)
MenuSelected(h) ==
  /\ stage = "idle"
  /\ menu[h] \in menuCallbacks
  /\ stage' = "menu"
  /\ UNCHANGED <<initialized, failed, stopped, registered, systemTerminating, ended,
                 controls, motion, menuVars, images, atStart>>

ReturnMenu ==
  /\ stage = "menu"
  /\ stage' = "idle"
  /\ UNCHANGED <<initialized, failed, stopped, registered, systemTerminating, ended,
                 controls, motion, menuVars, images, atStart>>

-----------------------------------------------------------------------------
(* goUpdate. *)

StageOnly(from, to) ==
  /\ stage = from
  /\ stage' = to
  /\ UNCHANGED <<initialized, failed, stopped, registered, systemTerminating, ended,
                 motion, menuVars, images, atStart>>

BeginFrame == registered /\ StageOnly("idle", "frame") /\ UNCHANGED controls

PollButton ==
  /\ StageOnly("frame", "button")
  /\ buttons
  /\ buttonQueue > 0
  /\ buttonQueue' = buttonQueue - 1
  /\ UNCHANGED <<autoLockDisabled, crankTracked, crankInitial, settings, buttons>>

ReturnButton == StageOnly("button", "frame") /\ UNCHANGED controls

ButtonsPolled == ~buttons \/ buttonQueue = 0

Update ==
  /\ ButtonsPolled
  /\ ~Stopped /\ initialized
  /\ StageOnly("frame", "update")
  /\ UNCHANGED controls

UpdateRefused ==
  /\ ButtonsPolled
  /\ Stopped \/ ~initialized
  /\ StageOnly("frame", "idle")
  /\ UNCHANGED controls

ReturnUpdate ==
  /\ stage = "update"
  /\ stage' = "idle"
  /\ failed' \in BOOLEAN
  /\ UNCHANGED <<initialized, stopped, registered, systemTerminating, ended, controls,
                 motion, menuVars, images, atStart>>

-----------------------------------------------------------------------------
GameCall ==
  \/ \E on \in BOOLEAN :
       \/ SetAutoLockDisabled(on)
       \/ SetCrankSoundsDisabled(on)
       \/ SetButtonCallback(on)
       \/ SetAccelerometerEnabled(on)
  \/ \E b \in Bitmaps : SetMenuImage(b) \/ CloseBitmap(b)
  \/ ClearMenuImage
  \/ AddMenuItem
  \/ \E i \in MenuItems : RemoveMenuItem(i)

Event == EventInit \/ EventOther \/ EventTerminate \/ ReturnInit \/ ReturnEvent \/ ReturnTerminate

FrameStep == BeginFrame \/ PollButton \/ ReturnButton \/ Update \/ UpdateRefused \/ ReturnUpdate

ApplicationNext ==
  \/ GameCall
  \/ Event
  \/ FrameStep
  \/ ButtonPressed
  \/ \E h \in Handles : MenuSelected(h)
  \/ ReturnMenu

ApplicationSpec == ApplicationInit /\ [][ApplicationNext]_application

-----------------------------------------------------------------------------
ApplicationTypeOK ==
  /\ initialized \in BOOLEAN /\ failed \in BOOLEAN /\ stopped \in BOOLEAN
  /\ registered \in BOOLEAN
  /\ stage \in GameStages \cup {"idle", "frame"}
  /\ systemTerminating \in BOOLEAN /\ ended \in BOOLEAN
  /\ autoLockDisabled \in BOOLEAN
  /\ crankTracked \in BOOLEAN /\ crankInitial \in BOOLEAN
  /\ accelerometerEnabled \in BOOLEAN
  /\ settings \in [autoLock : BOOLEAN, crank : BOOLEAN, accelerometer : BOOLEAN]
  /\ atStart \in [autoLock : BOOLEAN, crank : BOOLEAN, accelerometer : BOOLEAN]
  /\ buttons \in BOOLEAN
  /\ buttonQueue \in 0 .. ButtonEvents
  /\ created \in 0 .. Items
  /\ handle \in [MenuItems -> Handles \cup {Nothing}]
  /\ menu \in [Handles -> 0 .. Items]
  /\ menuCallbacks \in SUBSET MenuItems
  /\ image \in Bitmaps \cup {Nothing}
  /\ nativeImage \in Bitmaps \cup {Nothing}
  /\ users \in [Bitmaps -> 0 .. 1]
  /\ closedBitmaps \in SUBSET Bitmaps

(* playdate/system_control.go:22: while the game handles its termination,  *)
(* and after it, its settings are restored, its button callback is gone    *)
(* and no menu image is retained, whatever the handler calls.              *)
ControlsRestored ==
  systemTerminating =>
    /\ settings.autoLock = atStart.autoLock
    /\ settings.crank = atStart.crank
    /\ ~buttons
    /\ nativeImage = Nothing
    /\ \A b \in Bitmaps : users[b] = 0

(* API.md, "System integration": once the game has been terminated nothing *)
(* of it is left on the native side, what its termination handler added    *)
(* included, and also when that handler returned an error.                 *)
MenuAndMotionEnded ==
  ended =>
    /\ settings = atStart
    /\ \A h \in Handles : menu[h] = Nothing
    /\ menuCallbacks = {}

(* menu.go:70: each native item belongs to one item of the game and calls  *)
(* that item's callback; removing an item twice, or at termination after   *)
(* its handle was given to another item, does not remove the other.        *)
MenuItemsOwned ==
  /\ \A i \in MenuItems : handle[i] # Nothing => menu[handle[i]] = i
  /\ \A h \in Handles : menu[h] # Nothing => handle[menu[h]] = h
  /\ menuCallbacks = {menu[h] : h \in Handles} \ {Nothing}

(* API.md, "SetMenuImage ... retains that bitmap": the native menu never   *)
(* shows a bitmap that has been freed.                                     *)
MenuImageAlive == nativeImage # Nothing => nativeImage \notin closedBitmaps

(* The four together: what a game hands to the native side is its own      *)
(* while it runs and is taken back when it ends.                           *)
NothingLeftBehind ==
  /\ ControlsRestored
  /\ MenuAndMotionEnded
  /\ MenuItemsOwned
  /\ MenuImageAlive

CodeStarts == InGame' /\ stage' # stage

(* After the system has terminated the game none of its code is started    *)
(* again: neither a frame, a button transition or a menu selection that    *)
(* was already waiting, nor a later event.                                 *)
SilentAfterTermination == [][CodeStarts => ~ended]_application

(* API.md:265, "An error from a game callback permanently stops that       *)
(* application instance": no code of the game is started after an error.   *)
FailureStops == [][CodeStarts => ~failed]_application
=============================================================================
