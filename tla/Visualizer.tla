----------------------------- MODULE Visualizer -----------------------------
(***************************************************************************)
(* A visualizer (modules/visualizer/visualizer.cpp), as it is built for    *)
(* everything but Windows: the mainloop opens the window and handles its   *)
(* events, a thread of its own draws.                                      *)
(*                                                                         *)
(* Actors: the mainloop (caerModuleSM with Init, Run, Reset and Exit), the *)
(* rendering thread, the configuration server's thread (puts, with the     *)
(* listener under the node's lock), and whoever sits before the screen and *)
(* moves, resizes and closes the window or presses keys in it.             *)
(*                                                                         *)
(* Containers are numbered as they come due for drawing. A window is the   *)
(* values of the settings it was made to show. What is drawn, the          *)
(* statistics, and keys that go to an event handler are left out; a        *)
(* renderer that draws nothing only skips the display of nothing new.      *)
(*                                                                         *)
(* Settings and data hardly depend on each other. So the initial state     *)
(* chooses a few ("watched") that clients, users and sources touch.        *)
(***************************************************************************)
EXTENDS Integers, Sequences, FiniteSets

CONSTANTS
  Watched,        \* the choices of settings (and of DataTransfer)
  RingSize,       \* of dataTransfer
  MaxContainers,  \* containers that come due
  MaxPuts,        \* settings clients put
  MaxActions,     \* things done to the window
  MaxStarts       \* times the module is started

SizeKeys     == {"showStatistics", "zoomFactor"}
PositionKeys == {"windowPositionX", "windowPositionY"}
WindowKeys   == SizeKeys \cup PositionKeys
Subsampling  == "subsampleRendering"
Keys         == WindowKeys \cup {Subsampling}
DataTransfer == "dataTransfer"

ASSUME VisualizerAssumption ==
  /\ Watched \subseteq SUBSET (Keys \cup {DataTransfer})
  /\ RingSize \in Nat \ {0}
  /\ {MaxContainers, MaxPuts, MaxActions, MaxStarts} \subseteq Nat

Values(k) == IF k \in {Subsampling, "zoomFactor"} THEN {1, 2} ELSE {0, 1}

OffScreen == -1   \* a position left of or above the screen: out of range
Maximized == 0    \* a size that belongs to no zoom factor
None      == 0    \* no container

VARIABLES
  watched,        \* the choice; it does not change
  attribute,      \* the module's node
  running,        \* the module's flag, as its listener leaves it
  listening,      \* caerVisualizerConfigListener is registered
  at,             \* place of the mainloop and of the rendering thread
  rendering,      \* state->running
  windowResize, windowMove,
  showStatistics, \* state->showStatistics
  subsample,      \* packetSubsampleRendering
  count,          \* packetSubsampleCount
  x,              \* X coordinate a location update has read
  position,       \* what saveDisplayLocation has got
  window,         \* the window on the screen
  resized,        \* an event Resized waits to be polled
  transfer,       \* the ring-buffer
  held,           \* container the rendering thread has taken
  rendered,       \* last container given to the renderer
  newest,         \* last container that came due
  puts, actions, starts,
  missed,         \* history: settings put while Init ran, unheard
  moved,          \* history: moved by the user since it was put in place
  lastPlace,      \* history: where the window that Init opened last is
  lost,           \* history: containers dropped at a full ring-buffer, or
                  \* freed undrawn by Exit
  touched         \* history: settings put since its position was saved

settings == <<watched, attribute, running, listening, missed, touched>>
flags    == <<windowResize, windowMove, rendering>>
screen   == <<window, resized, moved, lastPlace>>
reads    == <<showStatistics, x, position>>
sampling == <<subsample, count>>
data     == <<transfer, held, rendered, newest, lost>>
bounds   == <<puts, actions, starts>>
vars == <<settings, flags, screen, reads, sampling, data, bounds, at>>

-----------------------------------------------------------------------------
(* The order in which each of the two goes through its places.             *)

\* Mutant: Exit saves the position while the thread may still change it.
SavesFirst ==
  <<"init", "statistics", "zoom", "x", "y", "start", "listen", "pass",
    "events", "container", "pass", "removeListener", "position", "saveX",
    "saveY", "stop", "join", "close", "stopped">>

MainOrder ==
  <<"init", "statistics", "zoom", "x", "y", "start", "listen", "pass",
    "events", "container", "pass", "removeListener", "stop", "join",
    "position", "saveX", "saveY", "close", "stopped">>

\* Mutant: the flag is cleared after the settings have been read.
ClearsLate ==
  <<"stateInit", "resetStatistics", "resetZoom", "loop",
    "take", "draw", "resize", "statistics", "zoom", "clearResize",
    "move", "clearMove", "x", "y", "loop">>

RenderOrder ==
  <<"stateInit", "resetStatistics", "resetZoom", "loop",
    "take", "draw", "resize", "clearResize", "statistics", "zoom",
    "move", "clearMove", "x", "y", "loop">>

Threads == {"main", "render"}

\* The place after p. (An order names "pass" and "loop" again where it
\* returns to them; what follows those two depends on a condition.)
After(order) ==
  [p \in {order[i] : i \in 1..Len(order) - 1} |->
     LET i == CHOOSE j \in 1..Len(order) : order[j] = p IN order[i + 1]]

Follows == [main |-> After(MainOrder), render |-> After(RenderOrder)]

Then(t, p) == Follows[t][p]

Goes(t, p) == at' = [at EXCEPT ![t] = p]

\* t is at p and goes on to the next place.
Passes(t, p) == at[t] = p /\ Goes(t, Then(t, p))

TypeOK ==
  /\ \A k \in Keys : attribute[k] \in Values(k)
  /\ at.main \in {MainOrder[i] : i \in 1..Len(MainOrder)}
  /\ at.render \in {RenderOrder[i] : i \in 1..Len(RenderOrder)} \cup {"ended"}
  /\ {running, listening, rendering, windowResize, windowMove, resized}
       \subseteq BOOLEAN
  /\ missed \subseteq Keys /\ touched \subseteq Keys
  /\ Len(transfer) =< RingSize
  /\ newest \in 0..MaxContainers
  /\ {held, rendered} \subseteq 0..newest /\ lost \subseteq 1..newest
  /\ subsample \in {0, 1, 2} /\ count \in {0, 1}

Init ==
  /\ watched \in Watched
  /\ attribute =
       [k \in Keys |-> IF k \in {Subsampling, "zoomFactor"} THEN 1 ELSE 0]
  /\ running = TRUE /\ listening = FALSE
  /\ at = [main |-> "stopped", render |-> "ended"]
  /\ rendering = FALSE /\ windowResize = FALSE /\ windowMove = FALSE
  /\ showStatistics = 0 /\ subsample = 0 /\ count = 0 /\ x = 0
  /\ position = [k \in PositionKeys |-> 0]
  /\ window = [k \in WindowKeys |-> 0]
  /\ resized = FALSE
  /\ transfer = <<>> /\ held = None /\ rendered = None /\ newest = 0
  /\ lost = {}
  /\ puts = 0 /\ actions = 0 /\ starts = 0
  /\ missed = {} /\ moved = FALSE /\ touched = {}
  /\ lastPlace = [k \in PositionKeys |-> 0]

-----------------------------------------------------------------------------
(* Settings                                                                *)

\* What the listener does with the new value v of k.
ConfigListener(k, v) ==
  /\ windowResize' = (windowResize \/ k \in SizeKeys)
  /\ windowMove' = (windowMove \/ k \in PositionKeys)
  /\ subsample' = IF k = Subsampling THEN v ELSE subsample
  /\ UNCHANGED showStatistics

Unheard ==
  UNCHANGED <<windowResize, windowMove, subsample, showStatistics>>

\* A put under the node's lock. The value that is there already, and one
\* out of range, change nothing and nobody hears of them.
PutAttribute(k, v) ==
  IF v \in Values(k) \ {attribute[k]}
  THEN /\ attribute' = [attribute EXCEPT ![k] = v]
       /\ IF listening THEN ConfigListener(k, v) ELSE Unheard
       /\ missed' = IF listening THEN missed \ {k} ELSE missed \cup {k}
  ELSE Unheard /\ UNCHANGED <<attribute, missed>>

\* A put by somebody else than the module that saves its position.
PutFromOutside(k, v) ==
  /\ PutAttribute(k, v)
  /\ touched' = IF v = attribute[k] THEN touched ELSE touched \cup {k}

ClientPut ==
  /\ puts < MaxPuts
  /\ puts' = puts + 1
  /\ \E k \in Keys \cap watched : \E v \in Values(k) : PutFromOutside(k, v)
  /\ UNCHANGED <<watched, running, listening, rendering, screen, x, position,
                 count, data, actions, starts, at>>

ClientStartsOrStops ==
  /\ puts < MaxPuts
  /\ puts' = puts + 1
  /\ running' = ~running
  /\ UNCHANGED <<watched, attribute, listening, missed, touched, flags, screen,
                 reads, sampling, data, actions, starts, at>>

-----------------------------------------------------------------------------
(* The window, as whoever uses it, or the window manager, changes it       *)

\* Before that its place is still to be set, and what is done to it lost.
IsOpen == at.main \notin {"stopped", "init", "statistics", "zoom", "x", "y"}

Use ==
  /\ IsOpen
  /\ actions < MaxActions
  /\ actions' = actions + 1
  /\ UNCHANGED <<settings, flags, reads, sampling, data, puts, starts, at>>

\* A move that comes when its position is being saved is too late for it.
MoveWindow ==
  /\ Use
  /\ \E k \in PositionKeys \cap watched, v \in {OffScreen, 0, 1} :
       /\ window' = [window EXCEPT ![k] = v]
       /\ lastPlace' = IF at.main \in {"saveX", "saveY", "close"} THEN lastPlace
                       ELSE [lastPlace EXCEPT ![k] = v]
  /\ moved' = TRUE
  /\ UNCHANGED resized

ResizeWindow ==
  /\ Use /\ "zoomFactor" \in watched
  /\ window' = [window EXCEPT !["zoomFactor"] = Maximized]
  /\ resized' = TRUE
  /\ UNCHANGED <<moved, lastPlace>>

-----------------------------------------------------------------------------
(* updateDisplaySize and updateDisplayLocation, for Init and for the       *)
(* rendering thread. Setting a new size makes an event Resized.            *)

ReadStatistics(t) ==
  /\ \/ Passes(t, "statistics")
     \/ t = "render" /\ Passes(t, "resetStatistics")
  /\ showStatistics' = attribute["showStatistics"]
  /\ UNCHANGED <<settings, flags, screen, x, position, sampling, data, bounds>>

SetSize(t) ==
  /\ \/ Passes(t, "zoom")
     \/ t = "render" /\ Passes(t, "resetZoom")
  /\ window' = [window EXCEPT !["showStatistics"] = showStatistics,
                              !["zoomFactor"] = attribute["zoomFactor"]]
  /\ resized' = (resized \/ window' # window)
  /\ UNCHANGED <<settings, flags, moved, lastPlace, reads, sampling, data,
                 bounds>>

ReadX(t) ==
  /\ Passes(t, "x")
  /\ x' = attribute["windowPositionX"]
  /\ UNCHANGED <<settings, flags, screen, showStatistics, position, sampling,
                 data, bounds>>

SetPosition(t) ==
  /\ Passes(t, "y")
  /\ LET y == attribute["windowPositionY"] IN
       /\ window' = [window EXCEPT !["windowPositionX"] = x,
                                   !["windowPositionY"] = y]
       /\ lastPlace' = IF t = "main" THEN lastPlace
                       ELSE [windowPositionX |-> x, windowPositionY |-> y]
  /\ moved' = FALSE
  /\ UNCHANGED <<settings, flags, resized, reads, sampling, data, bounds>>

-----------------------------------------------------------------------------
(* The mainloop                                                            *)

\* Init, up to the window: the module's memory is new.
BeginInit ==
  /\ at.main = "stopped" /\ running /\ starts < MaxStarts
  /\ starts' = starts + 1
  /\ Goes("main", "init")
  /\ missed' = {}
  /\ windowResize' = FALSE /\ windowMove' = FALSE /\ rendering' = FALSE
  /\ count' = 0 /\ showStatistics' = 0
  /\ UNCHANGED <<watched, attribute, running, listening, touched, screen, x,
                 position, subsample, data, puts, actions>>

LoadSubsampling ==
  /\ Passes("main", "init")
  /\ subsample' = attribute[Subsampling]
  /\ window' = [k \in WindowKeys |-> 0]
  /\ UNCHANGED <<settings, flags, resized, moved, lastPlace, reads, count,
                 data, bounds>>

StartThread ==
  /\ at.main = "start"
  /\ at' = [main |-> "listen", render |-> "stateInit"]
  /\ rendering' = TRUE
  /\ lastPlace' = [k \in PositionKeys |-> window[k]]
  /\ UNCHANGED <<settings, windowResize, windowMove, window, resized, moved,
                 reads, sampling, data, bounds>>

AddListener ==
  /\ Passes("main", "listen")
  /\ listening' = TRUE
  /\ UNCHANGED <<watched, attribute, running, missed, touched, flags, screen,
                 reads, sampling, data, bounds>>

\* caerModuleSM.
Pass ==
  /\ at.main = "pass"
  /\ Goes("main", IF running THEN "events" ELSE "removeListener")
  /\ UNCHANGED <<settings, flags, screen, reads, sampling, data, bounds>>

HandleResized ==
  /\ at.main = "events" /\ resized
  /\ resized' = FALSE
  /\ windowResize' = TRUE
  /\ UNCHANGED <<settings, windowMove, rendering, window, moved, lastPlace,
                 reads, sampling, data, bounds, at>>

HandleClosed ==
  /\ at.main = "events" /\ actions < MaxActions
  /\ actions' = actions + 1
  /\ running' = FALSE
  /\ UNCHANGED <<watched, attribute, listening, missed, touched, flags, screen,
                 reads, sampling, data, puts, starts, at>>

\* A key or the wheel gets a setting and puts its neighbour. With two values
\* that is any value, whatever a client puts in between.
HandleKey ==
  /\ at.main = "events" /\ actions < MaxActions
  /\ actions' = actions + 1
  /\ \E k \in watched \cap (SizeKeys \cup {Subsampling}) :
       \E v \in Values(k) : PutFromOutside(k, v)
  /\ UNCHANGED <<watched, running, listening, rendering, screen, x, position,
                 count, data, puts, starts, at>>

EventsHandled ==
  /\ Passes("main", "events") /\ ~resized
  /\ UNCHANGED <<settings, flags, screen, reads, sampling, data, bounds>>

IsFull == Len(transfer) = RingSize

\* Run with a container that has events: every Nth is due, and is copied if
\* there is room for it.
Run ==
  /\ Passes("main", "container")
  /\ DataTransfer \in watched /\ newest < MaxContainers
  /\ LET due == count + 1 >= subsample IN
       /\ count' = IF due THEN 0 ELSE count + 1
       /\ newest' = IF due THEN newest + 1 ELSE newest
       /\ transfer' = IF due /\ ~IsFull THEN Append(transfer, newest + 1)
                      ELSE transfer
       /\ lost' = IF due /\ IsFull THEN lost \cup {newest + 1} ELSE lost
  /\ UNCHANGED <<settings, flags, screen, reads, subsample, held, rendered,
                 bounds>>

RunWithoutData ==
  /\ Passes("main", "container")
  /\ UNCHANGED <<settings, flags, screen, reads, sampling, data, bounds>>

\* A source in the same pass has asked for a reset.
RunAndReset ==
  /\ Passes("main", "container")
  /\ count' = 0
  /\ UNCHANGED <<settings, flags, screen, reads, subsample, data, bounds>>

RemoveListener ==
  /\ Passes("main", "removeListener")
  /\ listening' = FALSE
  /\ UNCHANGED <<watched, attribute, running, missed, touched, flags, screen,
                 reads, sampling, data, bounds>>

StopThread ==
  /\ Passes("main", "stop")
  /\ rendering' = FALSE
  /\ UNCHANGED <<settings, windowResize, windowMove, screen, reads, sampling,
                 data, bounds>>

Join ==
  /\ Passes("main", "join")
  /\ at.render = "ended"
  /\ UNCHANGED <<settings, flags, screen, reads, sampling, data, bounds>>

GetPosition ==
  /\ Passes("main", "position")
  /\ position' = [k \in PositionKeys |-> window[k]]
  /\ touched' = {}
  /\ UNCHANGED <<watched, attribute, running, listening, missed, flags, screen,
                 showStatistics, x, sampling, data, bounds>>

SavePosition(p, k) ==
  /\ Passes("main", p)
  /\ PutAttribute(k, position[k])
  /\ UNCHANGED <<watched, running, listening, touched, rendering, screen, x,
                 position, count, data, bounds>>

\* The window goes, and what is left in the ring-buffer with it, undrawn.
CloseWindow ==
  /\ Passes("main", "close")
  /\ lost' = lost \cup {transfer[i] : i \in 1..Len(transfer)}
  /\ transfer' = <<>>
  /\ resized' = FALSE /\ moved' = FALSE
  /\ UNCHANGED <<settings, flags, window, lastPlace, reads, sampling, held,
                 rendered, newest, bounds>>

-----------------------------------------------------------------------------
(* The rendering thread                                                    *)

\* GLEW or the renderer fail: the thread ends, and nobody is told.
StateInitFails ==
  /\ at.render = "stateInit"
  /\ Goes("render", "ended")
  /\ UNCHANGED <<settings, flags, screen, reads, sampling, data, bounds>>

\* A renderer may ask for another size (caerVisualizerResetRenderSize).
StateInit ==
  /\ at.render = "stateInit"
  /\ \E p \in {"resetStatistics", "loop"} : Goes("render", p)
  /\ UNCHANGED <<settings, flags, screen, reads, sampling, data, bounds>>

Loop ==
  /\ at.render = "loop"
  /\ Goes("render", IF rendering THEN "take" ELSE "ended")
  /\ UNCHANGED <<settings, flags, screen, reads, sampling, data, bounds>>

\* Mutant: what comes after the first is thrown away.
TakeFirst ==
  /\ at.render = "take" /\ transfer # <<>>
  /\ held' = IF held = None THEN Head(transfer) ELSE held
  /\ transfer' = Tail(transfer)
  /\ UNCHANGED <<settings, flags, screen, reads, sampling, rendered, newest,
                 lost, bounds, at>>

\* Another container replaces the one that was taken before it.
TakeNext ==
  /\ at.render = "take" /\ transfer # <<>>
  /\ held' = Head(transfer)
  /\ transfer' = Tail(transfer)
  /\ UNCHANGED <<settings, flags, screen, reads, sampling, rendered, newest,
                 lost, bounds, at>>

TakeEnds ==
  /\ Passes("render", "take") /\ transfer = <<>>
  /\ UNCHANGED <<settings, flags, screen, reads, sampling, data, bounds>>

Draw ==
  /\ Passes("render", "draw")
  /\ rendered' = IF held = None THEN rendered ELSE held
  /\ held' = None
  /\ UNCHANGED <<settings, flags, screen, reads, sampling, transfer, newest,
                 lost, bounds>>

LoadResize ==
  /\ at.render = "resize"
  /\ Goes("render", IF windowResize THEN Then("render", "resize") ELSE "move")
  /\ UNCHANGED <<settings, flags, screen, reads, sampling, data, bounds>>

ClearResize ==
  /\ Passes("render", "clearResize")
  /\ windowResize' = FALSE
  /\ UNCHANGED <<settings, windowMove, rendering, screen, reads, sampling,
                 data, bounds>>

LoadMove ==
  /\ at.render = "move"
  /\ Goes("render", IF windowMove THEN Then("render", "move") ELSE "loop")
  /\ UNCHANGED <<settings, flags, screen, reads, sampling, data, bounds>>

ClearMove ==
  /\ Passes("render", "clearMove")
  /\ windowMove' = FALSE
  /\ UNCHANGED <<settings, windowResize, rendering, screen, reads, sampling,
                 data, bounds>>

-----------------------------------------------------------------------------
Update(t) == ReadStatistics(t) \/ SetSize(t) \/ ReadX(t) \/ SetPosition(t)

Mainloop ==
  \/ BeginInit \/ LoadSubsampling \/ Update("main") \/ StartThread
  \/ AddListener \/ Pass \/ HandleResized \/ HandleClosed \/ HandleKey
  \/ EventsHandled \/ Run \/ RunWithoutData \/ RunAndReset
  \/ RemoveListener \/ StopThread \/ Join \/ GetPosition
  \/ SavePosition("saveX", "windowPositionX")
  \/ SavePosition("saveY", "windowPositionY") \/ CloseWindow

RenderThread ==
  \/ StateInitFails \/ StateInit \/ Loop \/ TakeNext \/ TakeEnds \/ Draw
  \/ LoadResize \/ ClearResize \/ LoadMove \/ ClearMove \/ Update("render")

Next ==
  \/ Mainloop \/ RenderThread
  \/ ClientPut \/ ClientStartsOrStops \/ MoveWindow \/ ResizeWindow

\* The operating system runs both threads. What clients and users do is
\* never fair, and neither is the arrival of data.
Fairness == WF_vars(Mainloop) /\ WF_vars(RenderThread)

Spec == Init /\ [][Next]_vars /\ Fairness

-----------------------------------------------------------------------------
(* Properties                                                              *)

\* The visualizer runs and its thread draws.
IsUp == listening /\ rendering /\ at.render # "ended"

\* A setting the listener has heard gets to where it is used: the window has
\* the size and the place the tree says (unless the user has moved it since),
\* and the mainloop the rate. Each flag is shared by two settings, and is
\* read, cleared and acted upon in separate steps.
InUse(k) ==
  IF k = Subsampling THEN subsample = attribute[k] ELSE window[k] = attribute[k]

WindowFollowsSettings ==
  \A k \in Keys :
    <>[](IsUp /\ k \notin missed /\ (k \in PositionKeys => ~moved))
      => []<>InUse(k)

\* Every container that comes due is drawn, or skipped for a newer one that
\* is: until then it waits, or it or a newer one is held; and what waits is
\* newer than what is held, and that than what was drawn last, so that a
\* picture never follows a newer one, of this window or of one before. Two may
\* lose one, the newest too: Run at a ring-buffer that is full, be it of what a
\* thread that is slow or has ended has not taken (visualizer.cpp:288), and
\* Exit, which frees what the thread had not taken when it was stopped (:244).
NewestIsShown ==
  LET waiting == {transfer[i] : i \in 1..Len(transfer)} IN
  /\ \A c \in (1..newest) \ lost : c \in waiting \/ c <= held \/ c <= rendered
  /\ held # None => rendered < held
  /\ \A c \in waiting : held < c /\ rendered < c

\* A window opens where it was when it was closed, unless its position was
\* put in the meantime or cannot be put at all.
PositionIsKept ==
  at.main = "start" /\ starts > 1 =>
    \A k \in PositionKeys \ touched : window[k] = lastPlace[k]
                                      \/ lastPlace[k] = OffScreen
=============================================================================
