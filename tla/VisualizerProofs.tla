-------------------------- MODULE VisualizerProofs -------------------------
(***************************************************************************)
(* What TLAPS proves about Visualizer: on its way from the mainloop to the *)
(* screen a container is lost at a full ring-buffer and in Exit only, and  *)
(* none is drawn after a newer one; a window opens where it was when it    *)
(* was closed; for every size of the ring-buffer, any number of            *)
(* containers, starts and stops. The types come last.                      *)
(***************************************************************************)
EXTENDS Visualizer, SequenceTheorems, TLAPS

\* Containers are numbered from 1, so that None is none of them.
Containers == Nat \ {0}

\* They wait in their order, all newer than the one that is held.
DataInv ==
  /\ transfer \in Seq(Containers)
  /\ {held, rendered, newest} \subseteq Nat
  /\ held <= newest /\ rendered <= newest /\ lost \subseteq 1..newest
  /\ \A i \in 1..Len(transfer) : transfer[i] <= newest
  /\ \A i, j \in 1..Len(transfer) : i < j => transfer[i] < transfer[j]

\* NewestIsShown, by places of the ring-buffer.
Waits(c) == \E i \in 1..Len(transfer) : transfer[i] = c

ShownByPlaces ==
  /\ \A c \in (1..newest) \ lost : Waits(c) \/ c <= held \/ c <= rendered
  /\ held # None => rendered < held
  /\ \A i \in 1..Len(transfer) : held < transfer[i] /\ rendered < transfer[i]

IInv == DataInv /\ ShownByPlaces

LEMMA InitEstablishes == Init => IInv
<1> SUFFICES ASSUME Init PROVE IInv
  OBVIOUS
<1>1. /\ transfer = <<>> /\ held = 0 /\ rendered = 0 /\ newest = 0
      /\ lost = {} /\ Len(transfer) = 0
  BY DEF Init, None
<1>2. DataInv BY <1>1 DEF DataInv
<1> QED BY <1>1, <1>2 DEF IInv, ShownByPlaces, None

LEMMA DataUntouched == IInv /\ UNCHANGED data => IInv'
BY DEF IInv, DataInv, ShownByPlaces, Waits, data

\* The mainloop puts a container behind the others, or drops it, or nothing.
LEMMA RunStep == IInv /\ Run => IInv'
<1> SUFFICES ASSUME IInv, Run PROVE IInv'
  OBVIOUS
<1>1. held' = held /\ rendered' = rendered
  BY DEF Run
<1>2. CASE UNCHANGED <<transfer, newest, lost>>
  BY <1>1, <1>2, DataUntouched DEF data
<1>3. /\ transfer \in Seq(Containers) /\ Len(transfer) \in Nat
      /\ held \in Nat /\ rendered \in Nat /\ newest \in Nat
      /\ \A i \in 1..Len(transfer) : transfer[i] \in Nat
  BY LenProperties DEF IInv, DataInv, Containers
<1>4. CASE /\ transfer' = transfer /\ newest' = newest + 1
           /\ lost' = lost \cup {newest + 1}
  <2>1. DataInv' BY <1>1, <1>3, <1>4 DEF IInv, DataInv
  <2>2. (1..newest') \ lost' = (1..newest) \ lost
    BY <1>3, <1>4 DEF IInv, DataInv
  <2>3. \A c : Waits(c)' <=> Waits(c)
    BY <1>4 DEF Waits
  <2>4. ShownByPlaces'
    BY <1>1, <1>4, <2>2, <2>3 DEF IInv, ShownByPlaces
  <2> QED BY <2>1, <2>4 DEF IInv
<1>5. CASE /\ transfer' = Append(transfer, newest + 1)
           /\ newest' = newest + 1 /\ lost' = lost
  <2>1. newest + 1 \in Containers
    BY <1>3 DEF Containers
  <2>2. /\ transfer' \in Seq(Containers)
        /\ Len(transfer') = Len(transfer) + 1
        /\ transfer'[Len(transfer) + 1] = newest + 1
        /\ \A i \in 1..Len(transfer) : transfer'[i] = transfer[i]
    BY <1>3, <1>5, <2>1, AppendProperties
  <2>3. \A i \in 1..Len(transfer') :
           i = Len(transfer) + 1 \/ i \in 1..Len(transfer)
    BY <1>3, <2>2
  <2>4. \A i \in 1..Len(transfer') : transfer'[i] <= newest'
    BY <1>3, <1>5, <2>2, <2>3 DEF IInv, DataInv
  <2>5. \A i, j \in 1..Len(transfer') : i < j => transfer'[i] < transfer'[j]
    <3> SUFFICES ASSUME NEW i \in 1..Len(transfer'), NEW j \in 1..Len(transfer'),
                        i < j
                 PROVE  transfer'[i] < transfer'[j]
      OBVIOUS
    <3>1. i \in 1..Len(transfer) BY <1>3, <2>2
    <3>2. transfer'[i] = transfer[i] /\ transfer[i] <= newest
      BY <2>2, <3>1 DEF IInv, DataInv
    <3>3. CASE j = Len(transfer) + 1
      BY <1>3, <2>2, <3>1, <3>2, <3>3
    <3>4. CASE j \in 1..Len(transfer)
      BY <2>2, <3>1, <3>2, <3>4 DEF IInv, DataInv
    <3> QED BY <2>3, <3>3, <3>4
  <2>6. lost' \subseteq 1..newest'
    BY <1>3, <1>5 DEF IInv, DataInv
  <2>7. DataInv'
    BY <1>1, <1>3, <1>5, <2>2, <2>4, <2>5, <2>6 DEF IInv, DataInv
  <2>8. \A c \in (1..newest') \ lost' : Waits(c)' \/ c <= held' \/ c <= rendered'
    <3> SUFFICES ASSUME NEW c \in (1..newest') \ lost'
                 PROVE  Waits(c)' \/ c <= held' \/ c <= rendered'
      OBVIOUS
    <3>1. CASE c = newest + 1
      <4>1. Len(transfer) + 1 \in 1..Len(transfer') BY <1>3, <2>2
      <4> QED BY <2>2, <3>1, <4>1 DEF Waits
    <3>2. CASE c # newest + 1
      <4>1. c \in (1..newest) \ lost BY <1>3, <1>5, <3>2
      <4>2. Waits(c) \/ c <= held \/ c <= rendered
        BY <4>1 DEF IInv, ShownByPlaces
      <4>3. Waits(c) => Waits(c)'
        <5>1. \A i \in 1..Len(transfer) : i \in 1..Len(transfer')
          BY <1>3, <2>2
        <5> QED BY <2>2, <5>1 DEF Waits
      <4> QED BY <1>1, <4>2, <4>3
    <3> QED BY <3>1, <3>2
  <2>9. \A i \in 1..Len(transfer') :
           held' < transfer'[i] /\ rendered' < transfer'[i]
    <3> SUFFICES ASSUME NEW i \in 1..Len(transfer')
                 PROVE  held' < transfer'[i] /\ rendered' < transfer'[i]
      OBVIOUS
    <3>1. CASE i = Len(transfer) + 1
      BY <1>1, <1>3, <2>2, <3>1 DEF IInv, DataInv
    <3>2. CASE i \in 1..Len(transfer)
      BY <1>1, <2>2, <3>2 DEF IInv, ShownByPlaces
    <3> QED BY <2>3, <3>1, <3>2
  <2>10. held' # None => rendered' < held'
    BY <1>1 DEF IInv, ShownByPlaces
  <2>11. ShownByPlaces'
    BY <2>8, <2>9, <2>10 DEF ShownByPlaces
  <2> QED BY <2>7, <2>11 DEF IInv
<1> QED BY <1>2, <1>4, <1>5 DEF Run

\* The rendering thread takes the first; what it held before was older.
LEMMA TakeNextStep == IInv /\ TakeNext => IInv'
<1> SUFFICES ASSUME IInv, TakeNext PROVE IInv'
  OBVIOUS
<1>1. /\ transfer # <<>> /\ held' = Head(transfer)
      /\ transfer' = Tail(transfer)
      /\ rendered' = rendered /\ newest' = newest /\ lost' = lost
  BY DEF TakeNext
<1>2. /\ transfer \in Seq(Containers) /\ Len(transfer) \in Nat
      /\ held \in Nat /\ rendered \in Nat /\ newest \in Nat
      /\ \A i \in 1..Len(transfer) : transfer[i] \in Nat
  BY LenProperties DEF IInv, DataInv, Containers
<1>3. Len(transfer) # 0
  BY <1>1, <1>2, EmptySeq
<1>4. held' \in Containers /\ held' = transfer[1] /\ 1 \in 1..Len(transfer)
  BY <1>1, <1>2, <1>3, HeadTailProperties
<1>5. /\ transfer' \in Seq(Containers)
      /\ Len(transfer') = Len(transfer) - 1
      /\ \A i \in 1..Len(transfer') : transfer'[i] = transfer[i + 1]
  BY <1>1, <1>2, HeadTailProperties
<1>6. \A i \in 1..Len(transfer') : i + 1 \in 1..Len(transfer) /\ 1 < i + 1
  BY <1>2, <1>3, <1>5
<1>7. DataInv'
  <2>1. \A i \in 1..Len(transfer') : transfer'[i] <= newest'
    BY <1>1, <1>5, <1>6 DEF IInv, DataInv
  <2>2. \A i, j \in 1..Len(transfer') : i < j => transfer'[i] < transfer'[j]
    <3> SUFFICES ASSUME NEW i \in 1..Len(transfer'), NEW j \in 1..Len(transfer'),
                        i < j
                 PROVE  transfer'[i] < transfer'[j]
      OBVIOUS
    <3>1. i + 1 < j + 1 BY <1>2, <1>5
    <3>2. transfer[i + 1] < transfer[j + 1]
      BY <1>6, <3>1 DEF IInv, DataInv
    <3> QED BY <1>5, <3>2
  <2>3. held' \in Nat /\ held' <= newest'
    BY <1>1, <1>2, <1>4 DEF IInv, DataInv
  <2> QED BY <1>1, <1>2, <1>5, <2>1, <2>2, <2>3 DEF IInv, DataInv
<1>8. held < held' /\ rendered < held'
  BY <1>4 DEF IInv, ShownByPlaces
<1>9. \A i \in 1..Len(transfer') : held' < transfer'[i]
  <2> SUFFICES ASSUME NEW i \in 1..Len(transfer') PROVE held' < transfer'[i]
    OBVIOUS
  <2>1. transfer[1] < transfer[i + 1]
    BY <1>4, <1>6 DEF IInv, DataInv
  <2> QED BY <1>4, <1>5, <2>1
<1>10. \A i \in 1..Len(transfer') : rendered' < transfer'[i]
  BY <1>1, <1>5, <1>6 DEF IInv, ShownByPlaces
<1>11. \A c \in (1..newest') \ lost' : Waits(c)' \/ c <= held' \/ c <= rendered'
  <2> SUFFICES ASSUME NEW c \in (1..newest') \ lost'
               PROVE  Waits(c)' \/ c <= held' \/ c <= rendered'
    OBVIOUS
  <2>0. c \in Nat BY <1>1, <1>2
  <2>1. Waits(c) \/ c <= held \/ c <= rendered
    BY <1>1 DEF IInv, ShownByPlaces
  <2>2. CASE c <= held
    BY <1>2, <1>4, <1>8, <2>0, <2>2 DEF Containers
  <2>3. CASE c <= rendered
    BY <1>1, <2>3
  <2>4. CASE Waits(c)
    <3>1. PICK i \in 1..Len(transfer) : transfer[i] = c
      BY <2>4 DEF Waits
    <3>2. CASE i = 1
      BY <1>2, <1>4, <2>0, <3>1, <3>2
    <3>3. CASE i # 1
      <4>1. i - 1 \in 1..Len(transfer') /\ (i - 1) + 1 = i
        BY <1>2, <1>5, <3>3
      <4>2. transfer'[i - 1] = c BY <1>5, <3>1, <4>1
      <4> QED BY <4>1, <4>2 DEF Waits
    <3> QED BY <3>2, <3>3
  <2> QED BY <2>1, <2>2, <2>3, <2>4
<1>12. held' # None => rendered' < held'
  BY <1>1, <1>8
<1>13. ShownByPlaces'
  BY <1>9, <1>10, <1>11, <1>12 DEF ShownByPlaces
<1> QED BY <1>7, <1>13 DEF IInv

LEMMA DrawStep == IInv /\ Draw => IInv'
<1> SUFFICES ASSUME IInv, Draw PROVE IInv'
  OBVIOUS
<1>1. /\ rendered' = IF held = None THEN rendered ELSE held
      /\ held' = None /\ transfer' = transfer /\ newest' = newest
      /\ lost' = lost
  BY DEF Draw
<1>2. held \in Nat /\ rendered \in Nat /\ newest \in Nat
  BY DEF IInv, DataInv
<1>3. DataInv'
  BY <1>1, <1>2 DEF IInv, DataInv, None
<1>4. held # None => rendered < held
  BY DEF IInv, ShownByPlaces
<1>5. \A c \in Nat : c <= held \/ c <= rendered => c <= held' \/ c <= rendered'
  BY <1>1, <1>2, <1>4 DEF None
<1>6. \A c \in 1..newest : c \in Nat
  BY <1>2
<1>7. \A i \in 1..Len(transfer) : transfer[i] \in Nat /\ 0 < transfer[i]
  <2>1. transfer \in Seq(Containers) BY DEF IInv, DataInv
  <2>2. \A i \in 1..Len(transfer) : transfer[i] \in Containers
    BY <2>1
  <2> QED BY <2>2 DEF Containers
<1>8. \A i \in 1..Len(transfer) : held' < transfer[i] /\ rendered' < transfer[i]
  BY <1>1, <1>7 DEF IInv, ShownByPlaces, None
<1>9. \A c \in (1..newest) \ lost : Waits(c) \/ c <= held' \/ c <= rendered'
  BY <1>5, <1>6 DEF IInv, ShownByPlaces
<1>10. ShownByPlaces'
  <2>1. (1..newest') \ lost' = (1..newest) \ lost /\ Len(transfer') = Len(transfer)
    BY <1>1
  <2>2. \A c : Waits(c)' <=> Waits(c)
    BY <1>1 DEF Waits
  <2> QED BY <1>1, <1>8, <1>9, <2>1, <2>2 DEF ShownByPlaces
<1> QED BY <1>3, <1>10 DEF IInv

\* What was still waiting is lost.
LEMMA CloseWindowStep == IInv /\ CloseWindow => IInv'
<1> SUFFICES ASSUME IInv, CloseWindow PROVE IInv'
  OBVIOUS
<1> DEFINE waiting == {transfer[i] : i \in 1..Len(transfer)}
<1>1. /\ transfer' = <<>> /\ held' = held
      /\ rendered' = rendered /\ newest' = newest
      /\ lost' = lost \cup waiting
  BY DEF CloseWindow
<1>2. Len(transfer') = 0
  BY <1>1
<1>3. waiting \subseteq 1..newest
  <2>1. transfer \in Seq(Containers) BY DEF IInv, DataInv
  <2>2. \A i \in 1..Len(transfer) : transfer[i] \in Containers
    BY <2>1
  <2> QED BY <2>2 DEF IInv, DataInv, Containers
<1>4. DataInv'
  <2>1. transfer' \in Seq(Containers) BY <1>1
  <2>2. lost' \subseteq 1..newest' BY <1>1, <1>3 DEF IInv, DataInv
  <2> HIDE DEF waiting
  <2> QED BY <1>1, <1>2, <2>1, <2>2 DEF IInv, DataInv
<1>5. ShownByPlaces'
  <2>1. \A c \in (1..newest') \ lost' : c <= held' \/ c <= rendered'
    <3> SUFFICES ASSUME NEW c \in (1..newest') \ lost'
                 PROVE  c <= held' \/ c <= rendered'
      OBVIOUS
    <3>1. c \in (1..newest) \ lost /\ c \notin waiting
      BY <1>1
    <3>2. ~Waits(c) BY <3>1 DEF Waits
    <3> QED BY <1>1, <3>1, <3>2 DEF IInv, ShownByPlaces
  <2>2. held' # None => rendered' < held'
    BY <1>1 DEF IInv, ShownByPlaces
  <2> QED BY <1>2, <2>1, <2>2 DEF ShownByPlaces
<1> QED BY <1>4, <1>5 DEF IInv

\* Everything else that either thread, a client or a user does.
LEMMA UpdateStep == \A t : Update(t) => UNCHANGED data
BY DEF Update, ReadStatistics, SetSize, ReadX, SetPosition

LEMMA MainloopStep == IInv /\ Mainloop => IInv'
<1> SUFFICES ASSUME IInv, Mainloop PROVE IInv'
  OBVIOUS
<1>1. CASE Run         BY <1>1, RunStep
<1>2. CASE CloseWindow BY <1>2, CloseWindowStep
<1>3. CASE \/ BeginInit \/ LoadSubsampling \/ StartThread \/ AddListener
           \/ RemoveListener \/ StopThread \/ Join \/ GetPosition
  <2>1. UNCHANGED data
    BY <1>3 DEF BeginInit, LoadSubsampling, StartThread, AddListener,
                RemoveListener, StopThread, Join, GetPosition
  <2> QED BY <2>1, DataUntouched
<1>4. CASE \/ Pass \/ HandleResized \/ HandleClosed \/ HandleKey
           \/ EventsHandled \/ RunWithoutData \/ RunAndReset
  <2>1. UNCHANGED data
    BY <1>4 DEF Pass, HandleResized, HandleClosed, HandleKey, EventsHandled,
                RunWithoutData, RunAndReset
  <2> QED BY <2>1, DataUntouched
<1>5. CASE \/ SavePosition("saveX", "windowPositionX")
           \/ SavePosition("saveY", "windowPositionY")
  <2>1. UNCHANGED data BY <1>5 DEF SavePosition
  <2> QED BY <2>1, DataUntouched
<1>6. CASE Update("main")
  BY <1>6, UpdateStep, DataUntouched
<1> QED BY <1>1, <1>2, <1>3, <1>4, <1>5, <1>6 DEF Mainloop

LEMMA RenderThreadStep == IInv /\ RenderThread => IInv'
<1> SUFFICES ASSUME IInv, RenderThread PROVE IInv'
  OBVIOUS
<1>1. CASE TakeNext BY <1>1, TakeNextStep
<1>2. CASE Draw     BY <1>2, DrawStep
<1>3. CASE \/ StateInitFails \/ StateInit \/ Loop \/ TakeEnds \/ LoadResize
           \/ ClearResize \/ LoadMove \/ ClearMove
  <2>1. UNCHANGED data
    BY <1>3 DEF StateInitFails, StateInit, Loop, TakeEnds, LoadResize,
                ClearResize, LoadMove, ClearMove
  <2> QED BY <2>1, DataUntouched
<1>4. CASE Update("render")
  BY <1>4, UpdateStep, DataUntouched
<1> QED BY <1>1, <1>2, <1>3, <1>4 DEF RenderThread

LEMMA NextKeepsInvariant == IInv /\ [Next]_vars => IInv'
<1> SUFFICES ASSUME IInv, [Next]_vars PROVE IInv'
  OBVIOUS
<1>1. CASE Mainloop     BY <1>1, MainloopStep
<1>2. CASE RenderThread BY <1>2, RenderThreadStep
<1>3. CASE \/ ClientPut \/ ClientStartsOrStops \/ MoveWindow \/ ResizeWindow
           \/ UNCHANGED vars
  <2>1. UNCHANGED data
    BY <1>3 DEF ClientPut, ClientStartsOrStops, MoveWindow, ResizeWindow, Use,
                vars
  <2> QED BY <2>1, DataUntouched
<1> QED BY <1>1, <1>2, <1>3 DEF Next

\* Every container that comes due is drawn, or skipped for a newer one that
\* is, and none is drawn after a newer one, wherever the mainloop and the
\* rendering thread are and however often the window is opened; only Run at a
\* full ring-buffer and Exit lose any, the newest too (visualizer.cpp:288,
\* :244, :697).
THEOREM TheNewestIsKept == Spec => []NewestIsShown
<1>1. IInv => NewestIsShown BY DEF IInv, ShownByPlaces, Waits, NewestIsShown
<1> QED BY <1>1, InitEstablishes, NextKeepsInvariant, PTL DEF Spec
-----------------------------------------------------------------------------
(* The position of the window, from one run of the module to the next.     *)

\* Where the thread has ended, or has not been started yet.
Alone == {"stopped", "init", "statistics", "zoom", "x", "y", "start",
          "position", "saveX", "saveY", "close"}

\* Where the position of the last window is in the tree.
Saved == {"close", "stopped", "init", "statistics", "zoom", "x"}

\* v is where the last window was, if that could be put and nobody put
\* anything else.
IsLast(k, v) == k \in touched \/ v = lastPlace[k] \/ lastPlace[k] = OffScreen

PlacesInv ==
  /\ at = [t \in Threads |-> at[t]]
  /\ at["main"] \in Alone => at["render"] = "ended"
  /\ attribute \in [Keys -> {0, 1, 2}]
  /\ \A k \in Keys : attribute[k] \in Values(k)
  /\ position \in [PositionKeys -> {OffScreen, 0, 1}]
  /\ lastPlace \in [PositionKeys -> {OffScreen, 0, 1}]
  /\ window \in [WindowKeys -> {OffScreen, 0, 1, 2}]
  /\ \A k \in PositionKeys : window[k] \in {OffScreen, 0, 1}
  /\ showStatistics \in {0, 1} /\ x \in {0, 1}

PositionInv ==
  /\ at["main"] \in {"listen", "pass", "events", "container",
                     "removeListener", "stop", "join", "position"} =>
       \A k \in PositionKeys : window[k] = lastPlace[k]
  /\ at["main"] \in {"saveX", "saveY"} =>
       \A k \in PositionKeys : position[k] = lastPlace[k]
  /\ at["main"] \in Saved \cup {"saveY"} =>
       IsLast("windowPositionX", attribute["windowPositionX"])
  /\ at["main"] \in Saved \cup {"y"} =>
       IsLast("windowPositionY", attribute["windowPositionY"])
  /\ at["main"] = "y" => IsLast("windowPositionX", x)
  /\ at["main"] = "start" => \A k \in PositionKeys : IsLast(k, window[k])

PInv == PlacesInv /\ PositionInv

\* The mainloop's order, place by place.
LEMMA MainFollows ==
  /\ Then("main", "init") = "statistics" /\ Then("main", "statistics") = "zoom"
  /\ Then("main", "zoom") = "x" /\ Then("main", "x") = "y"
  /\ Then("main", "y") = "start" /\ Then("main", "listen") = "pass"
  /\ Then("main", "events") = "container"
  /\ Then("main", "container") = "pass"
  /\ Then("main", "removeListener") = "stop" /\ Then("main", "stop") = "join"
  /\ Then("main", "join") = "position" /\ Then("main", "position") = "saveX"
  /\ Then("main", "saveX") = "saveY" /\ Then("main", "saveY") = "close"
  /\ Then("main", "close") = "stopped"
<1> DEFINE at1(p) == CHOOSE j \in 1..Len(MainOrder) : MainOrder[j] = p
<1>1. Len(MainOrder) = 19 BY DEF MainOrder
<1>2. /\ MainOrder[1] = "init" /\ MainOrder[2] = "statistics"
      /\ MainOrder[3] = "zoom" /\ MainOrder[4] = "x" /\ MainOrder[5] = "y"
      /\ MainOrder[6] = "start" /\ MainOrder[7] = "listen"
      /\ MainOrder[8] = "pass" /\ MainOrder[9] = "events"
      /\ MainOrder[10] = "container" /\ MainOrder[11] = "pass"
      /\ MainOrder[12] = "removeListener" /\ MainOrder[13] = "stop"
      /\ MainOrder[14] = "join" /\ MainOrder[15] = "position"
      /\ MainOrder[16] = "saveX" /\ MainOrder[17] = "saveY"
      /\ MainOrder[18] = "close" /\ MainOrder[19] = "stopped"
  BY DEF MainOrder
<1>3. ASSUME NEW n \in 1..18, n # 8, n # 11
      PROVE  Then("main", MainOrder[n]) = MainOrder[n + 1]
  <2> DEFINE p == MainOrder[n]
  <2>1. \A j \in 1..19 : MainOrder[j] = p => j = n
    <3> HIDE DEF at1
    <3>1. \A j \in 1..19 :
            \/ j = 1 \/ j = 2 \/ j = 3 \/ j = 4 \/ j = 5 \/ j = 6 \/ j = 7
            \/ j = 8 \/ j = 9 \/ j = 10 \/ j = 11 \/ j = 12 \/ j = 13
            \/ j = 14 \/ j = 15 \/ j = 16 \/ j = 17 \/ j = 18 \/ j = 19
      OBVIOUS
    <3>2. n \in 1..19 OBVIOUS
    <3> QED BY <1>2, <1>3, <3>1, <3>2
  <2>2. at1(p) = n
    <3> HIDE DEF p
    <3>1. n \in 1..19 /\ MainOrder[n] = p BY DEF p
    <3> QED BY <1>1, <2>1, <3>1
  <2>3. After(MainOrder)[p] = MainOrder[at1(p) + 1]
    <3>1. 1..Len(MainOrder) - 1 = 1..18 BY <1>1
    <3>2. p \in {MainOrder[i] : i \in 1..Len(MainOrder) - 1} BY <3>1
    <3> HIDE DEF p
    <3> QED BY <3>2, Zenon DEF After
  <2>4. Follows["main"] = After(MainOrder) BY DEF Follows
  <2> QED BY <2>2, <2>3, <2>4, Zenon DEF Then
<1> HIDE DEF at1
<1>4. /\ Then("main", MainOrder[1]) = MainOrder[2]
      /\ Then("main", MainOrder[2]) = MainOrder[3]
      /\ Then("main", MainOrder[3]) = MainOrder[4]
      /\ Then("main", MainOrder[4]) = MainOrder[5]
      /\ Then("main", MainOrder[5]) = MainOrder[6]
      /\ Then("main", MainOrder[7]) = MainOrder[8]
      /\ Then("main", MainOrder[9]) = MainOrder[10]
      /\ Then("main", MainOrder[10]) = MainOrder[11]
  BY <1>3
<1>5. /\ Then("main", MainOrder[12]) = MainOrder[13]
      /\ Then("main", MainOrder[13]) = MainOrder[14]
      /\ Then("main", MainOrder[14]) = MainOrder[15]
      /\ Then("main", MainOrder[15]) = MainOrder[16]
      /\ Then("main", MainOrder[16]) = MainOrder[17]
      /\ Then("main", MainOrder[17]) = MainOrder[18]
      /\ Then("main", MainOrder[18]) = MainOrder[19]
  BY <1>3
<1> QED BY <1>2, <1>4, <1>5

LEMMA KeysAndValues ==
  /\ PositionKeys = {"windowPositionX", "windowPositionY"}
  /\ PositionKeys \subseteq WindowKeys /\ PositionKeys \subseteq Keys
  /\ "zoomFactor" \in WindowKeys \ PositionKeys
  /\ "showStatistics" \in WindowKeys \ PositionKeys
  /\ {"zoomFactor", "showStatistics"} \subseteq Keys
  /\ \A k \in PositionKeys : Values(k) = {0, 1}
  /\ Values("showStatistics") = {0, 1} /\ Values("zoomFactor") = {1, 2}
  /\ \A k \in Keys : Values(k) \subseteq {0, 1, 2}
BY DEF PositionKeys, SizeKeys, WindowKeys, Keys, Values, Subsampling

LEMMA GoesOn ==
  ASSUME at = [t \in Threads |-> at[t]], NEW t \in Threads, NEW p, Goes(t, p)
  PROVE  /\ at' = [u \in Threads |-> at'[u]] /\ at'[t] = p
         /\ \A u \in Threads \ {t} : at'[u] = at[u]
<1>1. at' = [u \in Threads |-> IF u = t THEN p ELSE at[u]]
  BY Zenon DEF Goes
<1> QED BY <1>1

LEMMA MainGoes ==
  ASSUME at = [t \in Threads |-> at[t]], NEW p, Goes("main", p)
  PROVE  /\ at' = [u \in Threads |-> at'[u]]
         /\ at'["main"] = p /\ at'["render"] = at["render"]
BY GoesOn DEF Threads

LEMMA RenderGoes ==
  ASSUME at = [t \in Threads |-> at[t]], NEW p, Goes("render", p)
  PROVE  /\ at' = [u \in Threads |-> at'[u]]
         /\ at'["render"] = p /\ at'["main"] = at["main"]
BY GoesOn DEF Threads

\* What the two ways to set the window leave of it.
LEMMA SetSizeLeaves ==
  ASSUME PlacesInv, NEW t, SetSize(t)
  PROVE  /\ window' \in [WindowKeys -> {OffScreen, 0, 1, 2}]
         /\ \A k \in PositionKeys : window'[k] = window[k]
<1>1. window' = [window EXCEPT !["showStatistics"] = showStatistics,
                               !["zoomFactor"] = attribute["zoomFactor"]]
  BY DEF SetSize
<1>2. attribute["zoomFactor"] \in {0, 1, 2} /\ showStatistics \in {0, 1}
  BY KeysAndValues DEF PlacesInv
<1> DEFINE w == [window EXCEPT !["showStatistics"] = showStatistics]
<1>3. window' = [w EXCEPT !["zoomFactor"] = attribute["zoomFactor"]]
  BY <1>1, Zenon
<1>4. w \in [WindowKeys -> {OffScreen, 0, 1, 2}]
      /\ \A k \in PositionKeys : w[k] = window[k]
  BY <1>2, KeysAndValues DEF PlacesInv
<1> HIDE DEF w
<1> QED BY <1>2, <1>3, <1>4, KeysAndValues

LEMMA SetPositionSets ==
  ASSUME PlacesInv, NEW t, SetPosition(t)
  PROVE  /\ window' \in [WindowKeys -> {OffScreen, 0, 1, 2}]
         /\ window'["windowPositionX"] = x
         /\ window'["windowPositionY"] = attribute["windowPositionY"]
         /\ \A k \in PositionKeys : window'[k] \in {0, 1}
<1> DEFINE y == attribute["windowPositionY"]
<1>1. window' = [window EXCEPT !["windowPositionX"] = x,
                               !["windowPositionY"] = y]
  BY DEF SetPosition
<1>2. y \in {0, 1} /\ x \in {0, 1}
  BY KeysAndValues DEF PlacesInv
<1> HIDE DEF y
<1> DEFINE w == [window EXCEPT !["windowPositionX"] = x]
<1>3. window' = [w EXCEPT !["windowPositionY"] = y]
  BY <1>1, Zenon
<1>4. w \in [WindowKeys -> {OffScreen, 0, 1, 2}] /\ w["windowPositionX"] = x
  BY <1>2, KeysAndValues DEF PlacesInv
<1> HIDE DEF w
<1>5. /\ window' \in [WindowKeys -> {OffScreen, 0, 1, 2}]
      /\ window'["windowPositionX"] = x /\ window'["windowPositionY"] = y
  BY <1>2, <1>3, <1>4, KeysAndValues
<1> QED BY <1>2, <1>5, KeysAndValues DEF y

\* Where the window has been opened and its position not been saved.
Open == {"listen", "pass", "events", "container", "removeListener", "stop",
         "join", "position"}

LEMMA OpenStep ==
  ASSUME at'["main"] \in Open,
         \A k \in PositionKeys : window'[k] = lastPlace'[k]
  PROVE  PositionInv'
BY DEF PositionInv, Open, Saved

LEMMA SavedStep ==
  ASSUME PositionInv, at["main"] \in Saved, at'["main"] \in Saved,
         UNCHANGED <<attribute, lastPlace, touched>>
  PROVE  PositionInv'
BY DEF PositionInv, Saved, IsLast

\* Steps of the mainloop that have nothing to do with the position.
LEMMA PlacesStep ==
  ASSUME PlacesInv, NEW p, Goes("main", p),
         p \in Alone => at["render"] = "ended",
         UNCHANGED <<attribute, position, lastPlace, window, showStatistics, x>>
  PROVE  PlacesInv' /\ at'["main"] = p
<1>1. /\ at' = [u \in Threads |-> at'[u]]
      /\ at'["main"] = p /\ at'["render"] = at["render"]
  BY MainGoes DEF PlacesInv
<1> QED BY <1>1 DEF PlacesInv

LEMMA OpenQuietStep ==
  ASSUME PInv, at["main"] \in Open \ {"position"}, NEW p \in Open, Goes("main", p),
         p = "position" => at["render"] = "ended",
         UNCHANGED <<attribute, position, lastPlace, window, showStatistics, x>>
  PROVE  PInv'
<1>1. p \in Alone => p = "position" BY DEF Open, Alone
<1>2. PlacesInv' /\ at'["main"] \in Open BY <1>1, PlacesStep DEF PInv
<1>3. \A k \in PositionKeys : window'[k] = lastPlace'[k]
  BY DEF PInv, PositionInv, Open
<1> QED BY <1>2, <1>3, OpenStep DEF PInv

\* The mainloop or the rendering thread, at the same place as before.
LEMMA StillStep ==
  ASSUME PInv,
         UNCHANGED <<attribute, position, lastPlace, window, showStatistics, x,
                     touched, at>>
  PROVE  PInv'
BY DEF PInv, PlacesInv, PositionInv, IsLast

-----------------------------------------------------------------------------
(* Init, which puts the window where the tree says.                        *)

LEMMA BeginInitPlaces == PInv /\ BeginInit => PInv'
<1> SUFFICES ASSUME PInv, BeginInit PROVE PInv'
  OBVIOUS
<1>1. /\ at["main"] = "stopped" /\ Goes("main", "init") /\ showStatistics' = 0
      /\ UNCHANGED <<attribute, position, lastPlace, window, x, touched>>
  BY DEF BeginInit, screen
<1>2. /\ at' = [u \in Threads |-> at'[u]]
      /\ at'["main"] = "init" /\ at'["render"] = at["render"]
  BY <1>1, MainGoes DEF PInv, PlacesInv
<1>3. PlacesInv' BY <1>1, <1>2 DEF PInv, PlacesInv, Alone
<1>4. PositionInv' BY <1>1, <1>2, SavedStep DEF PInv, Saved
<1> QED BY <1>3, <1>4 DEF PInv

LEMMA LoadSubsamplingPlaces == PInv /\ LoadSubsampling => PInv'
<1> SUFFICES ASSUME PInv, LoadSubsampling PROVE PInv'
  OBVIOUS
<1>1. /\ at["main"] = "init" /\ Goes("main", "statistics")
      /\ window' = [k \in WindowKeys |-> 0]
      /\ UNCHANGED <<attribute, position, lastPlace, showStatistics, x, touched>>
  BY MainFollows DEF LoadSubsampling, Passes, settings, reads
<1>2. /\ at' = [u \in Threads |-> at'[u]]
      /\ at'["main"] = "statistics" /\ at'["render"] = at["render"]
  BY <1>1, MainGoes DEF PInv, PlacesInv
<1>3. PlacesInv' BY <1>1, <1>2, KeysAndValues DEF PInv, PlacesInv, Alone
<1>4. PositionInv' BY <1>1, <1>2, SavedStep DEF PInv, Saved
<1> QED BY <1>3, <1>4 DEF PInv

LEMMA MainReadStatistics == PInv /\ ReadStatistics("main") => PInv'
<1> SUFFICES ASSUME PInv, ReadStatistics("main") PROVE PInv'
  OBVIOUS
<1>1. /\ at["main"] = "statistics" /\ Goes("main", "zoom")
      /\ showStatistics' = attribute["showStatistics"]
      /\ UNCHANGED <<attribute, position, lastPlace, window, x, touched>>
  BY MainFollows DEF ReadStatistics, Passes, settings, screen
<1>2. /\ at' = [u \in Threads |-> at'[u]]
      /\ at'["main"] = "zoom" /\ at'["render"] = at["render"]
  BY <1>1, MainGoes DEF PInv, PlacesInv
<1>3. showStatistics' \in {0, 1}
  BY <1>1, KeysAndValues DEF PInv, PlacesInv
<1>4. PlacesInv' BY <1>1, <1>2, <1>3 DEF PInv, PlacesInv, Alone
<1>5. PositionInv' BY <1>1, <1>2, SavedStep DEF PInv, Saved
<1> QED BY <1>4, <1>5 DEF PInv

LEMMA MainSetSize == PInv /\ SetSize("main") => PInv'
<1> SUFFICES ASSUME PInv, SetSize("main") PROVE PInv'
  OBVIOUS
<1>1. /\ at["main"] = "zoom" /\ Goes("main", "x")
      /\ UNCHANGED <<attribute, position, lastPlace, showStatistics, x, touched>>
  BY MainFollows DEF SetSize, Passes, settings, reads
<1>2. /\ at' = [u \in Threads |-> at'[u]]
      /\ at'["main"] = "x" /\ at'["render"] = at["render"]
  BY <1>1, MainGoes DEF PInv, PlacesInv
<1>3. /\ window' \in [WindowKeys -> {OffScreen, 0, 1, 2}]
      /\ \A k \in PositionKeys : window'[k] = window[k]
  BY SetSizeLeaves DEF PInv
<1>4. PlacesInv' BY <1>1, <1>2, <1>3 DEF PInv, PlacesInv, Alone
<1>5. PositionInv' BY <1>1, <1>2, SavedStep DEF PInv, Saved
<1> QED BY <1>4, <1>5 DEF PInv

LEMMA MainReadX == PInv /\ ReadX("main") => PInv'
<1> SUFFICES ASSUME PInv, ReadX("main") PROVE PInv'
  OBVIOUS
<1>1. /\ at["main"] = "x" /\ Goes("main", "y")
      /\ x' = attribute["windowPositionX"]
      /\ UNCHANGED <<attribute, position, lastPlace, window, showStatistics,
                     touched>>
  BY MainFollows DEF ReadX, Passes, settings, screen
<1>2. /\ at' = [u \in Threads |-> at'[u]]
      /\ at'["main"] = "y" /\ at'["render"] = at["render"]
  BY <1>1, MainGoes DEF PInv, PlacesInv
<1>3. x' \in {0, 1} BY <1>1, KeysAndValues DEF PInv, PlacesInv
<1>4. PlacesInv' BY <1>1, <1>2, <1>3 DEF PInv, PlacesInv, Alone
<1>5. PositionInv' BY <1>1, <1>2 DEF PInv, PositionInv, IsLast, Saved
<1> QED BY <1>4, <1>5 DEF PInv

LEMMA MainSetPosition == PInv /\ SetPosition("main") => PInv'
<1> SUFFICES ASSUME PInv, SetPosition("main") PROVE PInv'
  OBVIOUS
<1>1. /\ at["main"] = "y" /\ Goes("main", "start")
      /\ UNCHANGED <<attribute, position, lastPlace, showStatistics, x, touched>>
  BY MainFollows DEF SetPosition, Passes, settings, reads
<1>2. /\ at' = [u \in Threads |-> at'[u]]
      /\ at'["main"] = "start" /\ at'["render"] = at["render"]
  BY <1>1, MainGoes DEF PInv, PlacesInv
<1>3. /\ window' \in [WindowKeys -> {OffScreen, 0, 1, 2}]
      /\ window'["windowPositionX"] = x
      /\ window'["windowPositionY"] = attribute["windowPositionY"]
      /\ \A k \in PositionKeys : window'[k] \in {0, 1}
  BY SetPositionSets DEF PInv
<1>4. PlacesInv' BY <1>1, <1>2, <1>3 DEF PInv, PlacesInv, Alone
<1>5. PositionInv'
  BY <1>1, <1>2, <1>3, KeysAndValues DEF PInv, PositionInv, IsLast, Saved
<1> QED BY <1>4, <1>5 DEF PInv

LEMMA StartThreadPlaces == PInv /\ StartThread => PInv'
<1> SUFFICES ASSUME PInv, StartThread PROVE PInv'
  OBVIOUS
<1>1. /\ at' = [main |-> "listen", render |-> "stateInit"]
      /\ lastPlace' = [k \in PositionKeys |-> window[k]]
      /\ UNCHANGED <<attribute, position, window, showStatistics, x, touched>>
  BY DEF StartThread, settings, reads
<1>2. /\ at' = [u \in Threads |-> at'[u]] /\ at'["main"] = "listen"
  BY <1>1 DEF Threads
<1>3. PlacesInv' BY <1>1, <1>2 DEF PInv, PlacesInv, Alone
<1>4. PositionInv' BY <1>1, <1>2, OpenStep DEF Open
<1> QED BY <1>3, <1>4 DEF PInv

-----------------------------------------------------------------------------
(* The passes of the mainloop, and Exit, which saves the position.         *)

LEMMA PassesPlaces ==
  ASSUME PInv,
         \/ AddListener \/ Pass \/ EventsHandled \/ Run \/ RunWithoutData
         \/ RunAndReset \/ RemoveListener \/ StopThread \/ Join
  PROVE  PInv'
<1>1. UNCHANGED <<attribute, position, lastPlace, window, showStatistics, x>>
  BY DEF AddListener, Pass, EventsHandled, Run, RunWithoutData, RunAndReset,
         RemoveListener, StopThread, Join, settings, screen, reads
<1>2. CASE AddListener
  BY <1>1, <1>2, MainFollows, OpenQuietStep DEF AddListener, Passes, Open
<1>3. CASE Pass
  <2>1. PICK p \in {"events", "removeListener"} : Goes("main", p)
    BY <1>3 DEF Pass
  <2>2. at["main"] = "pass" BY <1>3 DEF Pass
  <2> QED BY <1>1, <2>1, <2>2, OpenQuietStep DEF Open
<1>4. CASE EventsHandled
  BY <1>1, <1>4, MainFollows, OpenQuietStep DEF EventsHandled, Passes, Open
<1>5. CASE Run \/ RunWithoutData \/ RunAndReset
  <2>1. Passes("main", "container")
    BY <1>5 DEF Run, RunWithoutData, RunAndReset
  <2> QED BY <1>1, <2>1, MainFollows, OpenQuietStep DEF Passes, Open
<1>6. CASE RemoveListener
  BY <1>1, <1>6, MainFollows, OpenQuietStep DEF RemoveListener, Passes, Open
<1>7. CASE StopThread
  BY <1>1, <1>7, MainFollows, OpenQuietStep DEF StopThread, Passes, Open
<1>8. CASE Join
  BY <1>1, <1>8, MainFollows, OpenQuietStep DEF Join, Passes, Open
<1> QED BY <1>2, <1>3, <1>4, <1>5, <1>6, <1>7, <1>8

LEMMA GetPositionPlaces == PInv /\ GetPosition => PInv'
<1> SUFFICES ASSUME PInv, GetPosition PROVE PInv'
  OBVIOUS
<1>1. /\ at["main"] = "position" /\ Goes("main", "saveX")
      /\ position' = [k \in PositionKeys |-> window[k]]
      /\ UNCHANGED <<attribute, lastPlace, window, showStatistics, x>>
  BY MainFollows DEF GetPosition, Passes, screen
<1>2. /\ at' = [u \in Threads |-> at'[u]]
      /\ at'["main"] = "saveX" /\ at'["render"] = at["render"]
  BY <1>1, MainGoes DEF PInv, PlacesInv
<1>3. PlacesInv' BY <1>1, <1>2 DEF PInv, PlacesInv, Alone
<1>4. \A k \in PositionKeys : position'[k] = lastPlace'[k]
  BY <1>1 DEF PInv, PositionInv
<1>5. PositionInv' BY <1>2, <1>4 DEF PositionInv, Saved
<1> QED BY <1>3, <1>5 DEF PInv

\* Afterwards the tree has the position, unless it is out of range.
LEMMA SavePositionSaves ==
  ASSUME PlacesInv, NEW k \in PositionKeys, PutAttribute(k, position[k])
  PROVE  /\ attribute' \in [Keys -> {0, 1, 2}]
         /\ \A j \in Keys : attribute'[j] \in Values(j)
         /\ \A j \in Keys \ {k} : attribute'[j] = attribute[j]
         /\ attribute'[k] = position[k] \/ position[k] = OffScreen
<1>1. /\ position[k] \in {OffScreen, 0, 1} /\ Values(k) = {0, 1}
      /\ attribute \in [Keys -> {0, 1, 2}] /\ k \in Keys
      /\ \A j \in Keys : attribute[j] \in Values(j)
  BY KeysAndValues DEF PlacesInv
<1>2. \/ /\ position[k] \in {0, 1}
         /\ attribute' = [attribute EXCEPT ![k] = position[k]]
      \/ position[k] \notin Values(k) \ {attribute[k]} /\ attribute' = attribute
  BY <1>1 DEF PutAttribute
<1> QED BY <1>1, <1>2

LEMMA SavePlaces ==
  ASSUME PInv,
         \/ SavePosition("saveX", "windowPositionX")
         \/ SavePosition("saveY", "windowPositionY")
  PROVE  PInv'
<1>1. UNCHANGED <<position, lastPlace, window, x, touched>>
  BY DEF SavePosition, screen
<1>2. /\ showStatistics' = showStatistics
  BY DEF SavePosition, PutAttribute, ConfigListener, Unheard
<1>3. CASE SavePosition("saveX", "windowPositionX")
  <2>1. /\ at["main"] = "saveX" /\ Goes("main", "saveY")
        /\ PutAttribute("windowPositionX", position["windowPositionX"])
    BY <1>3, MainFollows DEF SavePosition, Passes
  <2>2. /\ at' = [u \in Threads |-> at'[u]]
        /\ at'["main"] = "saveY" /\ at'["render"] = at["render"]
    BY <2>1, MainGoes DEF PInv, PlacesInv
  <2>3. /\ attribute' \in [Keys -> {0, 1, 2}]
        /\ \A j \in Keys : attribute'[j] \in Values(j)
        /\ \/ attribute'["windowPositionX"] = position["windowPositionX"]
           \/ position["windowPositionX"] = OffScreen
    BY <2>1, SavePositionSaves, KeysAndValues DEF PInv
  <2>4. PlacesInv' BY <1>1, <1>2, <2>1, <2>2, <2>3 DEF PInv, PlacesInv, Alone
  <2>5. \A k \in PositionKeys : position[k] = lastPlace[k]
    BY <2>1 DEF PInv, PositionInv
  <2>6. PositionInv'
    BY <1>1, <2>2, <2>3, <2>5, KeysAndValues DEF PositionInv, IsLast, Saved
  <2> QED BY <2>4, <2>6 DEF PInv
<1>4. CASE SavePosition("saveY", "windowPositionY")
  <2>1. /\ at["main"] = "saveY" /\ Goes("main", "close")
        /\ PutAttribute("windowPositionY", position["windowPositionY"])
    BY <1>4, MainFollows DEF SavePosition, Passes
  <2>2. /\ at' = [u \in Threads |-> at'[u]]
        /\ at'["main"] = "close" /\ at'["render"] = at["render"]
    BY <2>1, MainGoes DEF PInv, PlacesInv
  <2>3. /\ attribute' \in [Keys -> {0, 1, 2}]
        /\ \A j \in Keys : attribute'[j] \in Values(j)
        /\ attribute'["windowPositionX"] = attribute["windowPositionX"]
        /\ \/ attribute'["windowPositionY"] = position["windowPositionY"]
           \/ position["windowPositionY"] = OffScreen
    BY <2>1, SavePositionSaves, KeysAndValues DEF PInv
  <2>4. PlacesInv' BY <1>1, <1>2, <2>1, <2>2, <2>3 DEF PInv, PlacesInv, Alone
  <2>5. /\ \A k \in PositionKeys : position[k] = lastPlace[k]
        /\ IsLast("windowPositionX", attribute["windowPositionX"])
    BY <2>1 DEF PInv, PositionInv
  <2>6. PositionInv'
    BY <1>1, <2>2, <2>3, <2>5, KeysAndValues DEF PositionInv, IsLast, Saved
  <2> QED BY <2>4, <2>6 DEF PInv
<1> QED BY <1>3, <1>4

LEMMA CloseWindowPlaces == PInv /\ CloseWindow => PInv'
<1> SUFFICES ASSUME PInv, CloseWindow PROVE PInv'
  OBVIOUS
<1>1. /\ at["main"] = "close" /\ Goes("main", "stopped")
      /\ UNCHANGED <<attribute, position, lastPlace, window, showStatistics, x,
                     touched>>
  BY MainFollows DEF CloseWindow, Passes, settings, reads
<1>2. PlacesInv' /\ at'["main"] = "stopped"
  BY <1>1, PlacesStep DEF PInv, PlacesInv, Alone
<1>3. PositionInv' BY <1>1, <1>2, SavedStep DEF PInv, Saved
<1> QED BY <1>2, <1>3 DEF PInv

-----------------------------------------------------------------------------
(* Clients and users, at any moment.                                       *)

LEMMA PutPlaces ==
  ASSUME PInv, NEW k \in Keys, NEW v \in Values(k), PutFromOutside(k, v),
         UNCHANGED <<position, lastPlace, window, x, at>>
  PROVE  PInv'
<1>1. /\ attribute \in [Keys -> {0, 1, 2}] /\ v \in {0, 1, 2}
      /\ \A j \in Keys : attribute[j] \in Values(j)
  BY KeysAndValues DEF PInv, PlacesInv
<1>2. \/ attribute' = [attribute EXCEPT ![k] = v] /\ v # attribute[k]
      \/ attribute' = attribute
  BY DEF PutFromOutside, PutAttribute
<1>3. touched' = IF v = attribute[k] THEN touched ELSE touched \cup {k}
  BY DEF PutFromOutside
<1>4. showStatistics' = showStatistics
  BY DEF PutFromOutside, PutAttribute, ConfigListener, Unheard
<1>5. /\ attribute' \in [Keys -> {0, 1, 2}]
      /\ \A j \in Keys : attribute'[j] \in Values(j)
      /\ \A j \in Keys : j \in touched' \/ attribute'[j] = attribute[j]
      /\ touched \subseteq touched'
  BY <1>1, <1>2, <1>3
<1>6. PlacesInv' BY <1>4, <1>5 DEF PInv, PlacesInv
<1>7. PositionInv' BY <1>5, KeysAndValues DEF PInv, PositionInv, IsLast
<1> QED BY <1>6, <1>7 DEF PInv

LEMMA ClientPutPlaces == PInv /\ ClientPut => PInv'
<1> SUFFICES ASSUME PInv, ClientPut PROVE PInv'
  OBVIOUS
<1>1. PICK k \in Keys \cap watched : \E v \in Values(k) : PutFromOutside(k, v)
  BY DEF ClientPut
<1>2. UNCHANGED <<position, lastPlace, window, x, at>>
  BY DEF ClientPut, screen
<1> QED BY <1>1, <1>2, PutPlaces

LEMMA HandleKeyPlaces == PInv /\ HandleKey => PInv'
<1> SUFFICES ASSUME PInv, HandleKey PROVE PInv'
  OBVIOUS
<1>1. PICK k \in watched \cap (SizeKeys \cup {Subsampling}) :
        \E v \in Values(k) : PutFromOutside(k, v)
  BY DEF HandleKey
<1>2. UNCHANGED <<position, lastPlace, window, x, at>>
  BY DEF HandleKey, screen
<1>3. k \in Keys BY DEF Keys, WindowKeys
<1> QED BY <1>1, <1>2, <1>3, PutPlaces

LEMMA MoveWindowPlaces == PInv /\ MoveWindow => PInv'
<1> SUFFICES ASSUME PInv, MoveWindow PROVE PInv'
  OBVIOUS
<1>1. PICK k \in PositionKeys \cap watched, v \in {OffScreen, 0, 1} :
        /\ window' = [window EXCEPT ![k] = v]
        /\ lastPlace' = IF at.main \in {"saveX", "saveY", "close"}
                        THEN lastPlace ELSE [lastPlace EXCEPT ![k] = v]
  BY DEF MoveWindow
<1>2. /\ at["main"] \notin {"stopped", "init", "statistics", "zoom", "x", "y"}
      /\ UNCHANGED <<attribute, position, showStatistics, x, touched, at>>
  BY DEF MoveWindow, Use, IsOpen, settings, reads
<1>3. /\ window' \in [WindowKeys -> {OffScreen, 0, 1, 2}]
      /\ lastPlace' \in [PositionKeys -> {OffScreen, 0, 1}]
      /\ \A j \in PositionKeys : window'[j] \in {OffScreen, 0, 1}
  BY <1>1, KeysAndValues DEF PInv, PlacesInv
<1>4. PlacesInv' BY <1>2, <1>3 DEF PInv, PlacesInv
<1>5. CASE at["main"] \in {"saveX", "saveY", "close"}
  <2>1. lastPlace' = lastPlace BY <1>1, <1>5
  <2> QED BY <1>2, <1>4, <1>5, <2>1 DEF PInv, PositionInv, IsLast, Saved
<1>6. CASE at["main"] \notin {"saveX", "saveY", "close"}
  <2>1. lastPlace' = [lastPlace EXCEPT ![k] = v] BY <1>1, <1>6
  <2>2. \A j \in PositionKeys :
          \/ window'[j] = lastPlace'[j]
          \/ window'[j] = window[j] /\ lastPlace'[j] = lastPlace[j]
    BY <1>1, <2>1, KeysAndValues DEF PInv, PlacesInv
  <2> QED BY <1>2, <1>4, <1>6, <2>2 DEF PInv, PositionInv, IsLast, Saved
<1> QED BY <1>5, <1>6

LEMMA ResizeWindowPlaces == PInv /\ ResizeWindow => PInv'
<1> SUFFICES ASSUME PInv, ResizeWindow PROVE PInv'
  OBVIOUS
<1>1. /\ window' = [window EXCEPT !["zoomFactor"] = Maximized]
      /\ UNCHANGED <<attribute, position, lastPlace, showStatistics, x,
                     touched, at>>
  BY DEF ResizeWindow, Use, settings, reads
<1>2. /\ window' \in [WindowKeys -> {OffScreen, 0, 1, 2}]
      /\ \A k \in PositionKeys : window'[k] = window[k]
  BY <1>1, KeysAndValues DEF PInv, PlacesInv, Maximized
<1>3. PlacesInv' BY <1>1, <1>2 DEF PInv, PlacesInv
<1>4. PositionInv' BY <1>1, <1>2 DEF PInv, PositionInv, IsLast
<1> QED BY <1>3, <1>4 DEF PInv

-----------------------------------------------------------------------------
(* The rendering thread, while it has not ended.                           *)

LEMMA ThreadStep ==
  ASSUME PInv, at["render"] # "ended", NEW p, Goes("render", p),
         UNCHANGED <<attribute, position>>,
         lastPlace' \in [PositionKeys -> {OffScreen, 0, 1}],
         window' \in [WindowKeys -> {OffScreen, 0, 1, 2}],
         \A k \in PositionKeys : /\ window'[k] \in {OffScreen, 0, 1}
                                 /\ \/ window'[k] = lastPlace'[k]
                                    \/ /\ window'[k] = window[k]
                                       /\ lastPlace'[k] = lastPlace[k],
         showStatistics' \in {0, 1}, x' \in {0, 1}
  PROVE  PInv'
<1>1. /\ at' = [u \in Threads |-> at'[u]] /\ at'["main"] = at["main"]
      /\ at["main"] \notin Alone
  BY RenderGoes DEF PInv, PlacesInv
<1>2. PlacesInv' BY <1>1 DEF PInv, PlacesInv
<1>3. PositionInv' BY <1>1 DEF PInv, PositionInv, Alone, Saved
<1> QED BY <1>2, <1>3 DEF PInv

LEMMA ThreadQuietStep ==
  ASSUME PInv, at["render"] # "ended", NEW p, Goes("render", p),
         UNCHANGED <<attribute, position, lastPlace, window, showStatistics, x>>
  PROVE  PInv'
<1>1. /\ lastPlace' \in [PositionKeys -> {OffScreen, 0, 1}]
      /\ window' \in [WindowKeys -> {OffScreen, 0, 1, 2}]
      /\ \A k \in PositionKeys : /\ window'[k] \in {OffScreen, 0, 1}
                                 /\ window'[k] = window[k]
                                 /\ lastPlace'[k] = lastPlace[k]
      /\ showStatistics' \in {0, 1} /\ x' \in {0, 1}
  BY DEF PInv, PlacesInv
<1> QED BY <1>1, ThreadStep

LEMMA ThreadPlaces ==
  ASSUME PInv,
         \/ StateInitFails \/ StateInit \/ Loop \/ TakeEnds \/ Draw
         \/ LoadResize \/ ClearResize \/ LoadMove \/ ClearMove
  PROVE  PInv'
<1>1. UNCHANGED <<attribute, position, lastPlace, window, showStatistics, x>>
  BY DEF StateInitFails, StateInit, Loop, TakeEnds, Draw, LoadResize,
         ClearResize, LoadMove, ClearMove, settings, screen, reads
<1>2. at["render"] # "ended"
  BY DEF StateInitFails, StateInit, Loop, TakeEnds, Draw, LoadResize,
         ClearResize, LoadMove, ClearMove, Passes
<1>3. \E p : Goes("render", p)
  BY DEF StateInitFails, StateInit, Loop, TakeEnds, Draw, LoadResize,
         ClearResize, LoadMove, ClearMove, Passes
<1> QED BY <1>1, <1>2, <1>3, ThreadQuietStep

LEMMA ThreadUpdates == PInv /\ Update("render") => PInv'
<1> SUFFICES ASSUME PInv, Update("render") PROVE PInv'
  OBVIOUS
<1>1. at["render"] # "ended" /\ \E p : Goes("render", p)
  BY DEF Update, ReadStatistics, SetSize, ReadX, SetPosition, Passes
<1>2. /\ lastPlace \in [PositionKeys -> {OffScreen, 0, 1}]
      /\ window \in [WindowKeys -> {OffScreen, 0, 1, 2}]
      /\ \A k \in PositionKeys : window[k] \in {OffScreen, 0, 1}
      /\ showStatistics \in {0, 1} /\ x \in {0, 1}
  BY DEF PInv, PlacesInv
<1>3. /\ attribute["showStatistics"] \in {0, 1}
      /\ attribute["windowPositionX"] \in {0, 1}
      /\ attribute["windowPositionY"] \in {0, 1}
  BY KeysAndValues DEF PInv, PlacesInv
<1>4. CASE ReadStatistics("render")
  <2>1. /\ showStatistics' = attribute["showStatistics"]
        /\ UNCHANGED <<attribute, position, lastPlace, window, x>>
    BY <1>4 DEF ReadStatistics, settings, screen
  <2> QED BY <1>1, <1>2, <1>3, <2>1, ThreadStep
<1>5. CASE SetSize("render")
  <2>1. UNCHANGED <<attribute, position, lastPlace, showStatistics, x>>
    BY <1>5 DEF SetSize, settings, reads
  <2>2. /\ window' \in [WindowKeys -> {OffScreen, 0, 1, 2}]
        /\ \A k \in PositionKeys : window'[k] = window[k]
    BY <1>5, SetSizeLeaves DEF PInv
  <2> QED BY <1>1, <1>2, <2>1, <2>2, ThreadStep
<1>6. CASE ReadX("render")
  <2>1. /\ x' = attribute["windowPositionX"]
        /\ UNCHANGED <<attribute, position, lastPlace, window, showStatistics>>
    BY <1>6 DEF ReadX, settings, screen
  <2> QED BY <1>1, <1>2, <1>3, <2>1, ThreadStep
<1>7. CASE SetPosition("render")
  <2>1. /\ lastPlace' = [windowPositionX |-> x,
                         windowPositionY |-> attribute["windowPositionY"]]
        /\ UNCHANGED <<attribute, position, showStatistics, x>>
    BY <1>7 DEF SetPosition, settings, reads
  <2>2. /\ window' \in [WindowKeys -> {OffScreen, 0, 1, 2}]
        /\ window'["windowPositionX"] = x
        /\ window'["windowPositionY"] = attribute["windowPositionY"]
        /\ \A k \in PositionKeys : window'[k] \in {0, 1}
    BY <1>7, SetPositionSets DEF PInv
  <2>3. /\ lastPlace' \in [PositionKeys -> {OffScreen, 0, 1}]
        /\ \A k \in PositionKeys : window'[k] = lastPlace'[k]
    <3>1. lastPlace' = [k \in PositionKeys |->
                          IF k = "windowPositionX" THEN x
                          ELSE attribute["windowPositionY"]]
      BY <2>1, KeysAndValues
    <3> QED BY <1>2, <1>3, <2>2, <3>1, KeysAndValues
  <2> QED BY <1>1, <1>2, <2>1, <2>2, <2>3, ThreadStep
<1> QED BY <1>4, <1>5, <1>6, <1>7 DEF Update

-----------------------------------------------------------------------------
LEMMA InitEstablishesPlaces == Init => PInv
<1> SUFFICES ASSUME Init PROVE PInv
  OBVIOUS
<1>1. /\ attribute = [k \in Keys |->
                        IF k \in {Subsampling, "zoomFactor"} THEN 1 ELSE 0]
      /\ at = [main |-> "stopped", render |-> "ended"]
      /\ showStatistics = 0 /\ x = 0
      /\ position = [k \in PositionKeys |-> 0]
      /\ window = [k \in WindowKeys |-> 0]
      /\ lastPlace = [k \in PositionKeys |-> 0]
  BY DEF Init
<1>2. /\ at = [t \in Threads |-> at[t]]
      /\ at["main"] = "stopped" /\ at["render"] = "ended"
  BY <1>1 DEF Threads
<1>3. \A k \in Keys : attribute[k] \in Values(k) /\ attribute[k] \in {0, 1, 2}
  BY <1>1 DEF Values
<1>4. PlacesInv BY <1>1, <1>2, <1>3, KeysAndValues DEF PlacesInv
<1>5. \A k \in PositionKeys : attribute[k] = lastPlace[k]
  BY <1>1 DEF PositionKeys, WindowKeys, Keys, Subsampling
<1>6. PositionInv
  BY <1>2, <1>5, KeysAndValues DEF PositionInv, IsLast, Saved
<1> QED BY <1>4, <1>6 DEF PInv

LEMMA MainloopKeepsPlaces == PInv /\ Mainloop => PInv'
<1> SUFFICES ASSUME PInv, Mainloop PROVE PInv'
  OBVIOUS
<1>1. CASE \/ AddListener \/ Pass \/ EventsHandled \/ Run \/ RunWithoutData
           \/ RunAndReset \/ RemoveListener \/ StopThread \/ Join
  BY <1>1, PassesPlaces
<1>2. CASE BeginInit BY <1>2, BeginInitPlaces
<1>3. CASE LoadSubsampling BY <1>3, LoadSubsamplingPlaces
<1>4. CASE Update("main")
  BY <1>4, MainReadStatistics, MainSetSize, MainReadX, MainSetPosition
     DEF Update
<1>5. CASE StartThread BY <1>5, StartThreadPlaces
<1>6. CASE HandleResized \/ HandleClosed
  <2>1. UNCHANGED <<attribute, position, lastPlace, window, showStatistics, x,
                    touched, at>>
    BY <1>6 DEF HandleResized, HandleClosed, settings, screen, reads
  <2> QED BY <2>1, StillStep
<1>7. CASE HandleKey BY <1>7, HandleKeyPlaces
<1>8. CASE GetPosition BY <1>8, GetPositionPlaces
<1>9. CASE \/ SavePosition("saveX", "windowPositionX")
           \/ SavePosition("saveY", "windowPositionY")
  BY <1>9, SavePlaces
<1>10. CASE CloseWindow BY <1>10, CloseWindowPlaces
<1> QED BY <1>1, <1>2, <1>3, <1>4, <1>5, <1>6, <1>7, <1>8, <1>9, <1>10
    DEF Mainloop

LEMMA RenderThreadKeepsPlaces == PInv /\ RenderThread => PInv'
<1> SUFFICES ASSUME PInv, RenderThread PROVE PInv'
  OBVIOUS
<1>1. CASE TakeNext
  <2>1. UNCHANGED <<attribute, position, lastPlace, window, showStatistics, x,
                    touched, at>>
    BY <1>1 DEF TakeNext, settings, screen, reads
  <2> QED BY <2>1, StillStep
<1>2. CASE Update("render") BY <1>2, ThreadUpdates
<1>3. CASE \/ StateInitFails \/ StateInit \/ Loop \/ TakeEnds \/ Draw
           \/ LoadResize \/ ClearResize \/ LoadMove \/ ClearMove
  BY <1>3, ThreadPlaces
<1> QED BY <1>1, <1>2, <1>3 DEF RenderThread

LEMMA NextKeepsPlaces == PInv /\ [Next]_vars => PInv'
<1> SUFFICES ASSUME PInv, [Next]_vars PROVE PInv'
  OBVIOUS
<1>1. CASE Mainloop     BY <1>1, MainloopKeepsPlaces
<1>2. CASE RenderThread BY <1>2, RenderThreadKeepsPlaces
<1>3. CASE ClientPut    BY <1>3, ClientPutPlaces
<1>4. CASE ClientStartsOrStops \/ UNCHANGED vars
  <2>1. UNCHANGED <<attribute, position, lastPlace, window, showStatistics, x,
                    touched, at>>
    BY <1>4 DEF ClientStartsOrStops, vars, settings, screen, reads
  <2> QED BY <2>1, StillStep
<1>5. CASE MoveWindow   BY <1>5, MoveWindowPlaces
<1>6. CASE ResizeWindow BY <1>6, ResizeWindowPlaces
<1> QED BY <1>1, <1>2, <1>3, <1>4, <1>5, <1>6 DEF Next

\* A window opens where it was when it was closed: Exit saves the position
\* once the rendering thread, which may still move the window, has ended
\* (visualizer.cpp:221-239, saveDisplayLocation :559-565), and Init puts the
\* window there before that thread begins (:172-190).
THEOREM ThePositionIsKept == Spec => []PositionIsKept
<1>1. PInv => PositionIsKept
  BY DEF PInv, PositionInv, PositionIsKept, IsLast
<1> QED BY <1>1, InitEstablishesPlaces, NextKeepsPlaces, PTL DEF Spec
-----------------------------------------------------------------------------
(* Types: where the threads are, what the flags are, how full the          *)
(* ring-buffer is, and how often a container is copied.                    *)

MainPlaces   == {MainOrder[i] : i \in 1..Len(MainOrder)}
RenderPlaces == {RenderOrder[i] : i \in 1..Len(RenderOrder)}

PlaceType ==
  at["main"] \in MainPlaces /\ at["render"] \in RenderPlaces \cup {"ended"}

FlagType ==
  /\ running \in BOOLEAN /\ listening \in BOOLEAN /\ rendering \in BOOLEAN
  /\ windowResize \in BOOLEAN /\ windowMove \in BOOLEAN /\ resized \in BOOLEAN

KeyType == missed \subseteq Keys /\ touched \subseteq Keys

RingType == Len(transfer) =< RingSize /\ newest =< MaxContainers

RateType == subsample \in {0, 1, 2} /\ count \in {0, 1}

TInv ==
  PInv /\ IInv /\ PlaceType /\ FlagType /\ KeyType /\ RingType /\ RateType

\* What comes after a place that is not the last of its order is a place of
\* that order.
LEMMA AfterStays ==
  ASSUME NEW order, Len(order) \in Nat \ {0},
         NEW i \in 1..Len(order), order[i] # order[Len(order)]
  PROVE  After(order)[order[i]] \in {order[j] : j \in 1..Len(order)}
<1> DEFINE p == order[i]
           c == CHOOSE j \in 1..Len(order) : order[j] = p
<1>1. i \in 1..Len(order) - 1 OBVIOUS
<1>2. c \in 1..Len(order) /\ order[c] = p
  <2> HIDE DEF p
  <2>1. \E j \in 1..Len(order) : order[j] = p BY DEF p
  <2> QED BY <2>1
<1>3. After(order)[p] = order[c + 1]
  <2>1. p \in {order[j] : j \in 1..Len(order) - 1} BY <1>1
  <2> HIDE DEF p
  <2> QED BY <2>1, Zenon DEF After
<1> HIDE DEF c
<1>4. c + 1 \in 1..Len(order) BY <1>2
<1> QED BY <1>3, <1>4

LEMMA OrderEnds ==
  /\ Len(MainOrder) = 19 /\ MainOrder[19] = "stopped"
  /\ Len(RenderOrder) = 15 /\ RenderOrder[15] = "loop"
  /\ {"stopped", "init", "listen", "events", "removeListener"}
       \subseteq MainPlaces
  /\ {"stateInit", "resetStatistics", "loop", "take", "move"}
       \subseteq RenderPlaces
<1>1. /\ Len(MainOrder) = 19 /\ MainOrder[19] = "stopped"
      /\ MainOrder[1] = "init" /\ MainOrder[7] = "listen"
      /\ MainOrder[9] = "events" /\ MainOrder[12] = "removeListener"
  BY DEF MainOrder
<1>2. /\ Len(RenderOrder) = 15 /\ RenderOrder[15] = "loop"
      /\ RenderOrder[1] = "stateInit" /\ RenderOrder[2] = "resetStatistics"
      /\ RenderOrder[5] = "take" /\ RenderOrder[11] = "move"
  BY DEF RenderOrder
<1>3. \A i \in 1..19 : MainOrder[i] \in MainPlaces
  BY <1>1 DEF MainPlaces
<1>4. \A i \in 1..15 : RenderOrder[i] \in RenderPlaces
  BY <1>2 DEF RenderPlaces
<1>5. /\ MainOrder[1] \in MainPlaces /\ MainOrder[7] \in MainPlaces
      /\ MainOrder[9] \in MainPlaces /\ MainOrder[12] \in MainPlaces
      /\ MainOrder[19] \in MainPlaces
  BY <1>3
<1>6. /\ RenderOrder[1] \in RenderPlaces /\ RenderOrder[2] \in RenderPlaces
      /\ RenderOrder[5] \in RenderPlaces /\ RenderOrder[11] \in RenderPlaces
      /\ RenderOrder[15] \in RenderPlaces
  BY <1>4
<1> QED BY <1>1, <1>2, <1>5, <1>6

LEMMA ThenStays ==
  /\ \A p \in MainPlaces \ {"stopped"} : Then("main", p) \in MainPlaces
  /\ \A p \in RenderPlaces \ {"loop"} : Then("render", p) \in RenderPlaces
<1>1. ASSUME NEW p \in MainPlaces \ {"stopped"}
      PROVE  Then("main", p) \in MainPlaces
  <2>1. PICK i \in 1..Len(MainOrder) : p = MainOrder[i]
    BY DEF MainPlaces
  <2>2. After(MainOrder)[p] \in MainPlaces
    <3>1. /\ Len(MainOrder) \in Nat \ {0}
          /\ MainOrder[i] # MainOrder[Len(MainOrder)]
      BY <2>1, OrderEnds
    <3>2. After(MainOrder)[MainOrder[i]] \in {MainOrder[j] : j \in 1..Len(MainOrder)}
      BY <3>1, AfterStays, Zenon
    <3> QED BY <2>1, <3>2, Zenon DEF MainPlaces
  <2>3. Follows["main"] = After(MainOrder) BY DEF Follows
  <2> QED BY <2>2, <2>3, Zenon DEF Then
<1>2. ASSUME NEW p \in RenderPlaces \ {"loop"}
      PROVE  Then("render", p) \in RenderPlaces
  <2>1. PICK i \in 1..Len(RenderOrder) : p = RenderOrder[i]
    BY DEF RenderPlaces
  <2>2. After(RenderOrder)[p] \in RenderPlaces
    <3>1. /\ Len(RenderOrder) \in Nat \ {0}
          /\ RenderOrder[i] # RenderOrder[Len(RenderOrder)]
      BY <2>1, OrderEnds
    <3>2. After(RenderOrder)[RenderOrder[i]] \in {RenderOrder[j] : j \in 1..Len(RenderOrder)}
      BY <3>1, AfterStays, Zenon
    <3> QED BY <2>1, <3>2, Zenon DEF RenderPlaces
  <2>3. Follows["render"] = After(RenderOrder) BY DEF Follows
  <2> QED BY <2>2, <2>3, Zenon DEF Then
<1> QED BY <1>1, <1>2

-----------------------------------------------------------------------------
LEMMA MainArrives ==
  ASSUME PlacesInv, PlaceType, NEW p \in MainPlaces, Goes("main", p)
  PROVE  PlaceType'
<1>1. at'["main"] = p /\ at'["render"] = at["render"]
  BY MainGoes DEF PlacesInv
<1> QED BY <1>1 DEF PlaceType, MainPlaces, RenderPlaces

LEMMA RenderArrives ==
  ASSUME PlacesInv, PlaceType, NEW p \in RenderPlaces \cup {"ended"},
         Goes("render", p)
  PROVE  PlaceType'
<1>1. at'["render"] = p /\ at'["main"] = at["main"]
  BY RenderGoes DEF PlacesInv
<1> QED BY <1>1 DEF PlaceType, MainPlaces, RenderPlaces

LEMMA MainPassesOn ==
  ASSUME PlacesInv, PlaceType, NEW p, p # "stopped", Passes("main", p)
  PROVE  PlaceType'
<1>1. p \in MainPlaces \ {"stopped"} BY DEF Passes, PlaceType
<1> QED BY <1>1, ThenStays, MainArrives DEF Passes

LEMMA RenderPassesOn ==
  ASSUME PlacesInv, PlaceType, NEW p, p \notin {"loop", "ended"},
         Passes("render", p)
  PROVE  PlaceType'
<1>1. p \in RenderPlaces \ {"loop"} BY DEF Passes, PlaceType
<1> QED BY <1>1, ThenStays, RenderArrives DEF Passes

LEMMA KeepsPlaces == PlacesInv /\ PlaceType /\ [Next]_vars => PlaceType'
<1> SUFFICES ASSUME PlacesInv, PlaceType, [Next]_vars PROVE PlaceType'
  OBVIOUS
<1>1. CASE \/ LoadSubsampling \/ Update("main") \/ AddListener \/ EventsHandled
           \/ Run \/ RunWithoutData \/ RunAndReset \/ RemoveListener
           \/ StopThread \/ Join \/ GetPosition
           \/ SavePosition("saveX", "windowPositionX")
           \/ SavePosition("saveY", "windowPositionY") \/ CloseWindow
  <2>1. \E p : p # "stopped" /\ Passes("main", p)
    BY <1>1 DEF LoadSubsampling, Update, ReadStatistics, SetSize, ReadX,
                SetPosition, AddListener, EventsHandled, Run, RunWithoutData,
                RunAndReset, RemoveListener, StopThread, Join, GetPosition,
                SavePosition, CloseWindow
  <2> QED BY <2>1, MainPassesOn
<1>2. CASE \/ TakeEnds \/ Draw \/ ClearResize \/ ClearMove \/ Update("render")
  <2>1. \E p : p \notin {"loop", "ended"} /\ Passes("render", p)
    BY <1>2 DEF TakeEnds, Draw, ClearResize, ClearMove, Update,
                ReadStatistics, SetSize, ReadX, SetPosition
  <2> QED BY <2>1, RenderPassesOn
<1>3. CASE BeginInit \/ Pass
  <2>1. \E p \in MainPlaces : Goes("main", p)
    BY <1>3, OrderEnds DEF BeginInit, Pass
  <2> QED BY <2>1, MainArrives
<1>4. CASE StartThread
  <2>1. at'["main"] = "listen" /\ at'["render"] = "stateInit"
    BY <1>4 DEF StartThread
  <2> QED BY <2>1, OrderEnds DEF PlaceType, MainPlaces, RenderPlaces
<1>5. CASE StateInitFails \/ StateInit \/ Loop \/ LoadMove \/ LoadResize
  <2>1. at["render"] \in {"resize", "move"} =>
          Then("render", at["render"]) \in RenderPlaces
    BY ThenStays DEF PlaceType
  <2>2. \E p \in RenderPlaces \cup {"ended"} : Goes("render", p)
    BY <1>5, <2>1, OrderEnds
       DEF StateInitFails, StateInit, Loop, LoadMove, LoadResize
  <2> QED BY <2>2, RenderArrives
<1>6. CASE \/ HandleResized \/ HandleClosed \/ HandleKey \/ TakeNext
           \/ ClientPut \/ ClientStartsOrStops \/ MoveWindow \/ ResizeWindow
           \/ UNCHANGED vars
  <2>1. UNCHANGED at
    BY <1>6 DEF HandleResized, HandleClosed, HandleKey, TakeNext, ClientPut,
                ClientStartsOrStops, MoveWindow, ResizeWindow, Use, vars
  <2> QED BY <2>1 DEF PlaceType, MainPlaces, RenderPlaces
<1> QED BY <1>1, <1>2, <1>3, <1>4, <1>5, <1>6 DEF Next, Mainloop, RenderThread

-----------------------------------------------------------------------------
\* What a put leaves of the flags, the settings put and the rate.
LEMMA PutLeaves ==
  ASSUME FlagType, KeyType, RateType, NEW k \in Keys, NEW v, PutAttribute(k, v)
  PROVE  /\ windowResize' \in BOOLEAN /\ windowMove' \in BOOLEAN
         /\ missed' \subseteq Keys /\ subsample' \in {0, 1, 2}
<1>1. v \in Values(k) => v \in {0, 1, 2} BY KeysAndValues
<1>2. missed' \in {missed, missed \ {k}, missed \cup {k}}
  BY DEF PutAttribute
<1>3. subsample' \in {0, 1, 2}
  BY <1>1 DEF PutAttribute, ConfigListener, Unheard, RateType
<1>4. \/ ConfigListener(k, v)
      \/ windowResize' = windowResize /\ windowMove' = windowMove
  BY DEF PutAttribute, Unheard
<1>5. CASE ConfigListener(k, v)
  <2>1. /\ windowResize' = (windowResize \/ k \in SizeKeys)
        /\ windowMove' = (windowMove \/ k \in PositionKeys)
    BY <1>5, Zenon DEF ConfigListener
  <2>2. windowResize' \in BOOLEAN BY <2>1, Zenon
  <2>3. windowMove' \in BOOLEAN BY <2>1, Zenon
  <2>4. missed' \subseteq Keys BY <1>2 DEF KeyType
  <2> QED BY <1>3, <2>2, <2>3, <2>4, Zenon
<1>6. CASE windowResize' = windowResize /\ windowMove' = windowMove
  <2>1. windowResize' \in BOOLEAN /\ windowMove' \in BOOLEAN
    BY <1>6, Zenon DEF FlagType
  <2>2. missed' \subseteq Keys BY <1>2 DEF KeyType
  <2> QED BY <1>3, <2>1, <2>2, Zenon
<1> QED BY <1>4, <1>5, <1>6, Zenon

LEMMA OutsideLeaves ==
  ASSUME FlagType, KeyType, RateType, ClientPut \/ HandleKey
  PROVE  /\ windowResize' \in BOOLEAN /\ windowMove' \in BOOLEAN
         /\ missed' \subseteq Keys /\ touched' \subseteq Keys
         /\ subsample' \in {0, 1, 2}
<1>1. PICK k \in Keys : \E v \in Values(k) : PutFromOutside(k, v)
  BY DEF ClientPut, HandleKey, Keys, WindowKeys
<1>2. PICK v \in Values(k) : PutFromOutside(k, v) BY <1>1
<1>3. touched' \subseteq Keys BY <1>2 DEF PutFromOutside, KeyType
<1>4. PutAttribute(k, v) BY <1>2, Zenon DEF PutFromOutside
<1> QED BY <1>3, <1>4, PutLeaves, Zenon

LEMMA KeepsFlags ==
  FlagType /\ KeyType /\ RateType /\ [Next]_vars => FlagType'
<1> SUFFICES ASSUME FlagType, KeyType, RateType, [Next]_vars PROVE FlagType'
  OBVIOUS
<1> USE DEF FlagType
<1>1. CASE ClientPut \/ HandleKey
  <2>1. running' = running /\ listening' = listening /\ rendering' = rendering
        /\ resized' = resized
    BY <1>1 DEF ClientPut, HandleKey, screen
  <2>2. windowResize' \in BOOLEAN /\ windowMove' \in BOOLEAN
    BY <1>1, OutsideLeaves, Zenon
  <2> QED BY <2>1, <2>2, Zenon
<1>2. CASE \/ SavePosition("saveX", "windowPositionX")
           \/ SavePosition("saveY", "windowPositionY")
  <2>0. PICK k \in Keys : \E p : SavePosition(p, k)
    <3>1. {"windowPositionX", "windowPositionY"} \subseteq Keys
      BY KeysAndValues
    <3> QED BY <1>2, <3>1
  <2>1. PICK p : SavePosition(p, k) BY <2>0
  <2>2. running' = running /\ listening' = listening /\ rendering' = rendering
        /\ resized' = resized
    BY <2>1 DEF SavePosition, screen
  <2>3. windowResize' \in BOOLEAN /\ windowMove' \in BOOLEAN
    BY <2>1, PutLeaves, Zenon DEF SavePosition
  <2> QED BY <2>2, <2>3, Zenon
<1>3. CASE ClientStartsOrStops \/ HandleClosed
  <2>1. /\ running' = ~running \/ running' = FALSE
        /\ listening' = listening /\ rendering' = rendering
        /\ windowResize' = windowResize /\ windowMove' = windowMove
        /\ resized' = resized
    BY <1>3 DEF ClientStartsOrStops, HandleClosed, flags, screen
  <2> QED BY <2>1, Zenon
<1>4. CASE BeginInit
  <2>1. /\ running' = running /\ listening' = listening /\ resized' = resized
        /\ rendering' = FALSE /\ windowResize' = FALSE /\ windowMove' = FALSE
    BY <1>4 DEF BeginInit, screen
  <2> QED BY <2>1, Zenon
<1>5. CASE StartThread \/ StopThread
  <2>1. /\ running' = running /\ listening' = listening /\ resized' = resized
        /\ windowResize' = windowResize /\ windowMove' = windowMove
        /\ rendering' = TRUE \/ rendering' = FALSE
    BY <1>5 DEF StartThread, StopThread, settings, screen
  <2> QED BY <2>1, Zenon
<1>6. CASE AddListener \/ RemoveListener
  <2>1. /\ running' = running /\ rendering' = rendering /\ resized' = resized
        /\ windowResize' = windowResize /\ windowMove' = windowMove
        /\ listening' = TRUE \/ listening' = FALSE
    BY <1>6 DEF AddListener, RemoveListener, flags, screen
  <2> QED BY <2>1, Zenon
<1>7. CASE HandleResized \/ ClearResize \/ ClearMove
  <2>1. /\ running' = running /\ listening' = listening
        /\ rendering' = rendering
        /\ resized' = resized \/ resized' = FALSE
        /\ \/ windowResize' = windowResize \/ windowResize' = TRUE
           \/ windowResize' = FALSE
        /\ windowMove' = windowMove \/ windowMove' = FALSE
    BY <1>7 DEF HandleResized, ClearResize, ClearMove, settings, screen
  <2> QED BY <2>1, Zenon
<1>8. CASE \/ SetSize("main") \/ SetSize("render") \/ ResizeWindow
           \/ CloseWindow
  <2>1. /\ running' = running /\ listening' = listening
        /\ rendering' = rendering
        /\ windowResize' = windowResize /\ windowMove' = windowMove
    BY <1>8 DEF SetSize, ResizeWindow, CloseWindow, Use, settings, flags
  <2>2. \/ resized' = (resized \/ window' # window)
        \/ resized' = TRUE \/ resized' = FALSE
    BY <1>8, Zenon DEF SetSize, ResizeWindow, CloseWindow
  <2>3. resized' \in BOOLEAN BY <2>2, Zenon
  <2> QED BY <2>1, <2>3, Zenon
<1>9. CASE \/ LoadSubsampling \/ Pass \/ EventsHandled \/ Run
           \/ RunWithoutData \/ RunAndReset \/ Join \/ GetPosition
           \/ ReadStatistics("main") \/ ReadX("main") \/ SetPosition("main")
  <2>1. /\ running' = running /\ listening' = listening
        /\ rendering' = rendering /\ resized' = resized
        /\ windowResize' = windowResize /\ windowMove' = windowMove
    BY <1>9 DEF LoadSubsampling, Pass, EventsHandled, Run, RunWithoutData,
                RunAndReset, Join, GetPosition, ReadStatistics, ReadX,
                SetPosition, settings, flags, screen
  <2> QED BY <2>1, Zenon
<1>10. CASE \/ StateInitFails \/ StateInit \/ Loop \/ TakeNext \/ TakeEnds
            \/ Draw \/ LoadResize \/ LoadMove \/ MoveWindow
            \/ ReadStatistics("render") \/ ReadX("render")
            \/ SetPosition("render") \/ UNCHANGED vars
  <2>1. /\ running' = running /\ listening' = listening
        /\ rendering' = rendering /\ resized' = resized
        /\ windowResize' = windowResize /\ windowMove' = windowMove
    BY <1>10 DEF StateInitFails, StateInit, Loop, TakeNext, TakeEnds, Draw,
                 LoadResize, LoadMove, MoveWindow, Use, ReadStatistics, ReadX,
                 SetPosition, settings, flags, screen, vars
  <2> QED BY <2>1, Zenon
<1> QED BY <1>1, <1>2, <1>3, <1>4, <1>5, <1>6, <1>7, <1>8, <1>9, <1>10
    DEF Next, Mainloop, RenderThread, Update

LEMMA KeepsKeys == FlagType /\ KeyType /\ RateType /\ [Next]_vars => KeyType'
<1> SUFFICES ASSUME FlagType, KeyType, RateType, [Next]_vars PROVE KeyType'
  OBVIOUS
<1>1. CASE ClientPut \/ HandleKey
  BY <1>1, OutsideLeaves DEF KeyType
<1>2. CASE \/ SavePosition("saveX", "windowPositionX")
           \/ SavePosition("saveY", "windowPositionY")
  <2>0. PICK k \in Keys : \E p : SavePosition(p, k)
    <3>1. {"windowPositionX", "windowPositionY"} \subseteq Keys
      BY KeysAndValues
    <3> QED BY <1>2, <3>1
  <2>1. PICK p : SavePosition(p, k) BY <2>0
  <2>2. missed' \subseteq Keys BY <2>1, PutLeaves DEF SavePosition
  <2>3. touched' = touched BY <2>1 DEF SavePosition
  <2> QED BY <2>2, <2>3 DEF KeyType
<1>3. CASE BeginInit \/ GetPosition
  <2>1. /\ missed' = missed \/ missed' = {}
        /\ touched' = touched \/ touched' = {}
    BY <1>3 DEF BeginInit, GetPosition
  <2> QED BY <2>1 DEF KeyType
<1>4. CASE \/ LoadSubsampling \/ Update("main") \/ StartThread \/ AddListener
           \/ Pass \/ HandleResized \/ HandleClosed \/ EventsHandled \/ Run
           \/ RunWithoutData \/ RunAndReset \/ RemoveListener \/ StopThread
           \/ Join \/ CloseWindow
  <2>1. UNCHANGED <<missed, touched>>
    BY <1>4 DEF LoadSubsampling, Update, ReadStatistics, SetSize, ReadX,
                SetPosition, StartThread, AddListener, Pass, HandleResized,
                HandleClosed, EventsHandled, Run, RunWithoutData, RunAndReset,
                RemoveListener, StopThread, Join, CloseWindow, settings
  <2> QED BY <2>1 DEF KeyType
<1>5. CASE \/ RenderThread \/ ClientStartsOrStops \/ MoveWindow
           \/ ResizeWindow \/ UNCHANGED vars
  <2>1. UNCHANGED <<missed, touched>>
    BY <1>5 DEF RenderThread, StateInitFails, StateInit, Loop, TakeNext,
                TakeEnds, Draw, LoadResize, ClearResize, LoadMove, ClearMove,
                Update, ReadStatistics, SetSize, ReadX, SetPosition,
                ClientStartsOrStops, MoveWindow, ResizeWindow, Use, settings,
                vars
  <2> QED BY <2>1 DEF KeyType
<1> QED BY <1>1, <1>2, <1>3, <1>4, <1>5 DEF Next, Mainloop

\* A container is copied at the latest when the second one comes: the rate
\* is 1 or 2 once Init has read it.
LEMMA KeepsRate ==
  PlacesInv /\ FlagType /\ KeyType /\ RateType /\ [Next]_vars => RateType'
<1> SUFFICES ASSUME PlacesInv, FlagType, KeyType, RateType, [Next]_vars
             PROVE RateType'
  OBVIOUS
<1>1. CASE ClientPut \/ HandleKey
  <2>1. count' = count BY <1>1 DEF ClientPut, HandleKey
  <2> QED BY <1>1, <2>1, OutsideLeaves DEF RateType
<1>2. CASE \/ SavePosition("saveX", "windowPositionX")
           \/ SavePosition("saveY", "windowPositionY")
  <2>0. PICK k \in Keys : \E p : SavePosition(p, k)
    <3>1. {"windowPositionX", "windowPositionY"} \subseteq Keys
      BY KeysAndValues
    <3> QED BY <1>2, <3>1
  <2>1. PICK p : SavePosition(p, k) BY <2>0
  <2>2. count' = count BY <2>1 DEF SavePosition
  <2>3. subsample' \in {0, 1, 2} BY <2>1, PutLeaves DEF SavePosition
  <2> QED BY <2>2, <2>3 DEF RateType
<1>3. CASE BeginInit \/ RunAndReset
  <2>1. count' = 0 /\ subsample' = subsample
    BY <1>3 DEF BeginInit, RunAndReset
  <2> QED BY <2>1 DEF RateType
<1>4. CASE LoadSubsampling
  <2>1. subsample' = attribute[Subsampling] /\ count' = count
    BY <1>4 DEF LoadSubsampling
  <2>2. Subsampling \in Keys BY DEF Keys
  <2> QED BY <2>1, <2>2 DEF PlacesInv, RateType
<1>5. CASE Run
  <2>1. /\ count' = IF count + 1 >= subsample THEN 0 ELSE count + 1
        /\ subsample' = subsample
    BY <1>5 DEF Run
  <2> QED BY <2>1 DEF RateType
<1>6. CASE \/ Update("main") \/ StartThread \/ AddListener \/ Pass
           \/ HandleResized \/ HandleClosed \/ EventsHandled
           \/ RunWithoutData \/ RemoveListener \/ StopThread \/ Join
           \/ GetPosition \/ CloseWindow
  <2>1. UNCHANGED <<subsample, count>>
    BY <1>6 DEF Update, ReadStatistics, SetSize, ReadX, SetPosition,
                StartThread, AddListener, Pass, HandleResized, HandleClosed,
                EventsHandled, RunWithoutData, RemoveListener, StopThread,
                Join, GetPosition, CloseWindow, sampling
  <2> QED BY <2>1 DEF RateType
<1>7. CASE \/ RenderThread \/ ClientStartsOrStops \/ MoveWindow
           \/ ResizeWindow \/ UNCHANGED vars
  <2>1. UNCHANGED <<subsample, count>>
    BY <1>7 DEF RenderThread, StateInitFails, StateInit, Loop, TakeNext,
                TakeEnds, Draw, LoadResize, ClearResize, LoadMove, ClearMove,
                Update, ReadStatistics, SetSize, ReadX, SetPosition,
                ClientStartsOrStops, MoveWindow, ResizeWindow, Use, sampling,
                vars
  <2> QED BY <2>1 DEF RateType
<1> QED BY <1>1, <1>2, <1>3, <1>4, <1>5, <1>6, <1>7 DEF Next, Mainloop

LEMMA KeepsRing == DataInv /\ RingType /\ [Next]_vars => RingType'
<1> SUFFICES ASSUME DataInv, RingType, [Next]_vars PROVE RingType'
  OBVIOUS
<1>1. /\ transfer \in Seq(Containers) /\ Len(transfer) \in Nat
      /\ newest \in Nat
      /\ RingSize \in Nat \ {0} /\ MaxContainers \in Nat
  <2>1. RingSize \in Nat \ {0} /\ MaxContainers \in Nat
    BY VisualizerAssumption
  <2> QED BY <2>1, LenProperties DEF DataInv
<1>2. CASE Run
  <2>1. newest < MaxContainers /\ newest' \in {newest, newest + 1}
    BY <1>2 DEF Run
  <2>2. \/ transfer' = transfer
        \/ Len(transfer) # RingSize /\ transfer' = Append(transfer, newest + 1)
    BY <1>2 DEF Run, IsFull
  <2>3. newest + 1 \in Containers BY <1>1 DEF Containers
  <2>4. Len(transfer') =< RingSize
    BY <1>1, <2>2, <2>3, AppendProperties DEF RingType
  <2> QED BY <1>1, <2>1, <2>4 DEF RingType
<1>3. CASE TakeNext
  <2>1. transfer # <<>> /\ transfer' = Tail(transfer) /\ newest' = newest
    BY <1>3 DEF TakeNext
  <2>2. Len(transfer') = Len(transfer) - 1
    BY <1>1, <2>1, HeadTailProperties
  <2> QED BY <1>1, <2>1, <2>2 DEF RingType
<1>4. CASE Draw
  BY <1>4 DEF Draw, RingType
<1>5. CASE CloseWindow
  <2>1. Len(transfer') = 0 /\ newest' = newest
    BY <1>5 DEF CloseWindow
  <2> QED BY <1>1, <2>1 DEF RingType
<1>6. CASE \/ BeginInit \/ LoadSubsampling \/ Update("main") \/ StartThread
           \/ AddListener \/ Pass \/ HandleResized \/ HandleClosed
           \/ HandleKey \/ EventsHandled \/ RunWithoutData \/ RunAndReset
           \/ RemoveListener \/ StopThread \/ Join \/ GetPosition
           \/ SavePosition("saveX", "windowPositionX")
           \/ SavePosition("saveY", "windowPositionY")
  <2>1. UNCHANGED data
    BY <1>6 DEF BeginInit, LoadSubsampling, Update, ReadStatistics, SetSize,
                ReadX, SetPosition, StartThread, AddListener, Pass,
                HandleResized, HandleClosed, HandleKey, EventsHandled,
                RunWithoutData, RunAndReset, RemoveListener, StopThread, Join,
                GetPosition, SavePosition
  <2> QED BY <2>1 DEF RingType, data
<1>7. CASE \/ StateInitFails \/ StateInit \/ Loop \/ TakeEnds \/ LoadResize
           \/ ClearResize \/ LoadMove \/ ClearMove \/ Update("render")
           \/ ClientPut \/ ClientStartsOrStops \/ MoveWindow \/ ResizeWindow
           \/ UNCHANGED vars
  <2>1. UNCHANGED data
    BY <1>7 DEF StateInitFails, StateInit, Loop, TakeEnds, LoadResize,
                ClearResize, LoadMove, ClearMove, Update, ReadStatistics,
                SetSize, ReadX, SetPosition, ClientPut, ClientStartsOrStops,
                MoveWindow, ResizeWindow, Use, vars
  <2> QED BY <2>1 DEF RingType, data
<1> QED BY <1>2, <1>3, <1>4, <1>5, <1>6, <1>7 DEF Next, Mainloop, RenderThread

LEMMA InitIsTyped == Init => TInv
<1> SUFFICES ASSUME Init PROVE TInv
  OBVIOUS
<1>1. PInv /\ IInv BY InitEstablishesPlaces, InitEstablishes
<1>2. PlaceType BY OrderEnds DEF Init, PlaceType
<1>3. FlagType BY Zenon DEF Init, FlagType
<1>4. KeyType /\ RateType BY DEF Init, KeyType, RateType
<1>5. RingType
  <2>1. RingSize \in Nat /\ MaxContainers \in Nat BY VisualizerAssumption
  <2> QED BY <2>1 DEF Init, RingType, None
<1> QED BY <1>1, <1>2, <1>3, <1>4, <1>5 DEF TInv

LEMMA NextKeepsTypes == TInv /\ [Next]_vars => TInv'
<1> SUFFICES ASSUME TInv, [Next]_vars PROVE TInv'
  OBVIOUS
<1>1. PInv' /\ IInv' BY NextKeepsPlaces, NextKeepsInvariant DEF TInv
<1>2. PlaceType' BY KeepsPlaces DEF TInv, PInv
<1>3. FlagType' BY KeepsFlags, Zenon DEF TInv
<1>4. KeyType' BY KeepsKeys DEF TInv
<1>5. RateType' BY KeepsRate DEF TInv, PInv
<1>6. RingType' BY KeepsRing DEF TInv, IInv
<1> QED BY <1>1, <1>2, <1>3, <1>4, <1>5, <1>6 DEF TInv

LEMMA TypesAreRight == TInv => TypeOK
<1> SUFFICES ASSUME TInv PROVE TypeOK
  OBVIOUS
<1>1. \A k \in Keys : attribute[k] \in Values(k)
  BY DEF TInv, PInv, PlacesInv
<1>2. /\ at.main \in {MainOrder[i] : i \in 1..Len(MainOrder)}
      /\ at.render \in {RenderOrder[i] : i \in 1..Len(RenderOrder)}
                         \cup {"ended"}
  BY DEF TInv, PlaceType, MainPlaces, RenderPlaces
<1>3. {running, listening, rendering, windowResize, windowMove, resized}
        \subseteq BOOLEAN
  BY Zenon DEF TInv, FlagType
<1>4. missed \subseteq Keys /\ touched \subseteq Keys
  BY DEF TInv, KeyType
<1>5. /\ Len(transfer) =< RingSize /\ newest \in 0..MaxContainers
      /\ {held, rendered} \subseteq 0..newest /\ lost \subseteq 1..newest
  <2>1. MaxContainers \in Nat BY VisualizerAssumption
  <2> QED BY <2>1 DEF TInv, IInv, DataInv, RingType
<1>6. subsample \in {0, 1, 2} /\ count \in {0, 1}
  BY DEF TInv, RateType
<1> QED BY <1>1, <1>2, <1>3, <1>4, <1>5, <1>6, Zenon DEF TypeOK

\* The types of the module: each thread is at a place of its order, the
\* ring-buffer never holds more than it has room for, what is held or drawn
\* has been copied before, and the counter of passed containers is back at 0
\* before it gets to the largest rate (visualizer.cpp:155, :279-300, :697).
THEOREM TypeCorrect == Spec => []TypeOK
BY InitIsTyped, NextKeepsTypes, TypesAreRight, PTL DEF Spec
=============================================================================
