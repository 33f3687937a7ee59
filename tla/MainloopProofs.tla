--------------------------- MODULE MainloopProofs ---------------------------
(***************************************************************************)
(* Proofs about the mainloop and the graph of its modules, for every set   *)
(* of modules, every MaxSleep, every configuration and every library.      *)
(*                                                                         *)
(* Mainloop: the type invariant, that listeners only point to live data,   *)
(* and that the shutdown stops every module which no client overrode.      *)
(* ModuleGraph: the type invariant, that modules are given the data they   *)
(* declared, and that what processors do gets to an OUTPUT.                *)
(***************************************************************************)
EXTENDS Mainloop, ModuleGraph, FiniteSetTheorems, WellFoundedInduction, TLAPS

\* The places of the mainloop thread at which no module data exists.
NoDataPlaces ==
  {"start", "listenSystem", "storeRunning", "listenRunning", "outer",
   "update", "collect", "build", "fail", "exited"}

\* Data and listeners follow the phases of caerMainloopRunner. A module that
\* is neither removed nor half initialised has its listener; nothing runs
\* before the first pass.
DataInv ==
  /\ registered \subseteq live /\ orphans \subseteq leaked
  /\ live \subseteq execution
  /\ pc \in NoDataPlaces => live = {}
  /\ pc = "init" => /\ live \ (dangling \cup todo) \subseteq registered
                    /\ \A m \in live : status[m] = "STOPPED"
  /\ pc \notin NoDataPlaces \cup {"init", "undefined"}
       => live \ dangling \subseteq registered
  /\ pc = "destroy" => live \subseteq todo

\* The flag of a module that was not overridden is TRUE only if its attribute
\* is, so that putting the attribute to FALSE reaches the flag; from then on
\* the flag stays FALSE until the last pass stops the module.
ShutdownInv ==
  \A m \in live \ overridden :
    /\ flag[m] => attr[m]
    /\ pc = "stopping" /\ m \notin todo => ~flag[m]
    /\ pc = "lastPass" /\ m \in todo => ~flag[m]
    /\ pc = "destroy" \/ (pc = "lastPass" /\ m \notin todo)
         => status[m] = "STOPPED"

IInv == TypeOK /\ DataInv /\ ShutdownInv

USE DEF NoDataPlaces, Passes, Places, mainVars, flagVars, nodeVars, moduleVars,
        leftVars

LEMMA InitEstablishes == Init => IInv
<1> SUFFICES ASSUME Init PROVE IInv
  OBVIOUS
<1>1. TypeOK
  <2>1. node \in [Modules -> {"absent", "added", "created"}]
    BY DEF Init
  <2>2. /\ attr \in [Modules -> BOOLEAN] /\ flag \in [Modules -> BOOLEAN]
        /\ status \in [Modules -> {"STOPPED", "RUNNING"}]
    BY DEF Init
  <2>3. sleepCount \in 0 .. MaxSleep + 1
    BY MainloopAssumption DEF Init
  <2> QED BY <2>1, <2>2, <2>3 DEF Init, TypeOK
<1>2. DataInv     BY DEF Init, DataInv
<1>3. ShutdownInv BY DEF Init, ShutdownInv
<1> QED BY <1>1, <1>2, <1>3 DEF IInv

\* A put of FALSE, by whomever: it reaches the flag of a module that listens
\* and whose flag is TRUE only if its attribute is.
LEMMA PutFalse ==
  ASSUME TypeOK, NEW m \in Modules, PutModuleRunning(m, FALSE)
  PROVE  /\ attr' \in [Modules -> BOOLEAN] /\ flag' \in [Modules -> BOOLEAN]
         /\ \A n \in Modules \ {m} : attr'[n] = attr[n] /\ flag'[n] = flag[n]
         /\ ~attr'[m] /\ (flag'[m] => flag[m])
         /\ m \in registered /\ (flag[m] => attr[m]) => ~flag'[m]
         /\ attr[m] = FALSE => flag'[m] = flag[m]
<1>1. attr \in [Modules -> BOOLEAN] /\ flag \in [Modules -> BOOLEAN]
  BY DEF TypeOK
<1>2. attr' = [attr EXCEPT ![m] = FALSE]
  BY DEF PutModuleRunning
<1>3. attr[m] \in BOOLEAN /\ flag[m] \in BOOLEAN
  BY <1>1
<1>4. CASE attr[m] /\ m \in registered
  <2>1. flag' = [flag EXCEPT ![m] = FALSE]
    BY <1>3, <1>4, Zenon DEF PutModuleRunning
  <2> QED BY <1>1, <1>2, <1>4, <2>1
<1>5. CASE ~attr[m]
  <2>1. attr[m] = FALSE BY <1>3, <1>5, Zenon
  <2>2. flag' = [flag EXCEPT ![m] = flag[m]]
    BY <2>1, Zenon DEF PutModuleRunning
  <2> QED BY <1>1, <1>2, <1>5, <2>2
<1>6. CASE m \notin registered
  <2>1. flag' = [flag EXCEPT ![m] = flag[m]]
    BY <1>6, Zenon DEF PutModuleRunning
  <2> QED BY <1>1, <1>2, <1>6, <2>1
<1> QED BY <1>4, <1>5, <1>6

\* The steps of caerMainloopRun.
LEMMA OuterSteps ==
  ASSUME IInv,
         \/ StartSystem \/ ListenSystem \/ StoreRunning \/ ListenRunning
         \/ EnterRun \/ LeaveOuter \/ UpdateInformation \/ FailRun
  PROVE  IInv'
<1> USE MainloopAssumption DEF IInv, TypeOK, DataInv, ShutdownInv
<1>1. CASE StartSystem       BY <1>1 DEF StartSystem
<1>2. CASE ListenSystem      BY <1>2 DEF ListenSystem
<1>3. CASE StoreRunning      BY <1>3 DEF StoreRunning
<1>4. CASE ListenRunning     BY <1>4 DEF ListenRunning
<1>5. CASE EnterRun          BY <1>5 DEF EnterRun
<1>6. CASE LeaveOuter        BY <1>6 DEF LeaveOuter
<1>7. CASE UpdateInformation BY <1>7 DEF UpdateInformation
<1>8. CASE FailRun           BY <1>8 DEF FailRun
<1> HIDE DEF IInv, TypeOK, DataInv, ShutdownInv
<1> QED BY <1>1, <1>2, <1>3, <1>4, <1>5, <1>6, <1>7, <1>8

\* Collecting, building and initialising.
LEMMA StartSteps ==
  ASSUME IInv,
         \/ CollectModules \/ BuildConnectivity \/ InitializeFails
         \/ BeginFirstPass
         \/ \E m \in Modules : InitializeModule(m) \/ AddShutdownListener(m)
  PROVE  IInv'
<1> USE MainloopAssumption DEF IInv, TypeOK, DataInv, ShutdownInv
<1>1. CASE CollectModules    BY <1>1 DEF CollectModules
<1>2. CASE BuildConnectivity BY <1>2 DEF BuildConnectivity, AbandonRun
<1>3. CASE InitializeFails   BY <1>3 DEF InitializeFails, AbandonRun
<1>4. CASE BeginFirstPass    BY <1>4 DEF BeginFirstPass
<1>5. ASSUME NEW m \in Modules, InitializeModule(m)
      PROVE  IInv'
  BY <1>5 DEF InitializeModule
<1>6. ASSUME NEW m \in Modules, AddShutdownListener(m)
      PROVE  IInv'
  BY <1>6 DEF AddShutdownListener
<1> HIDE DEF IInv, TypeOK, DataInv, ShutdownInv
<1> QED BY <1>1, <1>2, <1>3, <1>4, <1>5, <1>6

\* Running, stopping and destroying.
LEMMA RunSteps ==
  ASSUME IInv,
         \/ EndPass \/ LoopPass \/ LoopSleep \/ LoopExit \/ BeginLastPass
         \/ EndRun \/ UseRemovedNode
         \/ \E m \in Modules : \/ RunModule(m) \/ StopModule(m)
                               \/ DestroyModule(m) \/ DestroyRunningModule(m)
  PROVE  IInv'
<1> USE MainloopAssumption DEF IInv, TypeOK, DataInv, ShutdownInv
<1>1. CASE EndPass        BY <1>1 DEF EndPass
<1>2. CASE LoopPass       BY <1>2 DEF LoopPass
<1>3. CASE LoopSleep      BY <1>3 DEF LoopSleep
<1>4. CASE LoopExit       BY <1>4 DEF LoopExit
<1>5. CASE BeginLastPass  BY <1>5 DEF BeginLastPass
<1>6. CASE EndRun         BY <1>6 DEF EndRun
<1>7. CASE UseRemovedNode BY <1>7 DEF UseRemovedNode
<1>8. ASSUME NEW m \in Modules, RunModule(m)
      PROVE  IInv'
  <2> USE <1>8 DEF RunModule
  <2>1. CASE status[m] = "RUNNING" /\ flag[m]
    BY <2>1 DEF ModuleSM
  <2>2. CASE status[m] = "STOPPED" /\ flag[m]
    BY <2>2 DEF ModuleSM
  <2>3. CASE status[m] = "RUNNING" /\ ~flag[m] /\ m \in AutoRestart
    <3>1. /\ attr' = [attr EXCEPT ![m] = TRUE]
          /\ flag' = [flag EXCEPT ![m] = IF ~attr[m] /\ m \in registered
                                          THEN TRUE ELSE flag[m]]
          /\ status' = [status EXCEPT ![m] = "STOPPED"]
          /\ pending' = pending \ {m}
      BY <2>3 DEF ModuleSM, PutModuleRunning
    <3>2. TypeOK'      BY <3>1
    <3>3. DataInv'     BY <3>1
    <3>4. ShutdownInv' BY <3>1, <2>3
    <3> QED BY <3>2, <3>3, <3>4
  <2>4. CASE status[m] = "RUNNING" /\ ~flag[m] /\ m \notin AutoRestart
    BY <2>4 DEF ModuleSM
  <2>5. CASE status[m] = "STOPPED" /\ ~flag[m]
    BY <2>5 DEF ModuleSM
  <2>6. status[m] \in {"STOPPED", "RUNNING"}
    OBVIOUS
  <2> HIDE DEF IInv, TypeOK, DataInv, ShutdownInv, RunModule
  <2> QED BY <2>1, <2>2, <2>3, <2>4, <2>5, <2>6
<1>9. ASSUME NEW m \in Modules, StopModule(m)
      PROVE  IInv'
  <2>0. /\ pc = "stopping" /\ m \in todo \ dangling /\ todo' = todo \ {m}
        /\ PutModuleRunning(m, FALSE)
        /\ UNCHANGED <<pc, execution, sleepCount, flagVars, handler, nodeVars,
                       live, registered, status, pending, overridden, leftVars>>
    BY <1>9, Zenon DEF StopModule
  <2>4. TypeOK /\ DataInv /\ ShutdownInv BY Zenon
  <2> HIDE DEF TypeOK, DataInv, ShutdownInv
  <2>1. TypeOK' BY <2>0, PutFalse, Zenon DEF TypeOK
  <2>2. DataInv' BY <2>0 DEF DataInv
  <2>3. ShutdownInv'
    <3> SUFFICES ASSUME NEW n \in live \ overridden
                 PROVE  /\ flag'[n] => attr'[n]
                        /\ pc = "stopping" /\ n \notin todo' => ~flag'[n]
                        /\ pc = "lastPass" /\ n \in todo' => ~flag'[n]
                        /\ pc = "destroy" \/ (pc = "lastPass" /\ n \notin todo')
                             => status[n] = "STOPPED"
      BY <2>0 DEF ShutdownInv
    <3>1. /\ flag[n] => attr[n]
          /\ pc = "stopping" /\ n \notin todo => ~flag[n]
          /\ pc = "lastPass" /\ n \in todo => ~flag[n]
          /\ pc = "destroy" \/ (pc = "lastPass" /\ n \notin todo)
               => status[n] = "STOPPED"
      BY DEF ShutdownInv
    <3>2. n \in Modules BY <2>4 DEF TypeOK
    <3>3. CASE n = m
      <4>1. m \in registered
        BY <2>0, <2>4, <3>3 DEF DataInv
      <4>2. ~flag'[m]
        BY <2>0, <3>1, <3>3, <4>1, PutFalse, Zenon
      <4> QED BY <2>0, <3>3, <4>2
    <3>4. CASE n # m
      <4>1. attr'[n] = attr[n] /\ flag'[n] = flag[n]
        BY <2>0, <3>2, <3>4, PutFalse
      <4>2. n \in todo' <=> n \in todo BY <2>0, <3>4
      <4> QED BY <2>0, <3>1, <4>1, <4>2, Zenon
    <3> QED BY <3>3, <3>4
  <2> HIDE DEF TypeOK, DataInv, ShutdownInv
  <2> QED BY <2>1, <2>2, <2>3
<1>10. ASSUME NEW m \in Modules, DestroyModule(m)
       PROVE  IInv'
  BY <1>10 DEF DestroyModule
<1>11. ASSUME NEW m \in Modules, DestroyRunningModule(m)
       PROVE  IInv'
  BY <1>11 DEF DestroyRunningModule
<1> HIDE DEF IInv, TypeOK, DataInv, ShutdownInv
<1> QED BY <1>1, <1>2, <1>3, <1>4, <1>5, <1>6, <1>7, <1>8, <1>9, <1>10, <1>11

\* Signals, the modules' own threads and the clients.
LEMMA OtherSteps == IInv /\ OtherThreads => IInv'
<1> SUFFICES ASSUME IInv, OtherThreads PROVE IInv'
  OBVIOUS
<1> USE MainloopAssumption DEF IInv, TypeOK, DataInv, ShutdownInv
<1>1. CASE SignalFirstStore  BY <1>1 DEF SignalFirstStore
<1>2. CASE SignalSecondStore BY <1>2 DEF SignalSecondStore
<1>3. ASSUME NEW b \in BOOLEAN, PutSystemRunning(b)
      PROVE  IInv'
  <2>1. systemRunning' \in BOOLEAN /\ running' \in BOOLEAN
    BY <1>3, Zenon DEF PutSystemRunning
  <2>2. TypeOK'      BY <1>3, <2>1 DEF PutSystemRunning
  <2>3. DataInv'     BY <1>3 DEF PutSystemRunning
  <2>4. ShutdownInv' BY <1>3 DEF PutSystemRunning
  <2> QED BY <2>2, <2>3, <2>4
<1>4. ASSUME NEW b \in BOOLEAN, PutRunning(b)
      PROVE  IInv'
  <2>1. running' \in BOOLEAN
    BY <1>4, Zenon DEF PutRunning
  <2>2. TypeOK'      BY <1>4, <2>1 DEF PutRunning
  <2>3. DataInv'     BY <1>4 DEF PutRunning
  <2>4. ShutdownInv' BY <1>4 DEF PutRunning
  <2> QED BY <2>2, <2>3, <2>4
<1>5. ASSUME NEW m \in Modules, Publish(m)
      PROVE  IInv'
  BY <1>5 DEF Publish
<1>6. ASSUME NEW m \in Modules, StopsItself(m)
      PROVE  IInv'
  <2>0. /\ PutModuleRunning(m, FALSE)
        /\ m \in live \ dangling /\ status[m] = "RUNNING" /\ pc # "undefined"
        /\ UNCHANGED <<mainVars, flagVars, handler, nodeVars, live, registered,
                       status, pending, overridden, leftVars>>
    BY <1>6, Zenon DEF StopsItself, OwnThreads
  <2>4. TypeOK /\ DataInv /\ ShutdownInv BY Zenon
  <2> HIDE DEF TypeOK, DataInv, ShutdownInv
  <2>1. TypeOK' BY <2>0, <2>4, PutFalse, Zenon DEF TypeOK
  <2>2. DataInv' BY <2>0 DEF DataInv
  <2>3. ShutdownInv'
    <3> SUFFICES ASSUME NEW n \in live \ overridden
                 PROVE  /\ flag'[n] => attr'[n]
                        /\ pc = "stopping" /\ n \notin todo' => ~flag'[n]
                        /\ pc = "lastPass" /\ n \in todo' => ~flag'[n]
                        /\ pc = "destroy" \/ (pc = "lastPass" /\ n \notin todo')
                             => status[n] = "STOPPED"
      BY <2>0 DEF ShutdownInv
    <3>1. /\ flag[n] => attr[n]
          /\ pc = "stopping" /\ n \notin todo => ~flag[n]
          /\ pc = "lastPass" /\ n \in todo => ~flag[n]
          /\ pc = "destroy" \/ (pc = "lastPass" /\ n \notin todo)
               => status[n] = "STOPPED"
      BY DEF ShutdownInv
    <3>2. n \in Modules BY <2>4 DEF TypeOK
    <3>3. CASE n = m
      <4>1. m \in registered
        BY <2>0, <2>4 DEF DataInv
      <4>2. ~flag'[m]
        BY <2>0, <3>1, <3>3, <4>1, PutFalse, Zenon
      <4> QED BY <2>0, <3>1, <3>3, <4>2
    <3>4. CASE n # m
      <4>1. attr'[n] = attr[n] /\ flag'[n] = flag[n]
        BY <2>0, <3>2, <3>4, PutFalse
      <4>2. n \in todo' <=> n \in todo BY <2>0, <3>4
      <4> QED BY <2>0, <3>1, <4>1, <4>2, Zenon
    <3> QED BY <3>3, <3>4
  <2> QED BY <2>1, <2>2, <2>3
<1>7. ASSUME NEW m \in Modules, AddModule(m)
      PROVE  IInv'
  BY <1>7 DEF AddModule
<1>8. ASSUME NEW m \in Modules, RemoveModule(m)
      PROVE  IInv'
  BY <1>8 DEF RemoveModule
<1>9. ASSUME NEW m \in Modules, NEW b \in BOOLEAN,
             ClientPutModuleRunning(m, b)
      PROVE  IInv'
  BY <1>9 DEF ClientPutModuleRunning, PutModuleRunning, Revives
<1> HIDE DEF IInv, TypeOK, DataInv, ShutdownInv
<1> QED BY <1>1, <1>2, <1>3, <1>4, <1>5, <1>6, <1>7, <1>8, <1>9
        DEF OtherThreads

LEMMA NextPreserves == IInv /\ [Next]_vars => IInv'
<1> SUFFICES ASSUME IInv, [Next]_vars PROVE IInv'
  OBVIOUS
<1>1. CASE MainThread
  BY <1>1, OuterSteps, StartSteps, RunSteps DEF MainThread
<1>2. CASE OtherThreads
  BY <1>2, OtherSteps
<1>3. CASE UNCHANGED vars
  BY <1>3 DEF vars, IInv, TypeOK, DataInv, ShutdownInv
<1> QED BY <1>1, <1>2, <1>3 DEF Next

\* The inductive invariant holds in every reachable state.
THEOREM Invariance == Spec => []IInv
BY InitEstablishes, NextPreserves, PTL DEF Spec

\* Every variable of the mainloop model stays within its type.
THEOREM TypeCorrect == Spec => []TypeOK
<1>1. IInv => TypeOK BY DEF IInv
<1> QED BY <1>1, Invariance, PTL

\* No listener ever points to freed data, whatever modules are removed and
\* whatever starts fail; and no data that a start or a run left to be freed
\* outlives it, but for what a start that failed never frees.
THEOREM ListenersSafe == Spec => []ListenersPointToLiveData
<1>1. IInv => ListenersPointToLiveData
  BY DEF IInv, DataInv, ListenersPointToLiveData
<1> QED BY <1>1, Invariance, PTL

\* The shutdown of the mainloop stops every module that no client overrode
\* before its data is freed.
THEOREM ShutdownStopsModules == Spec => []StopReachesModules
<1>1. IInv => StopReachesModules
  BY DEF IInv, ShutdownInv, StopReachesModules
<1> QED BY <1>1, Invariance, PTL

----------------------------------------------------------------------------
(* The graph of the modules (ModuleGraph)                                  *)

HIDE DEF NoDataPlaces, Passes, Places, mainVars, flagVars, nodeVars, moduleVars,
         leftVars

\* A set of natural numbers has a least one.
LEMMA LeastNatural ==
  ASSUME NEW S, S \subseteq Nat, S # {}
  PROVE  \E x \in S : \A y \in S : x <= y
<1> DEFINE Segments == {0 .. n - 1 : n \in S}
<1>1. \A n \in S : 0 .. n - 1 \in SUBSET Nat /\ IsFiniteSet(0 .. n - 1)
  BY FS_Interval
<1>2. Segments \subseteq FiniteSubsetsOf(Nat) /\ Segments # {}
  BY <1>1 DEF FiniteSubsetsOf
<1>3. PICK X \in Segments : \A Y \in Segments :
        <<Y, X>> \notin StrictSubsetOrdering(Nat)
  <2> HIDE DEF Segments
  <2> QED BY <1>2, FS_StrictSubsetOrderingWellFounded, WFMin
<1>4. PICK x \in S : X = 0 .. x - 1
  OBVIOUS
<1>5. ASSUME NEW y \in S PROVE x <= y
  <2> SUFFICES ASSUME y < x PROVE FALSE
    OBVIOUS
  <2> DEFINE Y == 0 .. y - 1
  <2>1. Y \in Segments OBVIOUS
  <2>2. y \in X /\ y \notin Y BY <1>4
  <2>3. Y \subseteq X /\ X \subseteq Nat
    <3>1. x \in Nat /\ y \in Nat OBVIOUS
    <3> HIDE DEF Segments
    <3> QED BY <1>4, <3>1
  <2>4. <<Y, X>> \in (SUBSET Nat) \X (SUBSET Nat) BY <2>3
  <2>5. <<Y, X>> \in StrictSubsetOrdering(Nat)
    <3> HIDE DEF Y
    <3> QED BY <2>2, <2>3, <2>4 DEF StrictSubsetOrdering
  <2> QED BY <1>3, <2>1, <2>5
<1> QED BY <1>5

\* The stages of a configuration whose libraries are loaded.
GraphStages == {"inputs", "merge", "connect", "run"}

\* While libraries are loaded, those that are not waiting are; after a failure or a stop
\* nothing is left.
LoadInv ==
  /\ stage \in GraphPlaces
  /\ waiting \subseteq Ids
  /\ stage = "load" => DOMAIN info = Ids \ waiting
  /\ stage \in GraphStages => DOMAIN info = Ids
  /\ stage \in {"stopped", "failed", "crashed"} => info = Empty
  /\ stage \notin GraphStages => definition = Empty
  /\ stage \notin {"connect", "run"} => position = 1 /\ indexes = Empty /\ nextFreeSlot = 0
  /\ DOMAIN outputs = DOMAIN info
  /\ \A id \in DOMAIN info : /\ info[id] \in ModuleInfo
                         /\ outputs[id] \subseteq Int /\ IsFiniteSet(outputs[id])

\* What 'moduleInput' lists was checked: streams that exist, each once, after processors.
IsDefinition(def) ==
  /\ def \subseteq OrderedInput /\ IsFiniteSet(def) /\ def # {}
  /\ \A in \in def : /\ StreamOf(in) \in streams
                     /\ in.after # None => in.after \in Ids /\ info[in.after].type = "PROCESSOR"
  /\ \A in, other \in def : StreamOf(in) = StreamOf(other) => in = other

\* Every module but the INPUTs gets its definition; streams are active then, and no
\* module takes its own.
InputsInv ==
  stage \in GraphStages =>
    /\ streams \subseteq [source : Ids, type : Int]
    /\ DOMAIN definition = {id \in Ids : info[id].type # "INPUT"} \ waiting
    /\ stage # "inputs" => waiting = {}
    /\ \A id \in waiting : info[id].type # "INPUT"
    /\ \A id \in DOMAIN definition : IsDefinition(definition[id])
    /\ stage # "inputs" => \A st \in streams : Users(st) # {} /\ st.source \notin Users(st)

Ordered == stage \in {"connect", "run"}

OrderInv ==
  Ordered =>
    /\ order \in Seq(Ids)
    /\ \A j, k \in 1 .. Len(order) : order[j] = order[k] => j = k
    /\ position \in 1 .. Len(order) + 1

\* The positions that are connected, and the one that makes data what it is.
Connected == IF stage = "connect" THEN position - 1 ELSE Len(order)
At(data)  == Position(IF data.after = None THEN data.source ELSE data.after)

UsedFrom(data, k) == \E j \in k .. Len(order) : data \in DefinitionOf(order[j])

\* No data of a module before a position is in the slot.
NewAt(slot, k) == \A data \in DOMAIN indexes : indexes[data] = slot => At(data) >= k

\* All data in the table has a slot and was made by a connected module, at or after its
\* source: an output that is taken, or what a module has modified. What connected modules
\* take was made before them.
TableInv ==
  Ordered =>
    /\ nextFreeSlot \in Nat
    /\ \A data \in DOMAIN indexes :
         /\ data \in OrderedInput
         /\ IF data.after = None THEN data.type \in Taken(data.source)
            ELSE \E in \in Changed(data.after) : data = Result(in, data.after)
         /\ indexes[data] \in 0 .. nextFreeSlot - 1
         /\ \E k \in 1 .. Connected :
              /\ order[k] = IF data.after = None THEN data.source ELSE data.after
              /\ \E j \in 1 .. k : order[j] = data.source
    /\ \A k \in 1 .. Connected : \A in \in DefinitionOf(order[k]) :
         in \in DOMAIN indexes /\ At(in) < k

\* The first is not taken any more once the module that makes the second has run.
Replaced(d, e) == At(d) < At(e) /\ ~ UsedFrom(d, At(e) + 1)

\* Two kinds of data share a slot only if one replaces the other.
ShareInv ==
  Ordered =>
    \A d, e \in DOMAIN indexes :
      d # e /\ indexes[d] = indexes[e] => Replaced(d, e) \/ Replaced(e, d)

\* The slots of the outputs that are taken, and of the inputs: copies go where nothing
\* was before.
SlotOf(in, id) ==
  IF in \in Copied(id) THEN <<indexes[Result(in, id)], indexes[in]>> ELSE <<indexes[in], None>>

SlotsOf(id) == {SlotOf(in, id) : in \in DefinitionOf(id)}

OutSlotsAt(k, id) ==
  /\ id \in DOMAIN outSlots
  /\ \A t \in outputs[id] :
       IF t \in Taken(id)
       THEN LET data == Output(id, t)
            IN  /\ data \in DOMAIN indexes /\ outSlots[id][t] = indexes[data]
                /\ NewAt(indexes[data], k)
       ELSE outSlots[id][t] = None

InSlotsAt(k, id) ==
  /\ id \in DOMAIN inputs
  /\ inputs[id] = SlotsOf(id)
  /\ \A in \in Changed(id) :
       LET data == Result(in, id)
       IN  /\ data \in DOMAIN indexes
           /\ IF in \in Copied(id) THEN NewAt(indexes[data], k)
                                   ELSE indexes[data] = indexes[in]

OutSlotsInv ==
  Ordered => \A k \in 1 .. Connected, id \in Ids : order[k] = id => OutSlotsAt(k, id)

InSlotsInv ==
  Ordered => \A k \in 1 .. Connected, id \in Ids : order[k] = id => InSlotsAt(k, id)

ProcessorsInv ==
  stage = "run" => \A id \in Ids : info[id].type = "PROCESSOR" => IsUseful(id)

\* The packet of data in a pass: of a stream that has one, with the changes of the modules
\* before that ran.
PacketOf(data) ==
  IF StreamOf(data) \in produced
  THEN [source |-> data.source, type |-> data.type,
        writers |-> Chain(StreamOf(data), data.after) \cap ran]
  ELSE NoPacket

\* All data that is made and still taken is in its slot; slots that are not in use yet
\* are empty.
PassInv ==
  stage = "run" =>
    /\ DOMAIN packets = 0 .. nextFreeSlot - 1
    /\ \A id \in ran : \E j \in 1 .. position - 1 : order[j] = id
    /\ \A st \in produced : \E j \in 1 .. position - 1 : order[j] = st.source
    /\ \A data \in DOMAIN indexes :
         At(data) < position /\ UsedFrom(data, position) => packets[indexes[data]] = PacketOf(data)
    /\ \A slot \in DOMAIN packets : NewAt(slot, position) => packets[slot] = NoPacket

GraphInv ==
  /\ LoadInv /\ InputsInv /\ OrderInv /\ TableInv /\ ShareInv /\ OutSlotsInv /\ InSlotsInv
  /\ ProcessorsInv /\ PassInv

\* Before the order is made, only the libraries and the definitions matter.
LEMMA Unordered ==
  (LoadInv /\ InputsInv /\ stage \notin {"connect", "run"} => GraphInv)'
BY DEF GraphInv, OrderInv, TableInv, ShareInv, OutSlotsInv, InSlotsInv, ProcessorsInv, PassInv,
       Ordered

LEMMA IdsAreNaturals == Ids \subseteq Nat \ {0}
BY ModuleGraphAssumption

LEMMA LeastIn ==
  ASSUME NEW S, S \subseteq Ids, S # {}
  PROVE  Least(S) \in S
<1>1. S \subseteq Nat BY ModuleGraphAssumption
<1> QED BY <1>1, LeastNatural DEF Least

LEMMA RangeIsFinite ==
  ASSUME NEW T, NEW seq \in Seq(T)
  PROVE  IsFiniteSet(Range(seq))
<1>1. seq \in Surjection(1 .. Len(seq), Range(seq))
  BY DEF Surjection, Range
<1>2. IsFiniteSet(1 .. Len(seq))
  BY FS_Interval
<1> QED BY <1>1, <1>2, FS_Surjection

LEMMA GraphInitially == GraphInit => GraphInv
<1> SUFFICES ASSUME GraphInit PROVE GraphInv
  OBVIOUS
<1>1. LoadInv BY DEF GraphInit, LoadInv, GraphPlaces, GraphStages, Empty
<1> QED BY <1>1 DEF GraphInit, GraphInv, InputsInv, OrderInv, TableInv, ShareInv, OutSlotsInv,
               InSlotsInv, ProcessorsInv, PassInv, Ordered, GraphStages

\* A failure or a stop leaves nothing.
LEMMA FailKeeps ==
  ASSUME NEW place \in {"stopped", "failed", "crashed"}, Fail(place)
  PROVE  GraphInv'
<1>1. LoadInv'
  BY DEF Fail, Cleanup, LoadInv, GraphPlaces, GraphStages, Empty
<1>2. InputsInv'
  BY DEF Fail, InputsInv, GraphStages
<1> QED BY <1>1, <1>2, Unordered DEF Fail

LEMMA LoadKeeps == GraphInv /\ LoadModule => GraphInv'
<1> SUFFICES ASSUME GraphInv, LoadModule PROVE GraphInv'
  OBVIOUS
<1> DEFINE id == Least(waiting)
<1>1. stage = "load" /\ waiting # {} BY DEF LoadModule
<1>2. LoadInv BY DEF GraphInv
<1>3. waiting \subseteq Ids /\ id \in waiting
  <2>1. waiting \subseteq Ids BY <1>2 DEF LoadInv
  <2> QED BY <1>1, <2>1, LeastIn
<1> HIDE DEF id
<1>4. CASE Fail("failed") BY <1>4, FailKeeps
<1>5. CASE ~ Fail("failed")
  <2>1. PICK lib \in Libraries[id], given \in OutputChoices \cup {<<None>>} :
          /\ waiting' = waiting \ {id}
          /\ info' = With(info, id, lib)
          /\ outputs' = With(outputs, id, Range(IF lib.out = <<AnyType>> THEN given ELSE lib.out))
          /\ UNCHANGED <<stage, definition, position, indexes, nextFreeSlot>>
    BY <1>5, SMT DEF LoadModule, id, libs, slots, pass
  <2>2. lib \in ModuleInfo /\ given \in Seq(Int)
    <3>1. None \in Int BY DEF None
    <3>2. <<None>> \in Seq(Int) BY <3>1
    <3> QED BY <1>3, <3>2, ModuleGraphAssumption
  <2> DEFINE types == IF lib.out = <<AnyType>> THEN given ELSE lib.out
  <2>3. IsFiniteSet(Range(types)) /\ Range(types) \subseteq Int
    <3>1. types \in Seq(Int) BY <2>2 DEF ModuleInfo
    <3> QED BY <3>1, RangeIsFinite DEF Range
  <2>4. /\ DOMAIN info' = DOMAIN info \cup {id} /\ DOMAIN outputs' = DOMAIN outputs \cup {id}
        /\ info'[id] = lib /\ outputs'[id] = Range(types)
        /\ \A m \in DOMAIN info \ {id} : info'[m] = info[m] /\ outputs'[m] = outputs[m]
    BY <1>2, <2>1, <2>3 DEF With, LoadInv
  <2>5. \A m \in DOMAIN info' : /\ info'[m] \in ModuleInfo
                           /\ outputs'[m] \subseteq Int /\ IsFiniteSet(outputs'[m])
    BY <1>2, <2>2, <2>3, <2>4 DEF LoadInv
  <2>6. DOMAIN info' = Ids \ waiting' /\ DOMAIN outputs' = DOMAIN info'
    BY <1>1, <1>2, <1>3, <2>1, <2>4 DEF LoadInv
  <2>7. LoadInv'
    BY <1>1, <1>2, <2>1, <2>5, <2>6 DEF LoadInv, GraphStages
  <2>8. InputsInv' BY <1>1, <2>1 DEF InputsInv, GraphStages
  <2> QED BY <1>1, <2>1, <2>7, <2>8, Unordered
<1> QED BY <1>4, <1>5

LEMMA ParseOutputsKeeps == GraphInv /\ ParseOutputs => GraphInv'
<1> SUFFICES ASSUME GraphInv, ParseOutputs PROVE GraphInv'
  OBVIOUS
<1>1. stage = "load" /\ waiting = {} BY DEF ParseOutputs
<1>2. LoadInv BY DEF GraphInv
<1>3. CASE Fail("failed") BY <1>3, FailKeeps
<1>4. CASE ~ Fail("failed")
  <2>1. /\ streams' = UNION {{[source |-> id, type |-> t] : t \in outputs[id]} : id \in Ids}
        /\ stage' = "inputs" /\ waiting' = {id \in Ids : info[id].type # "INPUT"}
        /\ UNCHANGED <<info, outputs, definition, position, indexes, nextFreeSlot>>
    BY <1>4 DEF ParseOutputs, libs, slots, pass
  <2>2. LoadInv'
    BY <1>1, <1>2, <2>1 DEF LoadInv, GraphStages, GraphPlaces
  <2>3. streams' \subseteq [source : Ids, type : Int]
    BY <1>1, <1>2, <2>1 DEF LoadInv
  <2>4. InputsInv'
    BY <1>1, <1>2, <2>1, <2>3 DEF InputsInv, LoadInv, GraphStages, Empty
  <2> QED BY <2>1, <2>2, <2>4, Unordered
<1> QED BY <1>3, <1>4

LEMMA ParseInputKeeps == GraphInv /\ ParseInput => GraphInv'
<1> SUFFICES ASSUME GraphInv, ParseInput PROVE GraphInv'
  OBVIOUS
<1> DEFINE id == Least(waiting)
<1>1. stage = "inputs" /\ waiting # {} BY DEF ParseInput
<1>2. LoadInv /\ InputsInv BY DEF GraphInv
<1>3. waiting \subseteq Ids /\ id \in waiting
  <2>1. waiting \subseteq Ids BY <1>2 DEF LoadInv
  <2> QED BY <1>1, <2>1, LeastIn
<1> HIDE DEF id
<1>4. CASE Fail("failed") BY <1>4, FailKeeps
<1>5. CASE ~ Fail("failed")
  <2>1. PICK def \in InputChoices[id] :
          /\ ModuleInputOK(def)
          /\ waiting' = waiting \ {id}
          /\ definition' = With(definition, id, def)
          /\ UNCHANGED <<stage, info, outputs, streams, position, indexes, nextFreeSlot>>
    BY <1>5, SMT DEF ParseInput, id, libs, slots, pass
  <2>2. IsDefinition(def)
    <3>1. def \subseteq OrderedInput /\ IsFiniteSet(def)
      BY <1>3, ModuleGraphAssumption
    <3> QED BY <2>1, <3>1 DEF IsDefinition, ModuleInputOK
  <2>3. /\ DOMAIN definition' = DOMAIN definition \cup {id} /\ definition'[id] = def
        /\ \A m \in DOMAIN definition \ {id} : definition'[m] = definition[m]
    BY <2>1 DEF With
  <2>4. \A m \in DOMAIN definition' : IsDefinition(definition'[m])
    BY <1>1, <1>2, <2>2, <2>3 DEF InputsInv, GraphStages
  <2>5. \A m \in DOMAIN definition' : IsDefinition(definition[m])'
    BY <2>1, <2>4 DEF IsDefinition
  <2>6. LoadInv'
    BY <1>1, <1>2, <2>1 DEF LoadInv, GraphStages
  <2>7. info[id].type # "INPUT" /\ id \in Ids
    BY <1>1, <1>2, <1>3 DEF InputsInv, GraphStages
  <2>8. InputsInv'
    BY <1>1, <1>2, <1>3, <2>1, <2>3, <2>5, <2>7 DEF InputsInv, GraphStages
  <2> QED BY <1>1, <2>1, <2>6, <2>8, Unordered
<1> QED BY <1>4, <1>5

LEMMA CheckStreamsKeeps == GraphInv /\ CheckStreams => GraphInv'
<1> SUFFICES ASSUME GraphInv, CheckStreams PROVE GraphInv'
  OBVIOUS
<1> DEFINE active == {st \in streams : Users(st) # {}}
<1>1. stage = "inputs" /\ waiting = {} BY DEF CheckStreams
<1>2. LoadInv /\ InputsInv BY DEF GraphInv
<1>3. CASE Fail("failed") BY <1>3, FailKeeps
<1>4. CASE ~ Fail("failed")
  <2>1. /\ \A st \in active : st.source \notin Users(st)
        /\ streams' = active /\ stage' = "merge"
        /\ UNCHANGED <<waiting, info, outputs, definition, position, indexes, nextFreeSlot>>
    BY <1>4 DEF CheckStreams, libs, slots, pass
  <2>2. ASSUME NEW id \in DOMAIN definition PROVE IsDefinition(definition[id])'
    <3>1. IsDefinition(definition[id])
      BY <1>1, <1>2 DEF InputsInv, GraphStages
    <3>2. \A in \in definition[id] : StreamOf(in) \in active
      BY <3>1 DEF IsDefinition, Users
    <3> QED BY <2>1, <3>1, <3>2 DEF IsDefinition
  <2>3. \A st \in active : Users(st) # {} /\ st.source \notin Users(st)
    BY <2>1
  <2>4. \A st \in active : (Users(st) # {} /\ st.source \notin Users(st))'
    BY <2>1, <2>3 DEF Users
  <2>5. LoadInv'
    BY <1>1, <1>2, <2>1 DEF LoadInv, GraphStages, GraphPlaces
  <2>6. InputsInv'
    <3> HIDE DEF active
    <3>1. active \subseteq streams BY DEF active
    <3> QED BY <1>1, <1>2, <2>1, <2>2, <2>4, <3>1 DEF InputsInv, GraphStages
  <2> QED BY <2>1, <2>5, <2>6, Unordered
<1> QED BY <1>3, <1>4

\* What does not touch libraries, definitions and streams.
LEMMA MergeKeepsInputs ==
  ASSUME GraphInv, stage = "merge", stage' \in {"merge", "connect"},
         UNCHANGED <<waiting, info, outputs, definition, streams, position, indexes, nextFreeSlot>>
  PROVE  (LoadInv /\ InputsInv)'
<1>1. LoadInv /\ InputsInv BY DEF GraphInv
<1>2. LoadInv' BY <1>1 DEF LoadInv, GraphStages, GraphPlaces
<1>3. InputsInv' BY <1>1 DEF InputsInv, GraphStages, IsDefinition, Users
<1> QED BY <1>2, <1>3

LEMMA MergeKeeps == GraphInv /\ (MergeStream \/ MergeLink) => GraphInv'
<1> SUFFICES ASSUME GraphInv, MergeStream \/ MergeLink PROVE GraphInv'
  OBVIOUS
<1>1. CASE Fail("failed") \/ Fail("crashed") BY <1>1, FailKeeps
<1>2. CASE ~ Fail("failed") /\ ~ Fail("crashed")
  <2>1. /\ stage = "merge"
        /\ UNCHANGED <<stage, waiting, info, outputs, definition, streams, position, indexes,
                       nextFreeSlot>>
    <3>1. CASE MergeStream BY <3>1 DEF MergeStream, libs, slots, pass
    <3>2. CASE MergeLink BY <1>2, <3>2, Zenon DEF MergeLink, libs, slots, pass
    <3> QED BY <3>1, <3>2
  <2> QED BY <2>1, MergeKeepsInputs, Unordered
<1> QED BY <1>1, <1>2

LEMMA RestartKeeps == GraphInv /\ Restart => GraphInv'
<1> SUFFICES ASSUME GraphInv, Restart PROVE GraphInv'
  OBVIOUS
<1>1. LoadInv BY DEF GraphInv
<1>2. /\ stage \in {"stopped", "failed", "crashed"} /\ stage' = "load" /\ waiting' = Ids
      /\ UNCHANGED <<info, outputs, definition, position, indexes, nextFreeSlot>>
  BY DEF Restart, libs, slots, pass
<1>3. LoadInv' BY <1>1, <1>2 DEF LoadInv, GraphStages, GraphPlaces, Empty
<1>4. InputsInv' BY <1>2 DEF InputsInv, GraphStages
<1> QED BY <1>2, <1>3, <1>4, Unordered

LEMMA OrderKeeps == GraphInv /\ OrderModules => GraphInv'
<1> SUFFICES ASSUME GraphInv, OrderModules PROVE GraphInv'
  OBVIOUS
<1> DEFINE ids == DOMAIN tree \cap Ids
           n   == Cardinality(ids)
<1>1. /\ stage = "merge" /\ stage' = "connect" /\ order' \in SetToSeqs(ids)
      /\ UNCHANGED <<waiting, info, outputs, definition, streams, position, indexes, nextFreeSlot>>
  BY DEF OrderModules, libs, slots, pass
<1>2. LoadInv BY DEF GraphInv
<1>3. (LoadInv /\ InputsInv)' BY <1>1, MergeKeepsInputs
<1>4. n \in Nat
  <2>1. IsFiniteSet(ids) BY ModuleGraphAssumption, FS_Subset
  <2> QED BY <2>1, FS_CardinalityType
<1>5. order' \in [1 .. n -> ids] /\ \A j, k \in 1 .. n : order'[j] = order'[k] => j = k
  BY <1>1 DEF SetToSeqs
<1>6. position = 1 /\ indexes = Empty /\ nextFreeSlot = 0
  BY <1>1, <1>2 DEF LoadInv
<1> HIDE DEF n
<1>7. order' \in Seq(Ids) /\ Len(order') = n
  BY <1>4, <1>5
<1>8. OrderInv'
  BY <1>1, <1>4, <1>5, <1>6, <1>7 DEF OrderInv
<1>9. Connected' = 0 BY <1>1, <1>6 DEF Connected
<1>10. DOMAIN indexes' = {} BY <1>1, <1>6 DEF Empty
<1>11. (TableInv /\ ShareInv /\ OutSlotsInv /\ InSlotsInv)'
  BY <1>1, <1>6, <1>9, <1>10 DEF TableInv, ShareInv, OutSlotsInv, InSlotsInv
<1>12. (ProcessorsInv /\ PassInv)'
  BY <1>1 DEF ProcessorsInv, PassInv
<1> QED BY <1>3, <1>8, <1>11, <1>12 DEF GraphInv

\* Positions are those of the order, since no module is in it twice.
LEMMA PositionIs ==
  ASSUME OrderInv, Ordered, NEW k \in 1 .. Len(order)
  PROVE  Position(order[k]) = k /\ order[k] \in Ids
BY DEF OrderInv, Position

\* What the table says of the data in it.
LEMMA TableData ==
  ASSUME GraphInv, Ordered, NEW data \in DOMAIN indexes
  PROVE  /\ data \in OrderedInput
         /\ At(data) \in 1 .. Connected
         /\ order[At(data)] = IF data.after = None THEN data.source ELSE data.after
         /\ \E j \in 1 .. At(data) : order[j] = data.source
         /\ indexes[data] \in 0 .. nextFreeSlot - 1
         /\ Connected \in 0 .. Len(order)
<1>1. OrderInv /\ TableInv BY DEF GraphInv
<1>2. Connected \in 0 .. Len(order) BY <1>1 DEF OrderInv, Connected, Ordered
<1>3. PICK k \in 1 .. Connected :
        /\ order[k] = IF data.after = None THEN data.source ELSE data.after
        /\ \E j \in 1 .. k : order[j] = data.source
  BY <1>1 DEF TableInv
<1>4. At(data) = k BY <1>1, <1>2, <1>3, PositionIs DEF At
<1> QED BY <1>1, <1>2, <1>3, <1>4 DEF TableInv

\* Two kinds of data that are both still taken are in two slots.
LEMMA SlotsInUseDiffer ==
  ASSUME GraphInv, Ordered, NEW d \in DOMAIN indexes, NEW e \in DOMAIN indexes,
         indexes[d] = indexes[e], NEW k \in 1 .. Len(order),
         At(d) < k, At(e) < k, UsedFrom(d, k), UsedFrom(e, k)
  PROVE  d = e
<1>1. ShareInv BY DEF GraphInv
<1>2. At(d) \in Nat /\ At(e) \in Nat BY TableData
<1>3. SUFFICES ASSUME d # e PROVE FALSE OBVIOUS
<1>4. ~ UsedFrom(d, At(e) + 1) \/ ~ UsedFrom(e, At(d) + 1)
  BY <1>1, <1>3 DEF ShareInv, Replaced
<1> HIDE DEF At
<1>5. k .. Len(order) \subseteq At(e) + 1 .. Len(order)
      /\ k .. Len(order) \subseteq At(d) + 1 .. Len(order)
  <2>1. Len(order) \in Nat BY DEF GraphInv, OrderInv
  <2> QED BY <1>2, <2>1
<1> QED BY <1>4, <1>5 DEF UsedFrom

\* The table of the definitions of a module.
LEMMA DefinitionData ==
  ASSUME GraphInv, Ordered, NEW id \in Ids
  PROVE  /\ DefinitionOf(id) \subseteq OrderedInput
         /\ IsFiniteSet(DefinitionOf(id))
         /\ \A in, other \in DefinitionOf(id) : StreamOf(in) = StreamOf(other) => in = other
         /\ \A in \in DefinitionOf(id) : id \in Users(StreamOf(in)) /\ StreamOf(in) \in streams
<1>1. InputsInv BY DEF GraphInv
<1>2. CASE id \in DOMAIN definition
  <2>1. IsDefinition(definition[id]) BY <1>1, <1>2 DEF InputsInv, GraphStages, Ordered
  <2> QED BY <1>2, <2>1 DEF IsDefinition, DefinitionOf, Users
<1>3. CASE id \notin DOMAIN definition BY <1>3, FS_EmptySet DEF DefinitionOf
<1> QED BY <1>2, <1>3

\* The new data of a module is finite, and its slots follow those in use.
LEMMA NewSlotsFollow ==
  ASSUME GraphInv, Ordered, NEW id \in Ids
  PROVE  /\ Cardinality(NewData(id)) \in Nat
         /\ nextFreeSlot \in Nat
         /\ NewSlots(id) \in [NewData(id) ->
                                nextFreeSlot .. nextFreeSlot + Cardinality(NewData(id)) - 1]
         /\ \A d, e \in NewData(id) : NewSlots(id)[d] = NewSlots(id)[e] => d = e
         /\ \A slot \in nextFreeSlot .. nextFreeSlot + Cardinality(NewData(id)) - 1 :
              \E d \in NewData(id) : NewSlots(id)[d] = slot
<1> DEFINE made   == {Output(id, t) : t \in Taken(id)}
           copies == {Result(in, id) : in \in Copied(id)}
<1>1. IsFiniteSet(made)
  <2>1. IsFiniteSet(outputs[id])
    BY DEF GraphInv, LoadInv, Ordered, GraphStages
  <2>2. IsFiniteSet(Taken(id)) BY <2>1, FS_Subset DEF Taken
  <2>3. [t \in Taken(id) |-> Output(id, t)] \in Surjection(Taken(id), made)
    BY DEF Surjection
  <2> QED BY <2>2, <2>3, FS_Surjection
<1>2. IsFiniteSet(copies)
  <2>1. IsFiniteSet(Copied(id)) BY DefinitionData, FS_Subset DEF Copied, Changed
  <2>2. [in \in Copied(id) |-> Result(in, id)] \in Surjection(Copied(id), copies)
    BY DEF Surjection
  <2> QED BY <2>1, <2>2, FS_Surjection
<1>3. IsFiniteSet(NewData(id)) BY <1>1, <1>2, FS_Union DEF NewData
<1>4. Cardinality(NewData(id)) \in Nat BY <1>3, FS_CardinalityType
<1>5. nextFreeSlot \in Nat BY DEF GraphInv, TableInv
<1> DEFINE free == nextFreeSlot .. nextFreeSlot + Cardinality(NewData(id)) - 1
<1>6. IsFiniteSet(free) /\ Cardinality(free) = Cardinality(NewData(id))
  <2>1. ASSUME NEW first \in Nat, NEW n \in Nat
        PROVE  /\ IsFiniteSet(first .. first + n - 1)
               /\ Cardinality(first .. first + n - 1) = n
    <3>1. first + n - 1 \in Int OBVIOUS
    <3> QED BY <3>1, FS_Interval
  <2> QED BY <1>4, <1>5, <2>1
<1>7. ExistsBijection(NewData(id), free) BY <1>3, <1>6, FS_SameCardinalityBij
<1>8. NewSlots(id) \in Bijection(NewData(id), free)
  BY <1>7 DEF ExistsBijection, NewSlots
<1> QED BY <1>4, <1>5, <1>8 DEF Bijection, Injection, Surjection, IsInjective

\* What does not change once there is an order.
LEMMA OrderedKeeps ==
  ASSUME Ordered, stage' \in {"connect", "run"},
         UNCHANGED <<waiting, libs, definition, streams, order>>
  PROVE  /\ LoadInv /\ InputsInv => (LoadInv /\ InputsInv)'
         /\ \A data : At(data)' = At(data)
         /\ \A data, k : UsedFrom(data, k)' <=> UsedFrom(data, k)
         /\ \A d, e : Replaced(d, e)' <=> Replaced(d, e)
         /\ \A id : /\ DefinitionOf(id)' = DefinitionOf(id) /\ Taken(id)' = Taken(id)
                    /\ Changed(id)' = Changed(id) /\ Copied(id)' = Copied(id)
<1>1. LoadInv /\ InputsInv => (LoadInv /\ InputsInv)'
  <2> SUFFICES ASSUME LoadInv, InputsInv PROVE (LoadInv /\ InputsInv)'
    OBVIOUS
  <2>1. LoadInv' BY DEF LoadInv, Ordered, GraphStages, GraphPlaces, libs
  <2>2. InputsInv' BY DEF InputsInv, Ordered, GraphStages, IsDefinition, Users, libs
  <2> QED BY <2>1, <2>2
<1>2. \A data : At(data)' = At(data) BY DEF At, Position
<1>3. \A id : DefinitionOf(id)' = DefinitionOf(id) BY DEF DefinitionOf
<1>4. \A data, k : UsedFrom(data, k)' <=> UsedFrom(data, k)
  BY <1>3 DEF UsedFrom
<1>8. \A d, e : Replaced(d, e)' <=> Replaced(d, e)
  BY DEF Replaced, UsedFrom, DefinitionOf, At, Position
<1>5. \A id : Taken(id)' = Taken(id) BY DEF Taken, libs
<1>6. \A id : Changed(id)' = Changed(id) BY <1>3 DEF Changed, CopyNeeded, libs
<1>7. \A id : Copied(id)' = Copied(id) BY <1>6 DEF Copied, UsedLater, Position
<1> QED BY <1>1, <1>2, <1>3, <1>4, <1>5, <1>6, <1>7, <1>8

\* A copy is made if and only if a later module takes what this one modifies.
LEMMA CopiedIfUsed ==
  ASSUME GraphInv, Ordered, NEW k \in 1 .. Len(order), NEW in \in Changed(order[k])
  PROVE  in \in Copied(order[k]) <=> UsedFrom(in, k + 1)
<1>1. Position(order[k]) = k /\ order[k] \in Ids BY PositionIs DEF GraphInv
<1>2. in \in OrderedInput BY <1>1, DefinitionData DEF Changed
<1>3. in = [source |-> in.source, type |-> in.type, after |-> in.after]
  BY <1>2 DEF OrderedInput
<1>4. UsedLater(in.source, in.type, in.after, order[k]) <=> UsedFrom(in, k + 1)
  BY <1>1, <1>3 DEF UsedLater, UsedFrom, DefinitionOf
<1> QED BY <1>4 DEF Copied

LEMMA ConnectKeeps == GraphInv /\ ConnectModule => GraphInv'
<1> SUFFICES ASSUME GraphInv, ConnectModule, ~ Fail("failed") PROVE GraphInv'
  BY FailKeeps
<1> DEFINE n       == position
           id      == order[n]
           new     == NewSlots(id)
           Same(d) == CHOOSE in \in Changed(id) : StreamOf(in) = StreamOf(d)
           In(in)  == IF in \in Copied(id) THEN <<new[Result(in, id)], indexes[in]>>
                                           ELSE <<indexes[in], None>>
           results == {Result(in, id) : in \in Changed(id)}
           card    == Cardinality(NewData(id))
<1>1. /\ stage = "connect" /\ n <= Len(order) /\ DefinitionOf(id) \subseteq DOMAIN indexes
      /\ outSlots' = With(outSlots, id,
            [t \in outputs[id] |-> IF t \in Taken(id) THEN new[Output(id, t)] ELSE None])
      /\ inputs' = With(inputs, id, {In(in) : in \in DefinitionOf(id)})
      /\ indexes' = [d \in DOMAIN indexes \cup NewData(id) \cup results |->
                       IF d \in NewData(id) THEN new[d]
                       ELSE IF d.after = id THEN indexes[Same(d)] ELSE indexes[d]]
      /\ nextFreeSlot' = nextFreeSlot + card
      /\ position' = n + 1
      /\ UNCHANGED <<waiting, stage, libs, definition, streams, order>>
  BY Zenon DEF ConnectModule
<1>2. /\ LoadInv /\ InputsInv /\ OrderInv /\ TableInv /\ ShareInv /\ OutSlotsInv /\ InSlotsInv
      /\ Ordered
  BY <1>1 DEF GraphInv, Ordered
<1>3. /\ n \in 1 .. Len(order) /\ Len(order) \in Nat /\ id \in Ids /\ id # None
      /\ Connected = n - 1 /\ Connected' = n
      /\ \A k \in 1 .. Len(order) : order[k] = id => k = n
  BY <1>1, <1>2, ModuleGraphAssumption DEF OrderInv, Connected, None
<1>4. /\ (LoadInv /\ InputsInv)' /\ Ordered'
      /\ \A d : At(d)' = At(d)
      /\ \A d, e : Replaced(d, e)' <=> Replaced(d, e)
      /\ \A m : /\ DefinitionOf(m)' = DefinitionOf(m) /\ Taken(m)' = Taken(m)
                /\ Changed(m)' = Changed(m) /\ Copied(m)' = Copied(m)
  BY <1>1, <1>2, OrderedKeeps DEF Ordered
<1>5. OrderInv'
  BY <1>1, <1>2, <1>3 DEF OrderInv
<1>6. /\ card \in Nat /\ nextFreeSlot \in Nat
      /\ new \in [NewData(id) -> nextFreeSlot .. nextFreeSlot + card - 1]
      /\ \A d, e \in NewData(id) : new[d] = new[e] => d = e
  BY <1>2, <1>3, NewSlotsFollow
<1> HIDE DEF new, card
<1>7. ASSUME NEW d \in DOMAIN indexes
      PROVE  /\ d \in OrderedInput /\ At(d) \in 1 .. n - 1
             /\ order[At(d)] = IF d.after = None THEN d.source ELSE d.after
             /\ \E j \in 1 .. At(d) : order[j] = d.source
             /\ d.after # id /\ d.source # id
             /\ indexes[d] \in 0 .. nextFreeSlot - 1
  <2>1. /\ d \in OrderedInput /\ At(d) \in 1 .. n - 1
        /\ order[At(d)] = IF d.after = None THEN d.source ELSE d.after
        /\ \E j \in 1 .. At(d) : order[j] = d.source
        /\ indexes[d] \in 0 .. nextFreeSlot - 1
    BY <1>2, <1>3, TableData
  <2> HIDE DEF id, n
  <2> QED BY <1>3, <2>1
<1>8. ASSUME NEW in \in DefinitionOf(id)
      PROVE  in \in DOMAIN indexes /\ in \in OrderedInput /\ At(in) \in 1 .. n - 1
             /\ UsedFrom(in, n)
  BY <1>1, <1>3, <1>7 DEF UsedFrom
<1>9. ASSUME NEW d \in NewData(id) \cup results
      PROVE  /\ d \notin DOMAIN indexes /\ d \in OrderedInput
             /\ id = IF d.after = None THEN d.source ELSE d.after
             /\ \E j \in 1 .. n : order[j] = d.source
             /\ IF d.after = None THEN d.type \in Taken(d.source)
                ELSE \E in \in Changed(d.after) : d = Result(in, d.after)
             /\ At(d) = n
             /\ d \in results => d.after = id
  <2>0. id \in Int /\ None \in Int
    <3>1. None \in Int BY DEF None
    <3>2. id \in Ids BY <1>3
    <3> HIDE DEF id
    <3> QED BY <3>1, <3>2, IdsAreNaturals
  <2>1. CASE d \in {Output(id, t) : t \in Taken(id)}
    <3>1. PICK t \in Taken(id) : d = Output(id, t) BY <2>1
    <3>2. t \in Int
      BY <1>2, <1>3 DEF LoadInv, Taken, Ordered, GraphStages
    <3>3. d \in OrderedInput /\ d.source = id /\ d.after = None /\ d.type = t
      BY <2>0, <3>1, <3>2 DEF Output, OrderedInput
    <3>4. At(d) = n BY <1>2, <1>3, <3>3, PositionIs DEF At
    <3>5. d \notin results BY <1>3, <3>3 DEF Result
    <3> HIDE DEF results
    <3> QED BY <1>3, <1>7, <3>1, <3>3, <3>4, <3>5
  <2>2. CASE d \in results
    <3>1. PICK in \in Changed(id) : d = Result(in, id) BY <2>2
    <3>2. in \in DefinitionOf(id) /\ id \in DOMAIN definition BY DEF Changed, DefinitionOf
    <3>3. d \in OrderedInput /\ d.source = in.source /\ d.after = id
      BY <1>8, <2>0, <3>1, <3>2 DEF Result, OrderedInput
    <3>4. At(d) = n BY <1>2, <1>3, <3>3, PositionIs DEF At
    <3>5. in \in DOMAIN indexes /\ At(in) \in 1 .. n - 1
      BY <1>8, <3>2
    <3>6. \E j \in 1 .. At(in) : order[j] = in.source
      BY <1>7, <3>5
    <3>7. \E j \in 1 .. n : order[j] = in.source
      <4> HIDE DEF n, id
      <4> QED BY <1>3, <3>5, <3>6
    <3> HIDE DEF results, id
    <3> QED BY <1>3, <1>7, <3>1, <3>2, <3>3, <3>4, <3>7
  <2> QED BY <2>1, <2>2 DEF NewData, Copied
<1>10. /\ DOMAIN indexes' = DOMAIN indexes \cup NewData(id) \cup results
       /\ \A d \in DOMAIN indexes : indexes'[d] = indexes[d]
       /\ \A d \in NewData(id) : indexes'[d] = new[d]
  BY <1>1, <1>7, <1>9, Zenon
<1>11. \A in \in Copied(id) : Result(in, id) \in NewData(id)
  BY DEF NewData
<1>12. ASSUME NEW in \in Changed(id) \ Copied(id)
       PROVE  /\ Result(in, id) \in DOMAIN indexes' /\ Result(in, id) \notin NewData(id)
              /\ indexes'[Result(in, id)] = indexes[in]
  <2>1. \A other \in Changed(id) :
          StreamOf(other) = StreamOf(Result(in, id)) => other = in
    <3>1. StreamOf(Result(in, id)) = StreamOf(in) BY DEF StreamOf, Result
    <3> QED BY <1>2, <1>3, <3>1, DefinitionData DEF Changed
  <2>2. StreamOf(in) = StreamOf(Result(in, id)) BY DEF StreamOf, Result
  <2>3. Same(Result(in, id)) = in BY <2>1, <2>2
  <2>4. Result(in, id) \notin NewData(id)
    <3>1. \A t : Output(id, t) # Result(in, id)
      BY <1>3 DEF Output, Result
    <3>2. \A other \in Copied(id) : Result(other, id) # Result(in, id)
      BY <2>1 DEF Copied, StreamOf, Result
    <3> QED BY <3>1, <3>2 DEF NewData
  <2>5. Result(in, id).after = id BY DEF Result
  <2> HIDE DEF Same, id
  <2> QED BY <1>1, <2>3, <2>4, <2>5
<1> DEFINE Uncopied(d) == \E in \in Changed(id) \ Copied(id) :
                            d = Result(in, id) /\ indexes'[d] = indexes[in]
<1>13. \A d \in DOMAIN indexes' : d \in DOMAIN indexes \/ d \in NewData(id) \/ Uncopied(d)
  BY <1>10, <1>11, <1>12
<1>14. \A in \in Changed(id) : in \in DefinitionOf(id) BY DEF Changed
<1> HIDE DEF id, n, results, Uncopied
<1>15. \A d \in DOMAIN indexes' :
         d \in OrderedInput /\ indexes'[d] \in 0 .. nextFreeSlot' - 1
  <2> SUFFICES ASSUME NEW d \in DOMAIN indexes'
               PROVE  d \in OrderedInput /\ indexes'[d] \in 0 .. nextFreeSlot' - 1
    OBVIOUS
  <2>1. CASE d \in DOMAIN indexes BY <1>1, <1>6, <1>7, <1>10, <2>1
  <2>2. CASE d \in NewData(id) BY <1>1, <1>6, <1>9, <1>10, <2>2
  <2>3. CASE Uncopied(d)
    <3>1. PICK in \in Changed(id) \ Copied(id) : d = Result(in, id) /\ indexes'[d] = indexes[in]
      BY <2>3 DEF Uncopied
    <3>2. d \in results BY <3>1 DEF results
    <3>3. indexes[in] \in 0 .. nextFreeSlot - 1 BY <1>7, <1>8, <1>14
    <3> QED BY <1>1, <1>6, <1>9, <3>1, <3>2, <3>3
  <2> QED BY <1>13, <2>1, <2>2, <2>3
<1>16. TableInv'
  <2>1. nextFreeSlot' \in Nat BY <1>1, <1>6
  <2>2. ASSUME NEW d \in DOMAIN indexes'
        PROVE  /\ IF d.after = None THEN d.type \in Taken(d.source)
                  ELSE \E in \in Changed(d.after) : d = Result(in, d.after)
               /\ \E k \in 1 .. Connected' :
                    /\ order'[k] = IF d.after = None THEN d.source ELSE d.after
                    /\ \E j \in 1 .. k : order'[j] = d.source
    <3>1. CASE d \in DOMAIN indexes
      <4>1. IF d.after = None THEN d.type \in Taken(d.source)
            ELSE \E in \in Changed(d.after) : d = Result(in, d.after)
        BY <1>2, <3>1 DEF TableInv
      <4>2. At(d) \in 1 .. Connected' BY <1>3, <1>7, <3>1
      <4> QED BY <1>1, <1>7, <3>1, <4>1, <4>2
    <3>2. CASE d \notin DOMAIN indexes
      <4>1. d \in NewData(id) \cup results BY <1>10, <3>2
      <4>2. n \in 1 .. Connected' /\ order[n] = id BY <1>3 DEF id
      <4> QED BY <1>1, <1>9, <4>1, <4>2
    <3> QED BY <3>1, <3>2
  <2>3. ASSUME NEW k \in 1 .. Connected', NEW in \in DefinitionOf(order[k])'
        PROVE  in \in DOMAIN indexes' /\ At(in)' < k
    <3>1. in \in DefinitionOf(order[k]) BY <1>1, <1>4
    <3>2. CASE k = n
      <4>1. in \in DefinitionOf(id) BY <3>1, <3>2 DEF id
      <4> QED BY <1>3, <1>4, <1>8, <1>10, <3>2, <4>1
    <3>3. CASE k # n
      <4>1. k \in 1 .. Connected BY <1>3, <3>3
      <4>2. in \in DOMAIN indexes /\ At(in) < k BY <1>2, <3>1, <4>1 DEF TableInv
      <4> QED BY <1>4, <1>10, <4>2
    <3> QED BY <3>2, <3>3
  <2> QED BY <1>4, <1>15, <2>1, <2>2, <2>3 DEF TableInv
<1>17. ShareInv'
  <2> SUFFICES ASSUME NEW d \in DOMAIN indexes', NEW e \in DOMAIN indexes', d # e,
                      indexes'[d] = indexes'[e]
               PROVE  Replaced(d, e) \/ Replaced(e, d)
    BY <1>4 DEF ShareInv
  <2>1. ASSUME NEW x \in DOMAIN indexes, NEW y \in DOMAIN indexes', y \notin DOMAIN indexes,
               indexes'[x] = indexes'[y]
        PROVE  Replaced(x, y)
    <3>1. Uncopied(y)
      <4>1. indexes'[y] < nextFreeSlot BY <1>7, <1>10, <2>1, <1>6
      <4>2. y \notin NewData(id) BY <1>6, <1>10, <4>1
      <4> QED BY <1>13, <2>1, <4>2
    <3>2. PICK in \in Changed(id) \ Copied(id) : y = Result(in, id) /\ indexes'[y] = indexes[in]
      BY <3>1 DEF Uncopied
    <3>3. y \in results BY <3>2 DEF results
    <3>4. At(y) = n /\ At(x) \in 1 .. n - 1 BY <1>7, <1>9, <3>3
    <3>5. in \in DOMAIN indexes /\ At(in) \in 1 .. n - 1 /\ UsedFrom(in, n)
      BY <1>8, <1>14
    <3>6. indexes[x] = indexes[in] BY <1>10, <2>1, <3>2
    <3>7. ASSUME UsedFrom(x, n + 1) PROVE FALSE
      <4>1. UsedFrom(x, n) BY <1>3, <3>7 DEF UsedFrom
      <4>2. At(x) < n /\ At(in) < n BY <1>3, <3>4, <3>5
      <4>3. x = in BY <1>2, <1>3, <3>5, <3>6, <4>1, <4>2, SlotsInUseDiffer
      <4>4. in \in Copied(id)
        BY <1>2, <1>3, <3>2, <3>7, <4>3, CopiedIfUsed DEF id
      <4> QED BY <4>4
    <3> QED BY <1>3, <3>4, <3>7 DEF Replaced
  <2>2. CASE d \in DOMAIN indexes /\ e \in DOMAIN indexes
    BY <1>2, <1>10, <2>2 DEF ShareInv
  <2>3. CASE d \in DOMAIN indexes /\ e \notin DOMAIN indexes BY <2>1, <2>3
  <2>4. CASE d \notin DOMAIN indexes /\ e \in DOMAIN indexes BY <2>1, <2>4
  <2>5. CASE d \notin DOMAIN indexes /\ e \notin DOMAIN indexes
    <3>1. ASSUME NEW x \in DOMAIN indexes', Uncopied(x)
          PROVE  indexes'[x] < nextFreeSlot
      BY <1>6, <1>7, <1>8, <1>14, <3>1 DEF Uncopied
    <3>2. ASSUME NEW x \in NewData(id) PROVE indexes'[x] >= nextFreeSlot
      BY <1>6, <1>10
    <3>3. ~ (d \in NewData(id) /\ e \in NewData(id)) BY <1>6, <1>10
    <3>4. Uncopied(d) /\ Uncopied(e)
      <4>1. indexes'[d] \in Int /\ indexes'[e] \in Int
        BY <1>15
      <4> QED BY <1>6, <1>13, <2>5, <3>1, <3>2, <3>3, <4>1
    <3>5. PICK in \in Changed(id) \ Copied(id) : d = Result(in, id) /\ indexes'[d] = indexes[in]
      BY <3>4 DEF Uncopied
    <3>6. PICK other \in Changed(id) \ Copied(id) :
            e = Result(other, id) /\ indexes'[e] = indexes[other]
      BY <3>4 DEF Uncopied
    <3>7. /\ in \in DOMAIN indexes /\ At(in) \in 1 .. n - 1 /\ UsedFrom(in, n)
          /\ other \in DOMAIN indexes /\ At(other) \in 1 .. n - 1 /\ UsedFrom(other, n)
      BY <1>8, <1>14
    <3>8. At(in) < n /\ At(other) < n BY <1>3, <3>7
    <3>9. in = other BY <1>2, <1>3, <3>5, <3>6, <3>7, <3>8, SlotsInUseDiffer
    <3> QED BY <3>5, <3>6, <3>9
  <2> QED BY <2>2, <2>3, <2>4, <2>5
\* What was new at a position stays new: what this module adds is at a later one.
<1>18. ASSUME NEW slot, NEW k \in 1 .. n, NewAt(slot, k)
       PROVE  NewAt(slot, k)'
  <2>1. ASSUME NEW d \in DOMAIN indexes', indexes'[d] = slot PROVE At(d) >= k
    <3>1. CASE d \in DOMAIN indexes BY <1>10, <1>18, <2>1, <3>1 DEF NewAt
    <3>2. CASE d \notin DOMAIN indexes
      <4>1. At(d) = n BY <1>9, <1>10, <3>2
      <4> QED BY <1>3, <4>1
    <3> QED BY <3>1, <3>2
  <2> QED BY <1>4, <2>1 DEF NewAt
<1>19. ASSUME NEW d \in NewData(id), NEW slot, slot = indexes'[d], NEW k, k = n
       PROVE  NewAt(slot, k)'
  <2>1. ASSUME NEW e \in DOMAIN indexes', indexes'[e] = slot PROVE At(e) >= k
    <3>1. indexes'[d] >= nextFreeSlot BY <1>6, <1>10
    <3>2. e \notin DOMAIN indexes BY <1>6, <1>7, <1>10, <1>19, <2>1, <3>1
    <3>3. At(e) = n BY <1>9, <1>10, <3>2
    <3> QED BY <1>3, <1>19, <3>3
  <2> QED BY <1>4, <2>1 DEF NewAt
<1>20. OutSlotsInv'
  <2> SUFFICES ASSUME NEW k \in 1 .. n, NEW m \in Ids, order[k] = m
               PROVE  /\ m \in DOMAIN outSlots'
                      /\ \A t \in outputs[m] :
                           IF t \in Taken(m)
                           THEN LET data == Output(m, t)
                                IN  /\ data \in DOMAIN indexes'
                                    /\ outSlots'[m][t] = indexes'[data]
                                    /\ \A slot : slot = indexes'[data] => NewAt(slot, k)'
                           ELSE outSlots'[m][t] = None
    BY <1>1, <1>3, <1>4, Zenon DEF OutSlotsInv, OutSlotsAt, NewAt, libs
  <2>1. ASSUME k = n, NEW t \in outputs[m]
        PROVE  IF t \in Taken(m)
               THEN LET data == Output(m, t)
                    IN  /\ data \in DOMAIN indexes'
                        /\ outSlots'[m][t] = indexes'[data]
                        /\ \A slot : slot = indexes'[data] => NewAt(slot, k)'
               ELSE outSlots'[m][t] = None
    <3>1. m = id BY <2>1 DEF id
    <3>2. outSlots'[id][t] = IF t \in Taken(id) THEN new[Output(id, t)] ELSE None
      BY <1>1, <2>1, <3>1 DEF With
    <3>3. CASE t \in Taken(id)
      <4>1. Output(id, t) \in NewData(id) BY <3>3 DEF NewData
      <4>2. \A slot : slot = indexes'[Output(id, t)] => NewAt(slot, k)'
        BY <1>19, <2>1, <4>1
      <4> QED BY <1>10, <3>1, <3>2, <3>3, <4>1, <4>2
    <3>4. CASE t \notin Taken(id) BY <3>1, <3>2, <3>4
    <3> QED BY <3>3, <3>4
  <2>2. CASE k = n
    <3>1. m = id BY <2>2 DEF id
    <3> QED BY <1>1, <2>1, <2>2, <3>1 DEF With
  <2>3. CASE k # n
    <3>1. k \in 1 .. Connected /\ k \in 1 .. Len(order) BY <1>3, <2>3
    <3>2. m \in DOMAIN outSlots /\ m # id
      BY <1>2, <1>3, <2>3, <3>1 DEF OutSlotsInv, OutSlotsAt
    <3>3. outSlots'[m] = outSlots[m] /\ m \in DOMAIN outSlots'
      BY <1>1, <3>2 DEF With
    <3>4. ASSUME NEW t \in outputs[m], t \in Taken(m)
          PROVE  LET data == Output(m, t)
                 IN  /\ data \in DOMAIN indexes'
                     /\ outSlots'[m][t] = indexes'[data]
                     /\ \A slot : slot = indexes'[data] => NewAt(slot, k)'
      <4> DEFINE data == Output(m, t)
      <4>1. data \in DOMAIN indexes /\ outSlots[m][t] = indexes[data] /\ NewAt(indexes[data], k)
        BY <1>2, <3>1, <3>4 DEF OutSlotsInv, OutSlotsAt
      <4>2. data \in DOMAIN indexes' /\ indexes'[data] = indexes[data] BY <1>10, <4>1
      <4>3. \A slot : slot = indexes'[data] => NewAt(slot, k)'
        BY <1>18, <4>1, <4>2
      <4> QED BY <3>3, <4>1, <4>2, <4>3
    <3>5. \A t \in outputs[m] : t \notin Taken(m) => outSlots'[m][t] = None
      BY <1>2, <3>1, <3>3 DEF OutSlotsInv, OutSlotsAt
    <3> QED BY <3>3, <3>4, <3>5
  <2> QED BY <2>2, <2>3
<1>21. InSlotsInv'
  <2>0. \A in, m : SlotOf(in, m)' = IF in \in Copied(m)
                                     THEN <<indexes'[Result(in, m)], indexes'[in]>>
                                     ELSE <<indexes'[in], None>>
    BY <1>4, Zenon DEF SlotOf
  <2> SUFFICES ASSUME NEW k \in 1 .. n, NEW m \in Ids, order[k] = m
               PROVE  /\ m \in DOMAIN inputs'
                      /\ inputs'[m] = SlotsOf(m)'
                      /\ \A in \in Changed(m)' :
                           /\ Result(in, m) \in DOMAIN indexes'
                           /\ IF in \in Copied(m)' THEN NewAt(indexes[Result(in, m)], k)'
                              ELSE indexes'[Result(in, m)] = indexes'[in]
    <3>1. order' = order /\ Connected' = n BY <1>1, <1>3
    <3> QED BY <3>1, Zenon DEF InSlotsInv, InSlotsAt
  <2> SUFFICES /\ m \in DOMAIN inputs'
               /\ inputs'[m] = {SlotOf(in, m)' : in \in DefinitionOf(m)}
               /\ \A in \in Changed(m) :
                    /\ Result(in, m) \in DOMAIN indexes'
                    /\ IF in \in Copied(m)
                       THEN \A slot : slot = indexes'[Result(in, m)] => NewAt(slot, k)'
                       ELSE indexes'[Result(in, m)] = indexes'[in]
    <3>1. \A in : (\A slot : slot = indexes'[Result(in, m)] => NewAt(slot, k)')
                    => NewAt(indexes[Result(in, m)], k)'
      BY DEF NewAt
    <3>2. SlotsOf(m)' = {SlotOf(in, m)' : in \in DefinitionOf(m)} BY <1>4 DEF SlotsOf
    <3> QED BY <1>4, <3>1, <3>2
  <2>1. CASE k = n
    <3>1. m = id BY <2>1 DEF id
    <3>2. id \in DOMAIN inputs' /\ inputs'[id] = {In(in) : in \in DefinitionOf(id)}
      BY <1>1 DEF With
    <3>3. \A in \in DefinitionOf(id) :
            In(in) = IF in \in Copied(m) THEN <<indexes'[Result(in, m)], indexes'[in]>>
                                          ELSE <<indexes'[in], None>>
      BY <1>8, <1>10, <1>11, <3>1
    <3>5. \A in \in DefinitionOf(m) : In(in) = SlotOf(in, m)'
      BY <2>0, <3>1, <3>3
    <3>4. ASSUME NEW in \in Changed(id)
          PROVE  /\ Result(in, id) \in DOMAIN indexes'
                 /\ IF in \in Copied(id)
                    THEN \A slot : slot = indexes'[Result(in, id)] => NewAt(slot, k)'
                    ELSE indexes'[Result(in, id)] = indexes'[in]
      <4>1. CASE in \in Copied(id) BY <1>10, <1>11, <1>19, <2>1, <4>1
      <4>2. CASE in \notin Copied(id) BY <1>8, <1>10, <1>12, <1>14, <4>2
      <4> QED BY <4>1, <4>2
    <3> HIDE DEF In
    <3>6. inputs'[m] = {SlotOf(in, m)' : in \in DefinitionOf(m)}
      BY <3>1, <3>2, <3>5
    <3> QED BY <3>1, <3>2, <3>4, <3>6
  <2>2. CASE k # n
    <3>1. k \in 1 .. Connected /\ k \in 1 .. Len(order) BY <1>3, <2>2
    <3>2. /\ m \in DOMAIN inputs /\ m # id
          /\ inputs[m] = {SlotOf(in, m) : in \in DefinitionOf(m)}
      BY <1>2, <1>3, <2>2, <3>1 DEF InSlotsInv, InSlotsAt, SlotsOf
    <3>3. inputs'[m] = inputs[m] /\ m \in DOMAIN inputs'
      BY <1>1, <3>2 DEF With
    <3>4. \A in \in DefinitionOf(m) : in \in DOMAIN indexes
      BY <1>2, <3>1 DEF TableInv
    <3>5. ASSUME NEW in \in Changed(m)
          PROVE  LET data == Result(in, m)
                 IN  /\ data \in DOMAIN indexes'
                     /\ data \in DOMAIN indexes
                     /\ IF in \in Copied(m)
                        THEN \A slot : slot = indexes'[data] => NewAt(slot, k)'
                        ELSE indexes'[data] = indexes'[in]
      <4> DEFINE data == Result(in, m)
      <4>1. /\ data \in DOMAIN indexes
            /\ IF in \in Copied(m) THEN NewAt(indexes[data], k) ELSE indexes[data] = indexes[in]
        BY <1>2, <3>1 DEF InSlotsInv, InSlotsAt
      <4>2. data \in DOMAIN indexes' /\ indexes'[data] = indexes[data] BY <1>10, <4>1
      <4>3. in \in DOMAIN indexes /\ indexes'[in] = indexes[in] BY <1>10, <3>4 DEF Changed
      <4>4. NewAt(indexes[data], k) => \A slot : slot = indexes'[data] => NewAt(slot, k)'
        BY <1>18, <4>2
      <4> QED BY <4>1, <4>2, <4>3, <4>4
    <3>6. \A in \in DefinitionOf(m) :
            SlotOf(in, m) = SlotOf(in, m)'
      BY <1>10, <2>0, <3>4, <3>5 DEF SlotOf, Copied
    <3> QED BY <3>2, <3>3, <3>5, <3>6
  <2> QED BY <2>1, <2>2
<1>22. (ProcessorsInv /\ PassInv)' BY <1>1 DEF ProcessorsInv, PassInv
<1> QED BY <1>4, <1>5, <1>16, <1>17, <1>20, <1>21, <1>22 DEF GraphInv

\* Chains: nothing is before the source, and what a module takes is before the module.
LEMMA ChainOfNone ==
  ASSUME NEW st
  PROVE  Chain(st, None) = {}
<1>1. ASSUME NEW m \in Chain(st, None) PROVE FALSE
  <2>1. \A S \in SUBSET DOMAIN definition :
          /\ None \in S \cup {None}
          /\ \A id \in S : \A in \in InputsFrom(id, st) : in.after \in S \cup {None}
          => m \in S
    BY DEF Chain
  <2>2. {} \in SUBSET DOMAIN definition /\ None \in {} \cup {None} OBVIOUS
  <2> QED BY <2>1, <2>2
<1> QED BY <1>1

LEMMA ChainStep ==
  ASSUME NEW id \in DOMAIN definition, id # None, NEW in \in definition[id],
         in.after \in DOMAIN definition \cup {None},
         \A other \in definition[id] : StreamOf(other) = StreamOf(in) => other = in
  PROVE  Chain(StreamOf(in), id) = {id} \cup Chain(StreamOf(in), in.after)
<1> DEFINE st == StreamOf(in)
           Closed(S) == \A m \in S : \A i \in InputsFrom(m, st) : i.after \in S \cup {None}
<1>1. InputsFrom(id, st) = {in} BY DEF InputsFrom
<1>2. \A a, m : m \in Chain(st, a) <=>
        /\ m \in DOMAIN definition
        /\ \A S \in SUBSET DOMAIN definition : a \in S \cup {None} /\ Closed(S) => m \in S
  BY DEF Chain
<1>3. ASSUME NEW m \in Chain(st, id), m # id PROVE m \in Chain(st, in.after)
  <2> SUFFICES ASSUME NEW S \in SUBSET DOMAIN definition, in.after \in S \cup {None}, Closed(S)
               PROVE  m \in S
    BY <1>2, <1>3
  <2>1. Closed(S \cup {id}) BY <1>1
  <2> HIDE DEF Closed
  <2> QED BY <1>2, <1>3, <2>1
<1>4. id \in Chain(st, id)
  <2> HIDE DEF Closed
  <2> QED BY <1>2
<1>5. ASSUME NEW m \in Chain(st, in.after) PROVE m \in Chain(st, id)
  <2> SUFFICES ASSUME NEW S \in SUBSET DOMAIN definition, id \in S, Closed(S)
               PROVE  m \in S
    <3> HIDE DEF Closed
    <3> QED BY <1>2, <1>5
  <2>1. in.after \in S \cup {None} BY <1>1
  <2> HIDE DEF Closed
  <2> QED BY <1>2, <1>5, <2>1
<1> QED BY <1>3, <1>4, <1>5

\* The modules of a chain come before the position of those that take the data.
LEMMA ChainEarlier ==
  ASSUME GraphInv, Ordered, NEW data \in DOMAIN indexes, NEW k \in 1 .. Connected, At(data) < k
  PROVE  \A m \in Chain(StreamOf(data), data.after) : \E j \in 1 .. k - 1 : order[j] = m
<1> DEFINE S == {m \in DOMAIN definition : \E j \in 1 .. k - 1 : order[j] = m}
<1>1. TableInv /\ OrderInv /\ Connected \in 0 .. Len(order)
  BY TableData DEF GraphInv
<1>2. ASSUME NEW d \in DOMAIN indexes, At(d) < k PROVE d.after \in S \cup {None}
  <2>1. /\ At(d) \in 1 .. Connected
        /\ order[At(d)] = IF d.after = None THEN d.source ELSE d.after
    BY TableData
  <2>2. d.after # None => d.after \in DOMAIN definition
    BY <1>1 DEF TableInv, Changed, DefinitionOf
  <2> QED BY <1>2, <2>1, <2>2
<1>3. ASSUME NEW m \in S, NEW in \in InputsFrom(m, StreamOf(data))
      PROVE  in.after \in S \cup {None}
  <2>1. PICK j \in 1 .. k - 1 : order[j] = m OBVIOUS
  <2>2. j \in 1 .. Connected /\ in \in DefinitionOf(order[j])
    BY <1>1, <2>1 DEF InputsFrom, DefinitionOf
  <2>3. in \in DOMAIN indexes /\ At(in) < j BY <1>1, <2>2 DEF TableInv
  <2>4. At(in) \in Nat BY <2>3, TableData
  <2> HIDE DEF S
  <2> QED BY <1>2, <2>1, <2>3, <2>4
<1>4. S \in SUBSET DOMAIN definition OBVIOUS
<1>5. data.after \in S \cup {None} BY <1>2
<1> HIDE DEF S
<1>6. \A m \in Chain(StreamOf(data), data.after) : m \in S
  BY <1>3, <1>4, <1>5 DEF Chain
<1> QED BY <1>6 DEF S

\* Later stages leave the graph as it is connected.
LEMMA GraphStays ==
  ASSUME GraphInv, Ordered, Connected' = Connected, stage' \in {"connect", "run"},
         UNCHANGED <<waiting, libs, definition, streams, order, slots>>
  PROVE  (LoadInv /\ InputsInv /\ TableInv /\ ShareInv /\ OutSlotsInv /\ InSlotsInv)'
<1>1. /\ LoadInv /\ InputsInv /\ TableInv /\ ShareInv /\ OutSlotsInv /\ InSlotsInv /\ Ordered'
  BY DEF GraphInv, Ordered
<1>2. /\ (LoadInv /\ InputsInv)'
      /\ \A d : At(d)' = At(d)
      /\ \A d, e : Replaced(d, e)' <=> Replaced(d, e)
      /\ \A m : /\ DefinitionOf(m)' = DefinitionOf(m) /\ Taken(m)' = Taken(m)
                /\ Changed(m)' = Changed(m) /\ Copied(m)' = Copied(m)
  BY <1>1, OrderedKeeps
<1>3. TableInv'
  <2> SUFFICES ASSUME NEW k \in 1 .. Connected, NEW in \in DefinitionOf(order[k])'
               PROVE  in \in DOMAIN indexes /\ At(in) < k
    BY <1>1, <1>2 DEF TableInv, slots
  <2>1. DefinitionOf(order[k])' = DefinitionOf(order[k]) BY DEF DefinitionOf
  <2> QED BY <1>1, <2>1 DEF TableInv
<1>4. ShareInv' BY <1>1, <1>2 DEF ShareInv, slots
<1>5. \A slot, k : NewAt(slot, k)' <=> NewAt(slot, k)
  BY <1>2 DEF NewAt, slots
<1>6. \A m : SlotsOf(m)' = SlotsOf(m)
  <2>1. \A in, m : SlotOf(in, m)' = SlotOf(in, m) BY <1>2 DEF SlotOf, slots
  <2> QED BY <1>2, <2>1 DEF SlotsOf
<1>8. /\ indexes' = indexes /\ outSlots' = outSlots /\ inputs' = inputs /\ outputs' = outputs
      /\ order' = order
  BY DEF slots, libs
<1>7. \A id \in Ids : \A k : OutSlotsAt(k, id)' <=> OutSlotsAt(k, id)
  BY <1>2, <1>8 DEF OutSlotsAt, NewAt
<1>9. \A id \in Ids : \A k : InSlotsAt(k, id)' <=> InSlotsAt(k, id)
  BY <1>2, <1>6, <1>8 DEF InSlotsAt, NewAt
<1>10. (OutSlotsInv /\ InSlotsInv)'
  BY <1>1, <1>7, <1>8, <1>9 DEF OutSlotsInv, InSlotsInv
<1> QED BY <1>2, <1>3, <1>4, <1>10

\* Before a pass nothing ran, and nothing was put out.
HistoryInv == stage # "run" => ran = {} /\ produced = {}

LEMMA HistoryKeeps == HistoryInv /\ GraphNext => HistoryInv'
<1> SUFFICES ASSUME HistoryInv, GraphNext PROVE HistoryInv'
  OBVIOUS
<1>1. ASSUME NEW place, Fail(place) PROVE HistoryInv'
  BY <1>1 DEF Fail, Cleanup, HistoryInv
<1>2. CASE LoadModule \/ ParseOutputs \/ ParseInput \/ CheckStreams \/ MergeStream
  BY <1>1, <1>2, Zenon
     DEF HistoryInv, LoadModule, ParseOutputs, ParseInput, CheckStreams, MergeStream, pass
<1>3. CASE MergeLink \/ OrderModules \/ ConnectModule \/ CheckProcessors \/ Restart
  BY <1>1, <1>3, Zenon
     DEF HistoryInv, MergeLink, OrderModules, ConnectModule, CheckProcessors, Restart, pass
<1>4. CASE PassPackets \/ FreePackets BY <1>4 DEF HistoryInv, PassPackets, FreePackets
<1>5. CASE Stop BY <1>1, <1>5 DEF Stop
<1> QED BY <1>2, <1>3, <1>4, <1>5 DEF GraphNext

LEMMA CheckKeeps == GraphInv /\ HistoryInv /\ CheckProcessors => GraphInv'
<1> SUFFICES ASSUME GraphInv, HistoryInv, CheckProcessors, ~ Fail("failed") PROVE GraphInv'
  BY FailKeeps
<1>1. /\ stage = "connect" /\ position = Len(order) + 1
      /\ \A id \in Ids : info[id].type = "PROCESSOR" => IsUseful(id)
      /\ stage' = "run" /\ position' = 1
      /\ packets' = [slot \in 0 .. nextFreeSlot - 1 |-> NoPacket]
      /\ UNCHANGED <<waiting, libs, definition, streams, order, slots, ran, produced>>
  BY DEF CheckProcessors
<1>2. Ordered /\ OrderInv /\ Len(order) \in Nat BY <1>1 DEF Ordered, GraphInv, OrderInv
<1>3. Connected = Len(order) /\ Connected' = Len(order)
  BY <1>1, <1>2 DEF Connected
<1>4. OrderInv' BY <1>1, <1>2 DEF OrderInv
<1>5. (LoadInv /\ InputsInv /\ TableInv /\ ShareInv /\ OutSlotsInv /\ InSlotsInv)'
  BY <1>1, <1>2, <1>3, GraphStays
<1>6. ProcessorsInv'
  <2>1. \A id \in Ids : IsUseful(id)' <=> IsUseful(id)
    BY <1>1 DEF IsUseful, CopyNeeded, UsedLater, Position, libs, slots
  <2> QED BY <1>1, <2>1 DEF ProcessorsInv, libs
<1>7. PassInv'
  <2>1. ran' = {} /\ produced' = {} BY <1>1 DEF HistoryInv
  <2>2. ASSUME NEW data \in DOMAIN indexes' PROVE ~ (At(data) < position)'
    <3>1. data \in DOMAIN indexes /\ At(data)' = At(data) BY <1>1, <1>2, OrderedKeeps DEF slots
    <3>2. At(data) \in 1 .. Connected BY <1>2, <3>1, TableData
    <3> QED BY <1>1, <3>1, <3>2
  <2>3. nextFreeSlot' = nextFreeSlot BY <1>1 DEF slots
  <2> QED BY <1>1, <2>1, <2>2, <2>3 DEF PassInv
<1> QED BY <1>4, <1>5, <1>6, <1>7 DEF GraphInv

LEMMA FreeKeeps == GraphInv /\ FreePackets => GraphInv'
<1> SUFFICES ASSUME GraphInv, FreePackets PROVE GraphInv'
  OBVIOUS
<1>1. /\ stage = "run" /\ stage' = "run" /\ position' = 1 /\ ran' = {} /\ produced' = {}
      /\ packets' = [slot \in DOMAIN packets |-> NoPacket]
      /\ UNCHANGED <<waiting, libs, definition, streams, order, slots>>
  BY DEF FreePackets
<1>2. Ordered /\ OrderInv /\ PassInv /\ Len(order) \in Nat
  BY <1>1 DEF Ordered, GraphInv, OrderInv
<1>3. Connected = Len(order) /\ Connected' = Len(order)
  BY <1>1, <1>2 DEF Connected
<1>4. OrderInv' BY <1>1, <1>2 DEF OrderInv
<1>5. (LoadInv /\ InputsInv /\ TableInv /\ ShareInv /\ OutSlotsInv /\ InSlotsInv)'
  BY <1>1, <1>2, <1>3, GraphStays
<1>6. ProcessorsInv'
  <2>1. \A id \in Ids : IsUseful(id)' <=> IsUseful(id)
    BY <1>1 DEF IsUseful, CopyNeeded, UsedLater, Position, libs, slots
  <2> QED BY <1>1, <2>1 DEF GraphInv, ProcessorsInv, libs
<1>7. PassInv'
  <2>1. ASSUME NEW data \in DOMAIN indexes' PROVE ~ (At(data) < position)'
    <3>1. data \in DOMAIN indexes /\ At(data)' = At(data) BY <1>1, <1>2, OrderedKeeps DEF slots
    <3>2. At(data) \in 1 .. Connected BY <1>2, <3>1, TableData
    <3> QED BY <1>1, <3>1, <3>2
  <2>2. DOMAIN packets' = 0 .. nextFreeSlot' - 1 BY <1>1, <1>2 DEF PassInv, slots
  <2> QED BY <1>1, <2>1, <2>2 DEF PassInv
<1> QED BY <1>4, <1>5, <1>6, <1>7 DEF GraphInv

\* What is stored by slot.
LEMMA StoreIs ==
  ASSUME NEW content, NEW pairs
  PROVE  /\ DOMAIN Store(content, pairs) = DOMAIN content
         /\ \A slot \in DOMAIN content :
              (\A p \in pairs : p[1] # slot) => Store(content, pairs)[slot] = content[slot]
         /\ \A slot \in DOMAIN content, p \in pairs :
              p[1] = slot /\ (\A q \in pairs : q[1] = slot => q = p)
                => Store(content, pairs)[slot] = p[2]
<1>1. DOMAIN Store(content, pairs) = DOMAIN content BY DEF Store
<1>2. ASSUME NEW slot \in DOMAIN content, \A p \in pairs : p[1] # slot
      PROVE  Store(content, pairs)[slot] = content[slot]
  BY <1>2 DEF Store
<1>3. ASSUME NEW slot \in DOMAIN content, NEW p \in pairs, p[1] = slot,
             \A q \in pairs : q[1] = slot => q = p
      PROVE  Store(content, pairs)[slot] = p[2]
  <2>1. (CHOOSE q \in pairs : q[1] = slot) = p BY <1>3
  <2> QED BY <1>3, <2>1 DEF Store
<1> QED BY <1>1, <1>2, <1>3

\* The slot a module finds an input in: its copy's, or the one of the data.
InputSlot(in, id) == IF in \in Copied(id) THEN indexes[Result(in, id)] ELSE indexes[in]

\* What is known of the inputs of the module that comes next.
LEMMA InputsAt ==
  ASSUME GraphInv, stage = "run", position <= Len(order), NEW id, id = order[position],
         NEW in \in DefinitionOf(id)
  PROVE  /\ in \in DOMAIN indexes /\ in \in OrderedInput
         /\ At(in) < position /\ UsedFrom(in, position)
         /\ indexes[in] \in DOMAIN packets /\ indexes[in] # None
         /\ packets[indexes[in]] = PacketOf(in)
         /\ in \in Changed(id) => Result(in, id) \in DOMAIN indexes
         /\ in \in Copied(id) => NewAt(indexes[Result(in, id)], position)
         /\ in \in Changed(id) => InputSlot(in, id) = indexes[Result(in, id)]
         /\ in \notin Copied(id) => InputSlot(in, id) = indexes[in]
         /\ InputSlot(in, id) \in DOMAIN packets
<1>1. /\ Ordered /\ OrderInv /\ TableInv /\ InSlotsInv /\ PassInv
      /\ position \in 1 .. Len(order) /\ Len(order) \in Nat /\ Connected = Len(order)
      /\ id \in Ids
  BY DEF GraphInv, OrderInv, Ordered, Connected
<1>2. in \in DOMAIN indexes /\ At(in) < position
  BY <1>1 DEF TableInv
<1>3. UsedFrom(in, position) BY <1>1 DEF UsedFrom
<1>4. in \in OrderedInput /\ indexes[in] \in 0 .. nextFreeSlot - 1
  BY <1>1, <1>2, TableData
<1>5. packets[indexes[in]] = PacketOf(in) /\ DOMAIN packets = 0 .. nextFreeSlot - 1
  BY <1>1, <1>2, <1>3 DEF PassInv
<1>6. InSlotsAt(position, id) BY <1>1 DEF InSlotsInv
<1>7. in \in Changed(id) =>
        /\ Result(in, id) \in DOMAIN indexes
        /\ in \in Copied(id) => NewAt(indexes[Result(in, id)], position)
        /\ in \notin Copied(id) => indexes[Result(in, id)] = indexes[in]
  BY <1>6, Zenon DEF InSlotsAt
<1>8. in \in Changed(id) => indexes[Result(in, id)] \in 0 .. nextFreeSlot - 1
  BY <1>1, <1>7, TableData
<1>9. in \in Copied(id) => in \in Changed(id) BY DEF Copied
<1>10. indexes[in] # None BY <1>4 DEF None
<1> QED BY <1>2, <1>3, <1>4, <1>5, <1>7, <1>8, <1>9, <1>10 DEF InputSlot

\* A module is given the packets of its inputs, each in a slot of its own.
LEMMA GivenIs ==
  ASSUME GraphInv, stage = "run", position <= Len(order), NEW id, id = order[position]
  PROVE  /\ Given(id) = {<<InputSlot(in, id), PacketOf(in)>> : in \in DefinitionOf(id)}
         /\ \A in, other \in DefinitionOf(id) :
              InputSlot(in, id) = InputSlot(other, id) => in = other
<1>1. /\ Ordered /\ OrderInv /\ ShareInv /\ InSlotsInv
      /\ position \in 1 .. Len(order) /\ Len(order) \in Nat /\ Connected = Len(order)
      /\ id \in Ids /\ id # None
  BY IdsAreNaturals DEF GraphInv, OrderInv, Ordered, Connected, None
<1>2. Given(id) = {<<InputSlot(in, id), PacketOf(in)>> : in \in DefinitionOf(id)}
  <2>1. inputs[id] = SlotsOf(id) BY <1>1 DEF InSlotsInv, InSlotsAt
  <2> DEFINE Pair(s) == <<s[1], packets[IF s[2] = None THEN s[1] ELSE s[2]]>>
  <2>2. ASSUME NEW in \in DefinitionOf(id)
        PROVE  Pair(SlotOf(in, id)) = <<InputSlot(in, id), PacketOf(in)>>
    <3>1. indexes[in] # None /\ packets[indexes[in]] = PacketOf(in) BY InputsAt
    <3> QED BY <3>1 DEF SlotOf, InputSlot
  <2>3. Given(id) = {Pair(s) : s \in inputs[id]} BY DEF Given
  <2>4. Given(id) = {Pair(SlotOf(in, id)) : in \in DefinitionOf(id)}
    <3> HIDE DEF Pair
    <3> QED BY <2>1, <2>3 DEF SlotsOf
  <2> HIDE DEF Pair
  <2> QED BY <2>2, <2>4
<1>3. ASSUME NEW in \in DefinitionOf(id), NEW other \in DefinitionOf(id),
             InputSlot(in, id) = InputSlot(other, id), in \in Copied(id)
      PROVE  in = other
  <2>1. in \in Changed(id) BY <1>3 DEF Copied
  <2>2. /\ Result(in, id) \in DOMAIN indexes /\ NewAt(indexes[Result(in, id)], position)
        /\ InputSlot(in, id) = indexes[Result(in, id)]
    BY <1>3, <2>1, InputsAt
  <2>3. other \in Copied(id)
    <3>1. other \in DOMAIN indexes /\ At(other) < position BY InputsAt
    <3>2. other \notin Copied(id) => indexes[other] = indexes[Result(in, id)]
      BY <1>3, <2>2 DEF InputSlot
    <3>3. At(other) \in Int BY <1>1, <3>1, TableData
    <3> QED BY <1>1, <2>2, <3>1, <3>2, <3>3 DEF NewAt
  <2>4. other \in Changed(id) BY <2>3 DEF Copied
  <2>5. /\ Result(other, id) \in DOMAIN indexes
        /\ indexes[Result(other, id)] = indexes[Result(in, id)]
    BY <1>3, <2>2, <2>3, <2>4, InputsAt
  <2>6. At(Result(in, id)) = position /\ At(Result(other, id)) = position
    BY <1>1, PositionIs DEF At, Result
  <2>7. Result(in, id) = Result(other, id)
    BY <1>1, <2>2, <2>5, <2>6 DEF ShareInv, Replaced
  <2>8. StreamOf(in) = StreamOf(other) BY <2>7 DEF Result, StreamOf
  <2> QED BY <1>1, <2>8, DefinitionData
<1>4. ASSUME NEW in \in DefinitionOf(id), NEW other \in DefinitionOf(id),
             InputSlot(in, id) = InputSlot(other, id),
             in \notin Copied(id), other \notin Copied(id)
      PROVE  in = other
  <2>1. /\ in \in DOMAIN indexes /\ At(in) < position /\ UsedFrom(in, position)
        /\ other \in DOMAIN indexes /\ At(other) < position /\ UsedFrom(other, position)
        /\ indexes[in] = indexes[other]
    <3>1. in \in DOMAIN indexes /\ At(in) < position /\ UsedFrom(in, position)
          /\ InputSlot(in, id) = indexes[in]
      BY <1>4, InputsAt
    <3>2. other \in DOMAIN indexes /\ At(other) < position /\ UsedFrom(other, position)
          /\ InputSlot(other, id) = indexes[other]
      BY <1>4, InputsAt
    <3> QED BY <1>4, <3>1, <3>2
  <2> QED BY <1>1, <2>1, SlotsInUseDiffer
<1> QED BY <1>2, <1>3, <1>4

\* The packet of an input after the module, whether it runs or not.
After(in, id, runs) ==
  IF runs /\ in \in Changed(id) /\ StreamOf(in) \in produced
  THEN [PacketOf(in) EXCEPT !.writers = @ \cup {id}]
  ELSE PacketOf(in)

\* Where a module's own packets go.
Own(id, stored) ==
  {<<indexes[Output(id, t)], [source |-> id, type |-> t, writers |-> {}]>> : t \in stored}

LEMMA OwnSlots ==
  ASSUME GraphInv, Ordered, NEW k \in 1 .. Connected, NEW id \in Ids, order[k] = id,
         NEW t \in outputs[id]
  PROVE  /\ outSlots[id][t] # None <=> t \in Taken(id)
         /\ t \in Taken(id) => /\ outSlots[id][t] = indexes[Output(id, t)]
                               /\ Output(id, t) \in DOMAIN indexes
                               /\ NewAt(indexes[Output(id, t)], k)
                               /\ At(Output(id, t)) = k
<1>1. OutSlotsAt(k, id) BY DEF GraphInv, OutSlotsInv
<1>2. t \in Taken(id) =>
        /\ Output(id, t) \in DOMAIN indexes /\ outSlots[id][t] = indexes[Output(id, t)]
        /\ NewAt(indexes[Output(id, t)], k)
  BY <1>1, Zenon DEF OutSlotsAt
<1>3. t \notin Taken(id) => outSlots[id][t] = None
  BY <1>1, Zenon DEF OutSlotsAt
<1>4. t \in Taken(id) => outSlots[id][t] # None
  <2>1. t \in Taken(id) => indexes[Output(id, t)] \in 0 .. nextFreeSlot - 1
    BY <1>2, TableData
  <2> QED BY <1>2, <2>1 DEF None
<1>5. At(Output(id, t)) = k
  <2>1. Connected \in 0 .. Len(order) BY DEF GraphInv, OrderInv, Connected, Ordered
  <2>2. k \in 1 .. Len(order) /\ OrderInv BY <2>1 DEF GraphInv, OrderInv
  <2> QED BY <2>2, PositionIs DEF At, Output
<1> QED BY <1>2, <1>3, <1>4, <1>5

\* What a pass does to the slots when it gets to a module.
LEMMA PassIs ==
  ASSUME GraphInv, PassPackets, NEW id, id = order[position]
  PROVE  \E runs \in BOOLEAN : \E stored \in SUBSET Taken(id) :
           /\ packets' = Store(Store(packets, {<<InputSlot(in, id), After(in, id, runs)>> :
                                                  in \in DefinitionOf(id)}),
                               Own(id, stored))
           /\ ran' = IF runs THEN ran \cup {id} ELSE ran
           /\ produced' = produced \cup {[source |-> id, type |-> t] : t \in stored}
<1>1. /\ stage = "run" /\ position <= Len(order) /\ Ordered /\ Connected = Len(order)
      /\ position \in 1 .. Len(order) /\ id \in Ids
  BY DEF PassPackets, GraphInv, OrderInv, Ordered, Connected
<1> DEFINE Passed(m, runs, made) ==
             LET stored == {t \in made \cap outputs[m] : outSlots[m][t] # None}
                 seen   == {<<g[1], IF runs THEN Modified(m, g[2]) ELSE g[2]>> : g \in Given(m)}
                 own    == {<<outSlots[m][t], [source |-> m, type |-> t, writers |-> {}]>> :
                              t \in stored}
             IN  /\ packets' = Store(Store(packets, seen), own)
                 /\ ran' = IF runs THEN ran \cup {m} ELSE ran
                 /\ produced' = produced \cup {[source |-> m, type |-> t] : t \in stored}
<1>2. PICK runs \in BOOLEAN : \E made : Passed(id, runs, made)
  <2>1. \E runs \in BOOLEAN : \E made : Passed(order[position], runs, made)
    BY Zenon DEF PassPackets
  <2> HIDE DEF Passed
  <2> QED BY <2>1
<1>3. PICK made : Passed(id, runs, made)
  <2> HIDE DEF Passed
  <2> QED BY <1>2
<1> DEFINE stored == {t \in made \cap outputs[id] : outSlots[id][t] # None}
           Seen(g) == <<g[1], IF runs THEN Modified(id, g[2]) ELSE g[2]>>
           Pair(in) == <<InputSlot(in, id), PacketOf(in)>>
           own    == {<<outSlots[id][t], [source |-> id, type |-> t, writers |-> {}]>> :
                        t \in stored}
<1>4. stored \in SUBSET Taken(id) BY <1>1, OwnSlots
<1>5. own = Own(id, stored)
  <2>1. \A t \in stored : outSlots[id][t] = indexes[Output(id, t)]
    BY <1>1, <1>4, OwnSlots
  <2> HIDE DEF stored
  <2> QED BY <2>1 DEF Own
<1>6. ASSUME NEW in \in DefinitionOf(id)
      PROVE  Seen(Pair(in)) = <<InputSlot(in, id), After(in, id, runs)>>
  <2>1. StreamOf(in) \notin produced => PacketOf(in) = NoPacket BY DEF PacketOf
  <2>2. StreamOf(in) \in produced =>
          PacketOf(in) # NoPacket /\ PacketOf(in).type = in.type
    <3>1. StreamOf(in) \in [source : Ids, type : Int]
      BY <1>1, DefinitionData DEF GraphInv, InputsInv, GraphStages
    <3>2. in.source \in Nat BY <3>1, IdsAreNaturals DEF StreamOf
    <3> QED BY <3>2 DEF PacketOf, NoPacket, None
  <2>3. PacketOf(in) # NoPacket => (CopyNeeded(id, PacketOf(in)) <=> in \in Changed(id))
    BY <2>1, <2>2 DEF CopyNeeded, Changed
  <2>4. (IF runs THEN Modified(id, PacketOf(in)) ELSE PacketOf(in)) = After(in, id, runs)
    BY <2>1, <2>2, <2>3 DEF Modified, After
  <2> QED BY <2>4
<1>7. Given(id) = {Pair(in) : in \in DefinitionOf(id)} BY <1>1, GivenIs
<1> HIDE DEF Pair, Seen
<1>8. {Seen(g) : g \in Given(id)}
        = {<<InputSlot(in, id), After(in, id, runs)>> : in \in DefinitionOf(id)}
  BY <1>6, <1>7
<1>9. /\ packets' = Store(Store(packets, {Seen(g) : g \in Given(id)}), own)
      /\ ran' = IF runs THEN ran \cup {id} ELSE ran
      /\ produced' = produced \cup {[source |-> id, type |-> t] : t \in stored}
  BY <1>3, Zenon DEF Passed, Seen
<1> HIDE DEF stored, own, Passed
<1> QED BY <1>4, <1>5, <1>8, <1>9

LEMMA PassKeeps == GraphInv /\ PassPackets => GraphInv'
<1> SUFFICES ASSUME GraphInv, PassPackets PROVE GraphInv'
  OBVIOUS
<1> DEFINE n  == position
           id == order[n]
<1>1. /\ stage = "run" /\ n <= Len(order) /\ position' = n + 1
      /\ UNCHANGED <<waiting, stage, libs, definition, streams, order, slots>>
  BY Zenon DEF PassPackets
<1>2. /\ Ordered /\ OrderInv /\ PassInv /\ ShareInv /\ TableInv /\ InputsInv
      /\ n \in 1 .. Len(order) /\ Len(order) \in Nat
      /\ id \in Ids /\ id # None
      /\ Connected = Len(order) /\ Connected' = Len(order)
  BY <1>1, IdsAreNaturals DEF Ordered, GraphInv, OrderInv, Connected, None
<1>3. OrderInv' BY <1>1, <1>2 DEF OrderInv
<1>4. (LoadInv /\ InputsInv /\ TableInv /\ ShareInv /\ OutSlotsInv /\ InSlotsInv)'
  BY <1>1, <1>2, GraphStays
<1>5. ProcessorsInv'
  <2>1. \A m \in Ids : IsUseful(m)' <=> IsUseful(m)
    BY <1>1 DEF IsUseful, CopyNeeded, UsedLater, Position, libs, slots
  <2> QED BY <1>1, <2>1 DEF GraphInv, ProcessorsInv, libs
<1>6. PICK runs \in BOOLEAN, stored \in SUBSET Taken(id) :
        /\ packets' = Store(Store(packets, {<<InputSlot(in, id), After(in, id, runs)>> :
                                               in \in DefinitionOf(id)}),
                            Own(id, stored))
        /\ ran' = IF runs THEN ran \cup {id} ELSE ran
        /\ produced' = produced \cup {[source |-> id, type |-> t] : t \in stored}
  BY PassIs
<1> DEFINE seen    == {<<InputSlot(in, id), After(in, id, runs)>> : in \in DefinitionOf(id)}
           between == Store(packets, seen)
           own     == Own(id, stored)
<1>7. ASSUME NEW t \in Taken(id)
      PROVE  /\ Output(id, t) \in DOMAIN indexes /\ NewAt(indexes[Output(id, t)], n)
             /\ At(Output(id, t)) = n
  BY <1>2, OwnSlots DEF Taken
<1>8. ASSUME NEW d \in DOMAIN indexes, NEW e \in DOMAIN indexes, indexes[d] = indexes[e],
             At(d) = n, At(e) = n
      PROVE  d = e
  BY <1>2, <1>8 DEF ShareInv, Replaced
\* What is stored, and what is left alone.
<1>9. ASSUME NEW p \in own PROVE \E t \in stored :
        p = <<indexes[Output(id, t)], [source |-> id, type |-> t, writers |-> {}]>>
  BY DEF Own
<1>10. ASSUME NEW t \in stored
       PROVE  packets'[indexes[Output(id, t)]] = [source |-> id, type |-> t, writers |-> {}]
  <2> DEFINE slot == indexes[Output(id, t)]
             pair == <<slot, [source |-> id, type |-> t, writers |-> {}]>>
  <2>1. pair \in own BY DEF Own
  <2>2. \A q \in own : q[1] = slot => q = pair
    <3> SUFFICES ASSUME NEW q \in own, q[1] = slot PROVE q = pair
      OBVIOUS
    <3>1. PICK u \in stored :
            q = <<indexes[Output(id, u)], [source |-> id, type |-> u, writers |-> {}]>>
      BY <1>9
    <3>2. t \in Taken(id) /\ u \in Taken(id) BY <1>6
    <3>3. indexes[Output(id, u)] = indexes[Output(id, t)] BY <3>1
    <3>4. Output(id, u) = Output(id, t) BY <1>7, <1>8, <3>2, <3>3
    <3>5. u = t BY <3>4 DEF Output
    <3> QED BY <3>1, <3>5
  <2>3. slot \in DOMAIN packets
    <3>1. t \in Taken(id) BY <1>6
    <3>2. Output(id, t) \in DOMAIN indexes BY <1>7, <3>1
    <3> QED BY <1>1, <1>2, <3>2, TableData DEF PassInv
  <2>4. DOMAIN between = DOMAIN packets BY StoreIs
  <2>5. pair[1] = slot OBVIOUS
  <2> HIDE DEF between, own, slot, pair
  <2>6. Store(between, own)[slot] = pair[2] BY <2>1, <2>2, <2>3, <2>4, <2>5, StoreIs
  <2> QED BY <1>6, <2>6 DEF between, own, slot, seen, pair
<1>11. ASSUME NEW slot \in DOMAIN packets, \A t \in stored : indexes[Output(id, t)] # slot
       PROVE  packets'[slot] = between[slot]
  <2>1. DOMAIN between = DOMAIN packets BY StoreIs
  <2>2. \A p \in own : p[1] # slot BY <1>9, <1>11
  <2> HIDE DEF between, own
  <2>3. Store(between, own)[slot] = between[slot] BY <2>1, <2>2, StoreIs
  <2> QED BY <1>6, <2>3 DEF between, own, seen
<1>12. ASSUME NEW in \in DefinitionOf(id),
              \A t \in stored : indexes[Output(id, t)] # InputSlot(in, id)
       PROVE  packets'[InputSlot(in, id)] = After(in, id, runs)
  <2> DEFINE slot == InputSlot(in, id)
             pair == <<slot, After(in, id, runs)>>
  <2>1. slot \in DOMAIN packets BY <1>1, InputsAt
  <2>2. pair \in seen OBVIOUS
  <2>3. \A q \in seen : q[1] = slot => q = pair
    <3> SUFFICES ASSUME NEW other \in DefinitionOf(id), InputSlot(other, id) = InputSlot(in, id)
                 PROVE  other = in
      OBVIOUS
    <3> QED BY <1>1, GivenIs
  <2>4. packets'[slot] = between[slot] BY <1>11, <1>12, <2>1
  <2> HIDE DEF seen, slot
  <2> QED BY <2>1, <2>2, <2>3, <2>4, StoreIs DEF slot
<1>13. ASSUME NEW slot \in DOMAIN packets, \A t \in stored : indexes[Output(id, t)] # slot,
              \A in \in DefinitionOf(id) : InputSlot(in, id) # slot
       PROVE  packets'[slot] = packets[slot]
  <2>1. packets'[slot] = between[slot] BY <1>11, <1>13
  <2>2. \A p \in seen : p[1] # slot BY <1>13
  <2> HIDE DEF seen
  <2> QED BY <2>1, <2>2, StoreIs
<1>14. DOMAIN packets' = DOMAIN packets
  <2>1. DOMAIN between = DOMAIN packets BY StoreIs
  <2> HIDE DEF between, own
  <2>2. DOMAIN Store(between, own) = DOMAIN packets BY <2>1, StoreIs
  <2> QED BY <1>6, <2>2 DEF between, own, seen
<1> HIDE DEF seen, own, between
\* Inputs are in the slots of data made before, or of what this module makes.
<1>15. ASSUME NEW in \in DefinitionOf(id)
       PROVE  \E d \in DOMAIN indexes :
                /\ InputSlot(in, id) = indexes[d]
                /\ \/ d = in /\ At(in) < n /\ in \notin Copied(id)
                   \/ d = Result(in, id) /\ At(d) = n /\ NewAt(indexes[d], n)
                      /\ in \in Copied(id)
  <2>1. CASE in \in Copied(id)
    <3>1. in \in Changed(id) BY <2>1 DEF Copied
    <3>2. At(Result(in, id)) = n BY <1>2, PositionIs DEF At, Result
    <3> HIDE DEF id, n
    <3> QED BY <1>1, <2>1, <3>1, <3>2, InputsAt DEF id, n
  <2>2. CASE in \notin Copied(id)
    <3> QED BY <1>1, <2>2, InputsAt
  <2> QED BY <2>1, <2>2
<1>16. ASSUME NEW in \in DefinitionOf(id), NEW t \in Taken(id)
       PROVE  indexes[Output(id, t)] # InputSlot(in, id)
  <2> SUFFICES ASSUME indexes[Output(id, t)] = InputSlot(in, id) PROVE FALSE
    OBVIOUS
  <2>1. PICK d \in DOMAIN indexes :
          /\ indexes[Output(id, t)] = indexes[d]
          /\ \/ d = in /\ At(in) < n
             \/ d = Result(in, id) /\ At(d) = n
    BY <1>15
  <2>2. At(d) \in Int BY <1>2, TableData
  <2>3. CASE d = in /\ At(in) < n
    BY <1>2, <1>7, <2>1, <2>2, <2>3 DEF NewAt
  <2>4. CASE d = Result(in, id) /\ At(d) = n
    <3>1. d = Output(id, t) BY <1>7, <1>8, <2>1, <2>4
    <3> QED BY <1>2, <2>4, <3>1 DEF Output, Result
  <2> QED BY <2>1, <2>3, <2>4
<1>17. /\ \A m \in ran : \E j \in 1 .. n - 1 : order[j] = m
       /\ \A st \in produced : \E j \in 1 .. n - 1 : order[j] = st.source
       /\ DOMAIN packets = 0 .. nextFreeSlot - 1
       /\ \A data \in DOMAIN indexes :
            At(data) < n /\ UsedFrom(data, n) => packets[indexes[data]] = PacketOf(data)
       /\ \A slot \in DOMAIN packets : NewAt(slot, n) => packets[slot] = NoPacket
  BY <1>1, <1>2 DEF PassInv
<1>18. id \notin ran /\ \A st \in produced : st.source # id
  BY <1>2, <1>17 DEF OrderInv
<1>19. /\ \A d : At(d)' = At(d)
       /\ \A d, k : UsedFrom(d, k)' <=> UsedFrom(d, k)
       /\ \A st, a : Chain(st, a)' = Chain(st, a)
       /\ \A slot, k : NewAt(slot, k)' <=> NewAt(slot, k)
  <2>1. \A d : At(d)' = At(d) BY <1>1, <1>2, OrderedKeeps
  <2>2. \A d, k : UsedFrom(d, k)' <=> UsedFrom(d, k)
    BY <1>1, <1>2, OrderedKeeps
  <2>3. \A st, a : Chain(st, a)' = Chain(st, a)
    BY <1>1 DEF Chain, InputsFrom
  <2>4. \A slot, k : NewAt(slot, k)' <=> NewAt(slot, k)
    BY <1>1, <2>1 DEF NewAt, slots
  <2> QED BY <2>1, <2>2, <2>3, <2>4
<1>20. \A data : PacketOf(data)' = IF StreamOf(data) \in produced'
                                    THEN [source |-> data.source, type |-> data.type,
                                          writers |-> Chain(StreamOf(data), data.after) \cap ran']
                                    ELSE NoPacket
  BY <1>19 DEF PacketOf
\* Data made before is what it was.
<1>21. ASSUME NEW data \in DOMAIN indexes, At(data) < n
       PROVE  PacketOf(data)' = PacketOf(data)
  <2>1. id \notin Chain(StreamOf(data), data.after)
    <3>1. \A m \in Chain(StreamOf(data), data.after) : \E j \in 1 .. n - 1 : order[j] = m
      BY <1>2, <1>21, ChainEarlier
    <3> QED BY <1>2, <3>1 DEF OrderInv
  <2>2. data.source # id
    <3>1. \E j \in 1 .. At(data) : order[j] = data.source /\ At(data) \in 1 .. Len(order)
      BY <1>2, TableData
    <3> HIDE DEF At
    <3> QED BY <1>2, <1>21, <3>1 DEF OrderInv
  <2>3. StreamOf(data) \in produced' <=> StreamOf(data) \in produced
    BY <1>6, <2>2 DEF StreamOf
  <2>4. Chain(StreamOf(data), data.after) \cap ran' = Chain(StreamOf(data), data.after) \cap ran
    BY <1>6, <2>1
  <2> QED BY <1>20, <2>3, <2>4 DEF PacketOf
<1>22. ASSUME NEW data \in DOMAIN indexes, At(data) < n, UsedFrom(data, n + 1)
       PROVE  packets'[indexes[data]] = PacketOf(data)'
  <2>1. UsedFrom(data, n) BY <1>2, <1>22 DEF UsedFrom
  <2>2. \A t \in stored : indexes[Output(id, t)] # indexes[data]
    <3>0. At(data) \in Int BY <1>2, TableData
    <3>1. \A t \in stored : t \in Taken(id) BY <1>6
    <3> QED BY <1>2, <1>7, <1>22, <3>0, <3>1 DEF NewAt
  <2>3. indexes[data] \in DOMAIN packets BY <1>2, <1>17, TableData
  <2>4. CASE \A in \in DefinitionOf(id) : InputSlot(in, id) # indexes[data]
    BY <1>13, <1>17, <1>21, <1>22, <2>1, <2>2, <2>3, <2>4
  <2>5. CASE \E in \in DefinitionOf(id) : InputSlot(in, id) = indexes[data]
    <3>1. PICK in \in DefinitionOf(id) : InputSlot(in, id) = indexes[data] BY <2>5
    <3>2. PICK d \in DOMAIN indexes :
            /\ indexes[data] = indexes[d]
            /\ \/ d = in /\ At(in) < n /\ in \notin Copied(id)
               \/ NewAt(indexes[d], n)
      BY <1>15, <3>1
    <3>3. At(data) \in Int BY <1>2, TableData
    <3>4. d = in /\ At(in) < n /\ in \notin Copied(id)
      BY <1>2, <1>22, <3>2, <3>3 DEF NewAt
    <3>5. UsedFrom(in, n) BY <1>1, InputsAt
    <3>6. data = in BY <1>2, <1>22, <2>1, <3>2, <3>4, <3>5, SlotsInUseDiffer
    <3>7. in \notin Changed(id) BY <1>2, <1>22, <3>4, <3>6, CopiedIfUsed
    <3>8. packets'[indexes[data]] = After(in, id, runs) BY <1>12, <2>2, <3>1
    <3> QED BY <1>21, <1>22, <3>6, <3>7, <3>8 DEF After
  <2> QED BY <2>4, <2>5
\* What the module puts out.
<1>23. ASSUME NEW data \in DOMAIN indexes, At(data) = n, data.after = None
       PROVE  packets'[indexes[data]] = PacketOf(data)'
  <2>1. /\ data \in OrderedInput /\ order[At(data)] = data.source
        /\ indexes[data] \in DOMAIN packets
    BY <1>2, <1>17, <1>23, TableData
  <2>2. data.source = id BY <1>23, <2>1
  <2>3. data.type \in Taken(id) BY <1>2, <1>23, <2>2 DEF TableInv
  <2>4. data = Output(id, data.type) BY <1>23, <2>1, <2>2 DEF Output, OrderedInput
  <2>5. StreamOf(data) = [source |-> id, type |-> data.type] BY <2>2 DEF StreamOf
  <2>6. CASE data.type \in stored
    <3>1. packets'[indexes[data]] = [source |-> id, type |-> data.type, writers |-> {}]
      BY <1>10, <2>4, <2>6
    <3>2. StreamOf(data) \in produced' BY <1>6, <2>5, <2>6
    <3>3. Chain(StreamOf(data), data.after) \cap ran' = {} BY <1>23, ChainOfNone
    <3> QED BY <1>20, <2>2, <3>1, <3>2, <3>3
  <2>7. CASE data.type \notin stored
    <3>1. \A t \in stored : indexes[Output(id, t)] # indexes[data]
      <4> SUFFICES ASSUME NEW t \in stored, indexes[Output(id, t)] = indexes[data]
                   PROVE  FALSE
        OBVIOUS
      <4>1. t \in Taken(id) BY <1>6
      <4>2. Output(id, t) = data BY <1>7, <1>8, <1>23, <4>1
      <4>3. Output(id, t).type = t BY DEF Output
      <4> QED BY <2>7, <4>2, <4>3
    <3>2. \A in \in DefinitionOf(id) : InputSlot(in, id) # indexes[data]
      BY <1>16, <2>3, <2>4
    <3>3. packets'[indexes[data]] = packets[indexes[data]]
      BY <1>13, <2>1, <3>1, <3>2
    <3>4. \A slot \in DOMAIN packets : slot = indexes[data] => NewAt(slot, n)
      BY <1>7, <2>3, <2>4
    <3>5. packets[indexes[data]] = NoPacket BY <1>17, <2>1, <3>4
    <3>6. StreamOf(data) \notin produced'
      <4>1. StreamOf(data) \notin produced BY <1>18, <2>5
      <4>2. \A t \in stored : StreamOf(data) # [source |-> id, type |-> t]
        BY <2>5, <2>7
      <4> QED BY <1>6, <4>1, <4>2
    <3> QED BY <1>20, <3>3, <3>5, <3>6
  <2> QED BY <2>6, <2>7
\* What the module has modified.
<1>24. ASSUME NEW data \in DOMAIN indexes, At(data) = n, data.after # None
       PROVE  packets'[indexes[data]] = PacketOf(data)'
  <2>1. data.after = id BY <1>2, <1>24, TableData
  <2>2. PICK in \in Changed(id) : data = Result(in, id)
    BY <1>2, <1>24, <2>1 DEF TableInv
  <2>3. in \in DefinitionOf(id) BY DEF Changed
  <2>4. /\ in \in DOMAIN indexes /\ At(in) < n /\ InputSlot(in, id) = indexes[data]
    BY <1>1, <2>2, <2>3, InputsAt
  <2>5. packets'[indexes[data]] = After(in, id, runs)
    <3>1. \A t \in stored : indexes[Output(id, t)] # InputSlot(in, id)
      BY <1>6, <1>16, <2>3
    <3> QED BY <1>12, <2>3, <2>4, <3>1
  <2>6. StreamOf(data) = StreamOf(in) /\ data.source = in.source /\ data.type = in.type
    BY <2>2 DEF Result, StreamOf
  <2>7. Chain(StreamOf(data), id) = {id} \cup Chain(StreamOf(in), in.after)
    <3>1. id \in DOMAIN definition /\ in \in definition[id]
      BY <2>3 DEF DefinitionOf
    <3>2. \A other \in definition[id] : StreamOf(other) = StreamOf(in) => other = in
      BY <1>2, <2>3, <3>1, DefinitionData DEF DefinitionOf
    <3>3. in.after \in DOMAIN definition \cup {None}
      BY <1>2, <2>4 DEF TableInv, Changed, DefinitionOf
    <3> QED BY <1>2, <2>6, <3>1, <3>2, <3>3, ChainStep
  <2>8. in.source # id
    <3>1. \E j \in 1 .. At(in) : order[j] = in.source /\ At(in) \in 1 .. Len(order)
      BY <1>2, <2>4, TableData
    <3> HIDE DEF At
    <3> QED BY <1>2, <2>4, <3>1 DEF OrderInv
  <2>9. StreamOf(data) \in produced' <=> StreamOf(in) \in produced
    BY <1>6, <2>6, <2>8 DEF StreamOf
  <2>10. Chain(StreamOf(data), data.after) \cap ran'
           = IF runs THEN {id} \cup (Chain(StreamOf(in), in.after) \cap ran)
             ELSE Chain(StreamOf(in), in.after) \cap ran
    <3>1. id \notin Chain(StreamOf(in), in.after) \/ TRUE OBVIOUS
    <3> QED BY <1>6, <1>18, <2>1, <2>7
  <2>11. CASE StreamOf(in) \notin produced
    BY <1>20, <2>5, <2>9, <2>11 DEF After, PacketOf
  <2>12. CASE StreamOf(in) \in produced
    <3>1. PacketOf(data)' = [source |-> in.source, type |-> in.type,
                             writers |-> Chain(StreamOf(data), data.after) \cap ran']
      BY <1>20, <2>6, <2>9, <2>12
    <3>2. PacketOf(in) = [source |-> in.source, type |-> in.type,
                          writers |-> Chain(StreamOf(in), in.after) \cap ran]
      BY <2>12 DEF PacketOf
    <3>3. After(in, id, runs) = IF runs THEN [PacketOf(in) EXCEPT !.writers = @ \cup {id}]
                                ELSE PacketOf(in)
      BY <2>12 DEF After
    <3> HIDE DEF id
    <3> QED BY <2>5, <2>10, <3>1, <3>2, <3>3
  <2> QED BY <2>11, <2>12
\* Slots of data that is made later are still empty.
<1>25. ASSUME NEW slot \in DOMAIN packets, NewAt(slot, n + 1)
       PROVE  packets'[slot] = NoPacket
  <2>1. NewAt(slot, n)
    <3>1. \A d \in DOMAIN indexes : At(d) \in Int BY <1>2, TableData
    <3> HIDE DEF n
    <3> QED BY <1>2, <1>25, <3>1 DEF NewAt
  <2>2. \A t \in stored : indexes[Output(id, t)] # slot
    <3>1. \A t \in stored : t \in Taken(id) BY <1>6
    <3> QED BY <1>2, <1>7, <1>25, <3>1 DEF NewAt
  <2>3. ASSUME NEW in \in DefinitionOf(id) PROVE InputSlot(in, id) # slot
    <3>1. PICK d \in DOMAIN indexes : InputSlot(in, id) = indexes[d] /\ At(d) < n + 1
      <4>1. PICK d \in DOMAIN indexes :
              InputSlot(in, id) = indexes[d] /\ (At(d) < n \/ At(d) = n)
        <5> HIDE DEF n, id
        <5> QED BY <1>15
      <4>2. At(d) \in Int BY <1>2, TableData
      <4> HIDE DEF n
      <4> QED BY <1>2, <4>1, <4>2 DEF n
    <3>2. At(d) \in Int BY <1>2, TableData
    <3> HIDE DEF n
    <3> QED BY <1>2, <1>25, <3>1, <3>2 DEF NewAt
  <2> QED BY <1>13, <1>17, <2>1, <2>2, <2>3
<1>26. \A m \in ran' : \E j \in 1 .. position' - 1 : order'[j] = m
  <2>1. \A j \in 1 .. n - 1 : j \in 1 .. n BY <1>2
  <2> QED BY <1>1, <1>2, <1>6, <1>17, <2>1
<1>27. \A st \in produced' : \E j \in 1 .. position' - 1 : order'[j] = st.source
  <2>1. \A j \in 1 .. n - 1 : j \in 1 .. n BY <1>2
  <2> QED BY <1>1, <1>2, <1>6, <1>17, <2>1
<1>28. ASSUME NEW data \in DOMAIN indexes', At(data)' < position', UsedFrom(data, position)'
       PROVE  packets'[indexes'[data]] = PacketOf(data)'
  <2>1. data \in DOMAIN indexes /\ indexes'[data] = indexes[data] BY <1>1 DEF slots
  <2>2. At(data) < n + 1 /\ UsedFrom(data, n + 1)
    BY <1>1, <1>19, <1>28 DEF UsedFrom
  <2>3. At(data) \in Int BY <1>2, <2>1, TableData
  <2>4. At(data) < n \/ At(data) = n
    <3> HIDE DEF n
    <3> QED BY <1>2, <2>2, <2>3
  <2> QED BY <1>22, <1>23, <1>24, <2>1, <2>2, <2>4
<1>29. ASSUME NEW slot \in DOMAIN packets', NewAt(slot, position)'
       PROVE  packets'[slot] = NoPacket
  <2>1. NewAt(slot, n + 1) BY <1>1, <1>19, <1>29 DEF NewAt
  <2> QED BY <1>14, <1>25, <2>1
<1>30. PassInv'
  <2>1. DOMAIN packets' = 0 .. nextFreeSlot' - 1 BY <1>1, <1>14, <1>17 DEF slots
  <2> HIDE DEF n, id
  <2> QED BY <2>1, <1>26, <1>27, <1>28, <1>29 DEF PassInv
<1> QED BY <1>3, <1>4, <1>5, <1>30 DEF GraphInv

LEMMA GraphKeeps == GraphInv /\ HistoryInv /\ [GraphNext]_graphVars => GraphInv'
<1> SUFFICES ASSUME GraphInv, HistoryInv, [GraphNext]_graphVars PROVE GraphInv'
  OBVIOUS
<1>1. CASE LoadModule BY <1>1, LoadKeeps
<1>2. CASE ParseOutputs BY <1>2, ParseOutputsKeeps
<1>3. CASE ParseInput BY <1>3, ParseInputKeeps
<1>4. CASE CheckStreams BY <1>4, CheckStreamsKeeps
<1>5. CASE MergeStream \/ MergeLink BY <1>5, MergeKeeps
<1>6. CASE OrderModules BY <1>6, OrderKeeps
<1>7. CASE ConnectModule BY <1>7, ConnectKeeps
<1>8. CASE CheckProcessors BY <1>8, CheckKeeps
<1>9. CASE PassPackets BY <1>9, PassKeeps
<1>10. CASE FreePackets BY <1>10, FreeKeeps
<1>11. CASE Stop BY <1>11, FailKeeps DEF Stop
<1>12. CASE Restart BY <1>12, RestartKeeps
<1>13. CASE UNCHANGED graphVars
  <2>1. UNCHANGED <<stage, waiting, libs, definition, streams, order, slots, pass>>
    BY <1>13 DEF graphVars
  <2>2. CASE Ordered
    <3>1. Connected' = Connected BY <2>1 DEF Connected, pass
    <3>2. stage' \in {"connect", "run"} BY <2>1, <2>2 DEF Ordered
    <3>3. (LoadInv /\ InputsInv /\ TableInv /\ ShareInv /\ OutSlotsInv /\ InSlotsInv)'
      BY <2>1, <2>2, <3>1, <3>2, GraphStays
    <3>4. (OrderInv /\ ProcessorsInv)'
      <4>1. UNCHANGED <<stage, libs, definition, order, outSlots, position>>
        BY <2>1 DEF slots, pass
      <4>2. OrderInv' BY <4>1 DEF GraphInv, OrderInv, Ordered
      <4>3. \A id : IsUseful(id)' = IsUseful(id)
        BY <4>1 DEF IsUseful, CopyNeeded, UsedLater, Position, libs
      <4>4. ProcessorsInv' BY <4>1, <4>3 DEF GraphInv, ProcessorsInv, libs
      <4> QED BY <4>2, <4>4
    <3>5. PassInv'
      <4>1. \A data : /\ At(data)' = At(data) /\ PacketOf(data)' = PacketOf(data)
                      /\ UsedFrom(data, position)' <=> UsedFrom(data, position)
        BY <2>1 DEF At, Position, PacketOf, Chain, InputsFrom, UsedFrom, DefinitionOf, pass
      <4>2. \A slot : NewAt(slot, position)' <=> NewAt(slot, position)
        BY <2>1 DEF NewAt, At, Position, slots, pass
      <4> QED BY <2>1, <4>1, <4>2 DEF GraphInv, PassInv, slots, pass
    <3> QED BY <3>3, <3>4, <3>5 DEF GraphInv
  <2>3. CASE ~ Ordered
    <3>1. (LoadInv /\ InputsInv)'
      BY <2>1 DEF GraphInv, LoadInv, InputsInv, IsDefinition, Users, libs, slots, pass
    <3> QED BY <2>1, <2>3, <3>1, Unordered DEF Ordered
  <2> QED BY <2>2, <2>3
<1> QED BY <1>1, <1>2, <1>3, <1>4, <1>5, <1>6, <1>7, <1>8, <1>9, <1>10, <1>11, <1>12, <1>13
        DEF GraphNext

\* The graph that is made, the slots of its data and the packets of a pass fit the
\* configuration in every reachable state.
THEOREM GraphInvariance == GraphSpec => [](GraphInv /\ HistoryInv)
<1>1. GraphInit => HistoryInv BY DEF GraphInit, HistoryInv
<1>2. HistoryInv /\ UNCHANGED graphVars => HistoryInv' BY DEF HistoryInv, graphVars, pass
<1> QED BY <1>1, <1>2, GraphInitially, GraphKeeps, HistoryKeeps, PTL DEF GraphSpec

\* Modules are given exactly the packets they declared, with exactly the changes of the
\* modules they come after.
THEOREM DataIsAsDeclared == GraphSpec => []DataAsDeclared
<1>1. GraphInv => DataAsDeclared
  <2> SUFFICES ASSUME GraphInv, stage = "run", position <= Len(order),
                      order[position] \in DOMAIN definition
               PROVE  DataAsDeclared
    BY DEF DataAsDeclared
  <2> DEFINE id == order[position]
  <2>1. Given(id) = {<<InputSlot(in, id), PacketOf(in)>> : in \in DefinitionOf(id)}
    BY GivenIs
  <2>2. {g[2] : g \in Given(id)} = {PacketOf(in) : in \in definition[id]}
    <3>1. DefinitionOf(id) = definition[id] BY DEF DefinitionOf
    <3> DEFINE Pair(in) == <<InputSlot(in, id), PacketOf(in)>>
    <3>2. Given(id) = {Pair(in) : in \in definition[id]} BY <2>1, <3>1
    <3>3. \A in : Pair(in)[2] = PacketOf(in) OBVIOUS
    <3> HIDE DEF Pair, id
    <3> QED BY <3>2, <3>3
  <2>3. ASSUME NEW in \in definition[id]
        PROVE  PacketOf(in) # NoPacket <=> StreamOf(in) \in produced
    <3>1. in \in DefinitionOf(id) BY DEF DefinitionOf
    <3>2. PICK k \in 1 .. Len(order) : order[k] = in.source
      <4>1. in \in DOMAIN indexes BY <3>1, InputsAt
      <4>2. Ordered BY DEF Ordered
      <4> HIDE DEF id
      <4> QED BY <4>1, <4>2, TableData
    <3>3. in.source \in Ids BY <3>2, PositionIs DEF GraphInv, Ordered
    <3>4. in.source # None BY <3>3, IdsAreNaturals DEF None
    <3> QED BY <3>4 DEF PacketOf, NoPacket
  <2>4. {PacketOf(in) : in \in definition[id]} \ {NoPacket}
          = {[source |-> in.source, type |-> in.type,
              writers |-> Chain(StreamOf(in), in.after) \cap ran] :
               in \in {i \in definition[id] : StreamOf(i) \in produced}}
    BY <2>3 DEF PacketOf
  <2> QED BY <2>2, <2>4 DEF DataAsDeclared
<1> QED BY <1>1, GraphInvariance, PTL

\* A processor of a graph in which every user has a place has a consumer, which is no INPUT.
LEMMA ProcessorsHaveConsumers ==
  ASSUME GraphInv, stage = "run", DOMAIN definition \subseteq Range(order),
         NEW k \in 1 .. Len(order), info[order[k]].type = "PROCESSOR"
  PROVE  \E j \in k + 1 .. Len(order) :
           /\ order[j] \in Consumers(order[k])
           /\ info[order[j]].type \in {"OUTPUT", "PROCESSOR"}
<1> DEFINE id == order[k]
<1>1. /\ Ordered /\ OrderInv /\ TableInv /\ InputsInv /\ LoadInv /\ ProcessorsInv
      /\ Connected = Len(order) /\ Len(order) \in Nat /\ order \in Seq(Ids)
      /\ id \in Ids /\ id # None
  BY IdsAreNaturals DEF GraphInv, OrderInv, Ordered, Connected, None
<1>2. ASSUME NEW j \in k + 1 .. Len(order), order[j] \in DOMAIN definition,
             NEW in \in definition[order[j]], in.source = id \/ in.after = id
      PROVE  /\ order[j] \in Consumers(id)
             /\ info[order[j]].type \in {"OUTPUT", "PROCESSOR"}
  <2>1. j \in 1 .. Len(order) /\ j > k BY <1>1
  <2>2. Position(order[j]) = j /\ Position(id) = k BY <1>1, <2>1, PositionIs
  <2>3. order[j] \in Range(order) BY <1>1, <2>1 DEF Range
  <2>4. order[j] \in Ids /\ info[order[j]].type # "INPUT"
    BY <1>1, <1>2 DEF InputsInv, GraphStages
  <2>5. info[order[j]].type \in ModuleTypes
    BY <1>1, <2>4 DEF LoadInv, GraphStages, ModuleInfo
  <2> QED BY <1>2, <2>1, <2>2, <2>3, <2>4, <2>5 DEF Consumers, ModuleTypes
<1>3. IsUseful(id) BY <1>1 DEF ProcessorsInv
<1>4. CASE \E t \in outputs[id] : outSlots[id][t] # None
  <2>1. PICK t \in Taken(id) : TRUE BY <1>1, <1>4, OwnSlots
  <2> DEFINE st == [source |-> id, type |-> t]
  <2>2. Users(st) # {} BY <1>1, <2>1 DEF InputsInv, GraphStages, Taken
  <2>3. PICK user \in DOMAIN definition, in \in UNION Range(definition) :
          in \in definition[user] /\ StreamOf(in) = st
    BY <2>2 DEF Users, Range
  <2>4. PICK j \in 1 .. Len(order) : order[j] = user BY <1>1, <2>3 DEF Range
  <2>5. in \in DefinitionOf(order[j]) BY <2>3, <2>4 DEF DefinitionOf
  <2>6. in \in DOMAIN indexes /\ At(in) < j BY <1>1, <2>5 DEF TableInv
  <2>7. At(in) \in 1 .. Len(order) /\ \E i \in 1 .. At(in) : order[i] = in.source
    BY <1>1, <2>6, TableData
  <2>8. in.source = id BY <2>3 DEF StreamOf
  <2>9. k <= At(in)
    <3> HIDE DEF At
    <3> QED BY <1>1, <2>7, <2>8 DEF OrderInv
  <2>10. j \in k + 1 .. Len(order) BY <2>6, <2>7, <2>9
  <2> QED BY <1>2, <2>3, <2>4, <2>8, <2>10
<1>5. CASE \E in \in definition[id] : CopyNeeded(id, in) /\ UsedLater(in.source, in.type, id, id)
  <2>1. PICK in \in definition[id] : UsedLater(in.source, in.type, id, id) BY <1>5
  <2>2. Position(id) = k BY <1>1, PositionIs
  <2>3. PICK j \in k + 1 .. Len(order) :
          /\ order[j] \in DOMAIN definition
          /\ [source |-> in.source, type |-> in.type, after |-> id] \in definition[order[j]]
    BY <2>1, <2>2 DEF UsedLater
  <2> QED BY <1>2, <2>3
<1> QED BY <1>3, <1>4, <1>5 DEF IsUseful

\* What every processor of a graph that runs does gets to an OUTPUT through modules that
\* are executed one after another, unless an OUTPUT has lost its place.
THEOREM ProcessorsAreUseful == GraphSpec => []ProcessorsReachOutputs
<1>1. GraphInv => ProcessorsReachOutputs
  <2> SUFFICES ASSUME GraphInv, stage = "run" PROVE ProcessorsReachOutputs
    BY DEF ProcessorsReachOutputs
  <2>1. /\ OrderInv /\ ProcessorsInv /\ Len(order) \in Nat /\ order \in Seq(Ids)
        /\ \A j, k \in 1 .. Len(order) : order[j] = order[k] => j = k
    BY DEF GraphInv, OrderInv, Ordered
  <2>2. IsInjective(order) BY <2>1 DEF IsInjective
  <2>3. ASSUME DOMAIN definition \subseteq Range(order), NEW S \in SUBSET Range(order),
               \A id \in Range(order) :
                 info[id].type = "OUTPUT" \/ Consumers(id) \cap S # {} => id \in S,
               NEW id \in Ids, info[id].type = "PROCESSOR"
        PROVE  id \in S
    <3> SUFFICES ASSUME id \notin S PROVE FALSE
      OBVIOUS
    <3> DEFINE Missed == {k \in 1 .. Len(order) :
                            info[order[k]].type = "PROCESSOR" /\ order[k] \notin S}
    <3>1. Missed # {}
      <4>1. id \in Range(order) BY <2>1, <2>3 DEF ProcessorsInv, IsUseful
      <4>2. PICK k \in 1 .. Len(order) : order[k] = id BY <2>1, <4>1 DEF Range
      <4> QED BY <2>3, <4>2
    <3>2. PICK k \in Missed : \A j \in Missed : j <= k
      <4> DEFINE Behind == {Len(order) - j : j \in Missed}
      <4>1. Behind \subseteq Nat /\ Behind # {} BY <2>1, <3>1
      <4>2. PICK x \in Behind : \A y \in Behind : x <= y
        <5> HIDE DEF Behind
        <5> QED BY <4>1, LeastNatural
      <4>3. PICK k \in Missed : x = Len(order) - k OBVIOUS
      <4>4. \A j \in Missed : Len(order) - k <= Len(order) - j BY <4>2, <4>3
      <4>5. \A j \in Missed : j <= k BY <2>1, <4>4
      <4> QED BY <4>5
    <3>3. PICK j \in k + 1 .. Len(order) :
            /\ order[j] \in Consumers(order[k])
            /\ info[order[j]].type \in {"OUTPUT", "PROCESSOR"}
      BY <2>3, ProcessorsHaveConsumers
    <3>4. j \in 1 .. Len(order) /\ k \in 1 .. Len(order) /\ ~ (j <= k) BY <2>1
    <3>5. order[j] \in Range(order) /\ order[k] \in Range(order) BY <2>1, <3>4 DEF Range
    <3>6. order[j] \in S
      <4>1. CASE info[order[j]].type = "OUTPUT" BY <2>3, <3>5, <4>1
      <4>2. CASE info[order[j]].type = "PROCESSOR" BY <3>2, <3>4, <4>2
      <4> QED BY <3>3, <4>1, <4>2
    <3> QED BY <2>3, <3>3, <3>5, <3>6
  <2> QED BY <2>2, <2>3 DEF ProcessorsReachOutputs
<1> QED BY <1>1, GraphInvariance, PTL

\* What is made from the order is not there before: with it, the types are inductive.
StageInv ==
  /\ stage # "merge" => unmerged = {}
  /\ stage # "run" => packets = <<>>
  /\ ~ Ordered => order = <<>>

TypesInv == GraphTypeOK /\ StageInv

LEMMA FailTypes ==
  ASSUME NEW place \in {"stopped", "failed", "crashed"}, Fail(place)
  PROVE  TypesInv'
<1>1. DOMAIN Empty = {} /\ Range(Empty) = {} BY DEF Empty, Range
<1>2. 0 .. 0 - 1 = {} OBVIOUS
<1> QED BY <1>1, <1>2 DEF Fail, Cleanup, TypesInv, GraphTypeOK, StageInv, Ordered, GraphPlaces

\* The slots in the table are all that are in use, and stay in it.
LEMMA ConnectTypes ==
  ASSUME GraphInv, GraphInv', TypesInv, ConnectModule, ~ Fail("failed")
  PROVE  TypesInv'
<1> DEFINE n       == position
           id      == order[n]
           new     == NewSlots(id)
           Same(d) == CHOOSE in \in Changed(id) : StreamOf(in) = StreamOf(d)
           card    == Cardinality(NewData(id))
<1>1. /\ stage = "connect" /\ n <= Len(order) /\ position' = n + 1
      /\ indexes' = [d \in DOMAIN indexes \cup NewData(id)
                             \cup {Result(in, id) : in \in Changed(id)} |->
                       IF d \in NewData(id) THEN new[d]
                       ELSE IF d.after = id THEN indexes[Same(d)] ELSE indexes[d]]
      /\ nextFreeSlot' = nextFreeSlot + card
      /\ UNCHANGED <<merge, waiting, stage, libs, definition, streams, order, packets, ran,
                     produced>>
  BY Zenon DEF ConnectModule
<1>2. /\ Ordered /\ OrderInv /\ OrderInv' /\ TableInv' /\ Ordered'
      /\ n \in 1 .. Len(order) /\ Len(order) \in Nat /\ id \in Ids /\ id # None
      /\ Connected = n - 1
  BY <1>1, IdsAreNaturals DEF Ordered, GraphInv, OrderInv, Connected, None
<1>3. /\ card \in Nat /\ nextFreeSlot \in Nat
      /\ \A slot \in nextFreeSlot .. nextFreeSlot + card - 1 :
           \E d \in NewData(id) : new[d] = slot
  BY <1>2, NewSlotsFollow
<1>4. ASSUME NEW d \in DOMAIN indexes
      PROVE  d \in DOMAIN indexes' /\ indexes'[d] = indexes[d]
  <2>1. /\ At(d) \in 1 .. n - 1
        /\ order[At(d)] = IF d.after = None THEN d.source ELSE d.after
    BY <1>2, TableData
  <2>2. order[At(d)] # id BY <1>2, <2>1 DEF OrderInv
  <2>3. d.after # id /\ d \notin NewData(id)
    BY <1>2, <2>1, <2>2 DEF NewData, Output, Result
  <2> HIDE DEF id, new, Same
  <2> QED BY <1>1, <2>3
<1>5. \A d \in NewData(id) : d \in DOMAIN indexes' /\ indexes'[d] = new[d]
  <2> HIDE DEF id, new, Same
  <2> QED BY <1>1
<1> HIDE DEF id, new, card, n
<1>6. Range(indexes') = 0 .. nextFreeSlot' - 1
  <2>1. Range(indexes') \subseteq 0 .. nextFreeSlot' - 1
    BY <1>2 DEF TableInv, Range
  <2>2. ASSUME NEW slot \in 0 .. nextFreeSlot' - 1 PROVE slot \in Range(indexes')
    <3>1. CASE slot < nextFreeSlot
      <4>1. slot \in Range(indexes)
        BY <1>3, <2>2, <3>1 DEF TypesInv, GraphTypeOK
      <4> QED BY <1>4, <4>1 DEF Range
    <3>2. CASE slot >= nextFreeSlot
      <4>1. slot \in nextFreeSlot .. nextFreeSlot + card - 1 BY <1>1, <1>3, <2>2, <3>2
      <4> QED BY <1>3, <1>5, <4>1 DEF Range
    <3> QED BY <1>3, <2>2, <3>1, <3>2
  <2> QED BY <2>1, <2>2
<1>7. DOMAIN packets' = {} BY <1>1 DEF TypesInv, StageInv
<1>8. order' \in Seq(Ids) /\ position' \in 1 .. Len(order') + 1
  BY <1>2 DEF OrderInv
<1>9. StageInv' BY <1>1 DEF TypesInv, StageInv, Ordered, merge
<1> QED BY <1>1, <1>6, <1>7, <1>8, <1>9 DEF TypesInv, GraphTypeOK, merge, libs

\* Before there is an order, there is nothing that depends on it.
LEMMA UnorderedTypes ==
  ASSUME GraphInv', HistoryInv', StageInv', stage' \notin {"connect", "run"},
         stage' \in GraphPlaces, waiting' \subseteq Ids, unmerged' \subseteq streams',
         DOMAIN info' \subseteq Ids, DOMAIN definition' \subseteq Ids,
         \A id \in DOMAIN info' : info'[id] \in Libraries[id],
         \A id \in DOMAIN definition' : definition'[id] \in InputChoices[id],
         streams' \subseteq [source : Ids, type : Int]
  PROVE  TypesInv'
<1>1. indexes' = Empty /\ nextFreeSlot' = 0 /\ position' = 1
  BY DEF GraphInv, LoadInv
<1>2. ran' = {} /\ produced' = {} /\ packets' = <<>> /\ order' = <<>>
  BY DEF HistoryInv, StageInv, Ordered
<1>3. Range(indexes') = {} BY <1>1 DEF Empty, Range
<1>4. 0 .. nextFreeSlot' - 1 = {} BY <1>1
<1> QED BY <1>1, <1>2, <1>3, <1>4 DEF TypesInv, GraphTypeOK

LEMMA TypesKeep == GraphInv /\ HistoryInv /\ TypesInv /\ GraphNext => TypesInv'
<1> SUFFICES ASSUME GraphInv, HistoryInv, TypesInv, GraphNext PROVE TypesInv'
  OBVIOUS
<1>1. GraphInv' /\ HistoryInv' BY GraphKeeps, HistoryKeeps
<1>2. ASSUME NEW place \in {"stopped", "failed", "crashed"}, Fail(place) PROVE TypesInv'
  BY <1>2, FailTypes
<1>3. LoadInv /\ InputsInv /\ GraphTypeOK /\ StageInv BY DEF GraphInv, TypesInv
<1>4. CASE LoadModule /\ ~ Fail("failed")
  <2> DEFINE id == Least(waiting)
  <2>1. id \in Ids BY <1>3, <1>4, LeastIn DEF LoadModule, LoadInv
  <2>2. PICK lib \in Libraries[id] : info' = With(info, id, lib)
    BY <1>4, SMT DEF LoadModule, id
  <2>3. /\ stage = "load"
        /\ UNCHANGED <<stage, merge, definition, streams, order, pass>>
    BY <1>4, Zenon DEF LoadModule, slots
  <2> HIDE DEF id
  <2>4. /\ DOMAIN info' = DOMAIN info \cup {id} /\ info'[id] = lib
        /\ \A m \in DOMAIN info \ {id} : info'[m] = info[m]
    BY <2>2 DEF With
  <2>5. waiting' \subseteq Ids BY <1>1 DEF GraphInv, LoadInv
  <2>6. StageInv' BY <1>3, <2>3 DEF StageInv, Ordered, merge, pass
  <2> QED BY <1>1, <1>3, <2>1, <2>3, <2>4, <2>5, <2>6, UnorderedTypes
          DEF GraphTypeOK, GraphPlaces, merge
<1>5. CASE ParseOutputs /\ ~ Fail("failed")
  <2>1. /\ stage = "load" /\ stage' = "inputs"
        /\ UNCHANGED <<merge, libs, definition, order, pass>>
    BY <1>5 DEF ParseOutputs, slots
  <2>2. StageInv' /\ unmerged' = {} BY <1>3, <2>1 DEF StageInv, Ordered, merge, pass
  <2>3. waiting' \subseteq Ids /\ streams' \subseteq [source : Ids, type : Int]
    BY <1>1, <2>1 DEF GraphInv, LoadInv, InputsInv, GraphStages
  <2> QED BY <1>1, <1>3, <2>1, <2>2, <2>3, UnorderedTypes DEF GraphTypeOK, GraphPlaces, libs
<1>6. CASE ParseInput /\ ~ Fail("failed")
  <2> DEFINE id == Least(waiting)
  <2>1. id \in Ids BY <1>3, <1>6, LeastIn DEF ParseInput, LoadInv
  <2>2. PICK def \in InputChoices[id] : definition' = With(definition, id, def)
    BY <1>6, SMT DEF ParseInput, id
  <2>3. /\ stage = "inputs"
        /\ UNCHANGED <<stage, merge, libs, streams, order, pass>>
    BY <1>6, Zenon DEF ParseInput, slots
  <2> HIDE DEF id
  <2>4. /\ DOMAIN definition' = DOMAIN definition \cup {id} /\ definition'[id] = def
        /\ \A m \in DOMAIN definition \ {id} : definition'[m] = definition[m]
    BY <2>2 DEF With
  <2>5. waiting' \subseteq Ids BY <1>1 DEF GraphInv, LoadInv
  <2>6. StageInv' BY <1>3, <2>3 DEF StageInv, Ordered, merge, pass
  <2> QED BY <1>1, <1>3, <2>1, <2>3, <2>4, <2>5, <2>6, UnorderedTypes
          DEF GraphTypeOK, GraphPlaces, merge, libs
<1>7. CASE CheckStreams /\ ~ Fail("failed")
  <2>1. /\ stage' = "merge" /\ unmerged' = streams'
        /\ UNCHANGED <<libs, definition, order, pass>>
    BY <1>7 DEF CheckStreams, slots
  <2>2. stage = "inputs" BY <1>7 DEF CheckStreams
  <2>3. StageInv' BY <1>3, <2>1, <2>2 DEF StageInv, Ordered, pass
  <2>4. waiting' \subseteq Ids /\ streams' \subseteq [source : Ids, type : Int]
    BY <1>1, <2>1 DEF GraphInv, LoadInv, InputsInv, GraphStages
  <2> QED BY <1>1, <1>3, <2>1, <2>3, <2>4, UnorderedTypes DEF GraphTypeOK, GraphPlaces, libs
<1>8. CASE (MergeStream \/ MergeLink) /\ ~ Fail("failed") /\ ~ Fail("crashed")
  <2>1. /\ stage = "merge" /\ unmerged' \subseteq unmerged
        /\ UNCHANGED <<stage, waiting, libs, definition, streams, order, pass>>
    <3>1. CASE MergeStream BY <3>1 DEF MergeStream, slots
    <3>2. CASE MergeLink
      <4>1. /\ stage = "merge" /\ unmerged' = unmerged
            /\ UNCHANGED <<stage, waiting, libs, definition, streams, order, pass>>
        BY <1>8, <3>2, Zenon DEF MergeLink, slots
      <4> QED BY <4>1
    <3> QED BY <1>8, <3>1, <3>2
  <2>2. StageInv' BY <1>3, <2>1 DEF StageInv, Ordered, pass
  <2> QED BY <1>1, <1>3, <2>1, <2>2, UnorderedTypes DEF GraphTypeOK, GraphPlaces, libs
<1>9. CASE OrderModules
  <2>1. /\ stage = "merge" /\ stage' = "connect" /\ unmerged = {}
        /\ UNCHANGED <<merge, waiting, libs, definition, streams, slots, pass>>
    BY <1>9 DEF OrderModules
  <2>2. order' \in Seq(Ids) /\ position' \in 1 .. Len(order') + 1
    BY <1>1, <2>1 DEF GraphInv, OrderInv, Ordered
  <2>3. StageInv' BY <1>3, <2>1 DEF StageInv, Ordered, merge, pass
  <2> QED BY <1>3, <2>1, <2>2, <2>3 DEF TypesInv, GraphTypeOK, GraphPlaces, merge, libs, slots, pass
<1>10. CASE ConnectModule /\ ~ Fail("failed") BY <1>1, <1>10, ConnectTypes
<1>11. CASE CheckProcessors /\ ~ Fail("failed")
  <2>1. /\ stage = "connect" /\ stage' = "run"
        /\ packets' = [slot \in 0 .. nextFreeSlot - 1 |-> NoPacket]
        /\ UNCHANGED <<merge, waiting, libs, definition, streams, order, slots, ran, produced>>
    BY <1>11 DEF CheckProcessors
  <2>2. order' \in Seq(Ids) /\ position' \in 1 .. Len(order') + 1
    BY <1>1, <2>1 DEF GraphInv, OrderInv, Ordered
  <2>3. StageInv' BY <1>3, <2>1 DEF StageInv, Ordered, merge
  <2> QED BY <1>3, <2>1, <2>2, <2>3 DEF TypesInv, GraphTypeOK, GraphPlaces, merge, libs, slots
<1>12. CASE PassPackets
  <2> DEFINE id == order[position]
  <2>1. /\ stage = "run" /\ position <= Len(order)
        /\ UNCHANGED <<merge, waiting, stage, libs, definition, streams, order, slots>>
    BY <1>12, Zenon DEF PassPackets
  <2>2. id \in Ids BY <1>3, <2>1 DEF GraphTypeOK
  <2>3. PICK stored \in SUBSET Taken(id) :
          /\ ran' \subseteq ran \cup {id}
          /\ produced' = produced \cup {[source |-> id, type |-> t] : t \in stored}
    <3>1. PICK runs \in BOOLEAN, stored \in SUBSET Taken(id) :
            /\ packets' = Store(Store(packets, {<<InputSlot(in, id), After(in, id, runs)>> :
                                                   in \in DefinitionOf(id)}),
                                Own(id, stored))
            /\ ran' = IF runs THEN ran \cup {id} ELSE ran
            /\ produced' = produced \cup {[source |-> id, type |-> t] : t \in stored}
      BY <1>12, PassIs
    <3> HIDE DEF id
    <3> QED BY <3>1
  <2>4. \A t \in stored : [source |-> id, type |-> t] \in streams BY DEF Taken
  <2>5. ran' \subseteq Ids /\ produced' \subseteq streams'
    <3> HIDE DEF id
    <3> QED BY <1>3, <2>1, <2>2, <2>3, <2>4 DEF GraphTypeOK
  <2>6. /\ order' \in Seq(Ids) /\ position' \in 1 .. Len(order') + 1
        /\ DOMAIN packets' = 0 .. nextFreeSlot' - 1
    BY <1>1, <2>1 DEF GraphInv, OrderInv, Ordered, PassInv
  <2>7. StageInv' BY <1>3, <2>1 DEF StageInv, Ordered, merge
  <2> QED BY <1>3, <2>1, <2>5, <2>6, <2>7 DEF TypesInv, GraphTypeOK, GraphPlaces, merge, libs, slots
<1>13. CASE FreePackets
  <2>1. /\ stage = "run" /\ ran' = {} /\ produced' = {} /\ DOMAIN packets' = DOMAIN packets
        /\ UNCHANGED <<merge, waiting, stage, libs, definition, streams, order, slots>>
    BY <1>13 DEF FreePackets
  <2>2. order' \in Seq(Ids) /\ position' \in 1 .. Len(order') + 1
    BY <1>1, <2>1 DEF GraphInv, OrderInv, Ordered
  <2>3. StageInv' BY <1>3, <2>1 DEF StageInv, Ordered, merge
  <2> QED BY <1>3, <2>1, <2>2, <2>3 DEF TypesInv, GraphTypeOK, GraphPlaces, merge, libs, slots
<1>14. CASE Stop BY <1>2, <1>14 DEF Stop
<1>15. CASE Restart
  <2>1. /\ stage \in {"stopped", "failed", "crashed"} /\ stage' = "load" /\ waiting' = Ids
        /\ UNCHANGED <<merge, libs, definition, streams, order, slots, pass>>
    BY <1>15 DEF Restart
  <2>2. StageInv' BY <1>3, <2>1 DEF StageInv, Ordered, merge, pass
  <2> QED BY <1>3, <2>1, <2>2 DEF TypesInv, GraphTypeOK, GraphPlaces, merge, libs, slots, pass
<1> QED BY <1>2, <1>4, <1>5, <1>6, <1>7, <1>8, <1>9, <1>10, <1>11, <1>12, <1>13, <1>14, <1>15
        DEF GraphNext

\* Every variable of the graph model stays within its type; slots are given out one after
\* another, and all of them are in the table.
THEOREM GraphTypesCorrect == GraphSpec => []GraphTypeOK
<1>1. GraphInit => TypesInv
  <2> SUFFICES ASSUME GraphInit PROVE TypesInv
    OBVIOUS
  <2>1. DOMAIN Empty = {} /\ Range(Empty) = {} BY DEF Empty, Range
  <2>2. 0 .. 0 - 1 = {} OBVIOUS
  <2> QED BY <2>1, <2>2 DEF GraphInit, TypesInv, GraphTypeOK, StageInv, Ordered, GraphPlaces
<1>2. TypesInv /\ UNCHANGED graphVars => TypesInv'
  BY DEF TypesInv, GraphTypeOK, StageInv, Ordered, graphVars, merge, libs, slots, pass
<1>3. TypesInv => GraphTypeOK BY DEF TypesInv
<1> QED BY <1>1, <1>2, <1>3, TypesKeep, GraphInvariance, PTL DEF GraphSpec
=============================================================================
