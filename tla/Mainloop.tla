------------------------------ MODULE Mainloop ------------------------------
(***************************************************************************)
(* The mainloop thread of cAER, the two running flags that control it, and *)
(* the start, run, stop and destruction of the modules it executes.        *)
(*                                                                         *)
(* Actors: the mainloop thread (caerMainloopRun, caerMainloopRunner), the  *)
(* thread of the configuration server, on which every client request runs, *)
(* the POSIX signal handler, and the threads that RUNNING modules own.     *)
(* sshsNodePutAttribute stores the value and calls the listeners while it  *)
(* holds the node's lock, so a put and its listeners are one step here;    *)
(* everything else the mainloop thread does is split where another actor   *)
(* can see or disturb what it did so far.                                  *)
(*                                                                         *)
(* What a step does after it has touched freed memory is undefined: pc     *)
(* then is "undefined" and the mainloop takes no further step.             *)
(***************************************************************************)
EXTENDS Naturals

CONSTANTS
  Modules,      \* names of the modules a configuration may hold
  Inputs,       \* the INPUT modules among them: they publish data
  AutoRestart,  \* the modules whose Exit sets "running" again
  MaxSleep,     \* passes skipped without data before one runs anyway (1000)
  Environment   \* the outside events that may happen, see OutsideEvents

OutsideEvents ==
  {"signal", "shutdown", "stop", "start", "moduleStop", "moduleStart",
   "add", "remove"}

ASSUME MainloopAssumption ==
  /\ Inputs \subseteq Modules
  /\ AutoRestart \subseteq Inputs
  /\ MaxSleep \in Nat
  /\ Environment \subseteq OutsideEvents

VARIABLES
  pc,             \* where the mainloop thread is
  todo,           \* modules the current phase has not handled yet
  execution,      \* glMainloopData.globalExecution, in any order
  sleepCount,     \* local of caerMainloopRunner
  systemRunning,  \* glMainloopData.systemRunning
  running,        \* glMainloopData.running
  systemAttr,     \* value of attribute "/caer/running"
  runAttr,        \* value of attribute "/running"
  listening,      \* which of the two attributes has its listener
  handler,        \* the signal handler: idle, between its stores, done
  node,           \* module node: absent, without or with "running"
  dangling,       \* modules of execution whose node was removed
  attr,           \* value of the attribute "running" of a module
  live,           \* modules whose caer_module_data is allocated
  registered,     \* modules with caerModuleShutdownListener added
  flag,           \* moduleData->running
  status,         \* moduleData->moduleStatus; moduleState and a module's
                  \* own threads exist exactly while it is "RUNNING"
  pending,        \* modules with published, unconsumed containers
  overridden,     \* history: modules that missed or undid a stop
  leaked,         \* modules with data that a failed start never freed
  orphans         \* the listeners that are still registered with it

mainVars   == <<pc, todo, execution, sleepCount>>
flagVars   == <<systemRunning, running, systemAttr, runAttr, listening>>
nodeVars   == <<node, dangling>>
leftVars   == <<leaked, orphans>>
moduleVars == <<attr, live, registered, flag, status, pending, overridden,
                leftVars>>
vars == <<mainVars, flagVars, handler, nodeVars, moduleVars>>

Passes == {"firstPass", "loopPass", "lastPass"}
Places == {"start", "listenSystem", "storeRunning", "listenRunning",
           "outer", "update", "collect", "build", "init", "loop",
           "stopping", "destroy", "fail", "exited", "undefined"} \cup Passes

TypeOK ==
  /\ pc \in Places
  /\ todo \subseteq execution
  /\ execution \subseteq Modules
  /\ sleepCount \in 0 .. MaxSleep + 1
  /\ systemRunning \in BOOLEAN /\ running \in BOOLEAN
  /\ systemAttr \in BOOLEAN /\ runAttr \in BOOLEAN
  /\ listening \subseteq {"system", "running"}
  /\ handler \in {"idle", "entered", "done"}
  /\ node \in [Modules -> {"absent", "added", "created"}]
  /\ dangling \subseteq Modules
  /\ attr \in [Modules -> BOOLEAN] /\ flag \in [Modules -> BOOLEAN]
  /\ status \in [Modules -> {"STOPPED", "RUNNING"}]
  /\ live \subseteq Modules /\ registered \subseteq Modules
  /\ pending \subseteq Inputs /\ overridden \subseteq Modules
  /\ leaked \subseteq Modules /\ orphans \subseteq Modules

Init ==
  /\ pc = "start" /\ todo = {} /\ execution = {} /\ sleepCount = 0
  /\ systemRunning = FALSE /\ running = FALSE
  /\ systemAttr = TRUE /\ runAttr = TRUE /\ listening = {}
  /\ handler = "idle"
  /\ node \in [Modules -> {"absent", "added"}] /\ dangling = {}
  /\ attr = [m \in Modules |-> FALSE] /\ flag = [m \in Modules |-> FALSE]
  /\ status = [m \in Modules |-> "STOPPED"]
  /\ live = {} /\ registered = {} /\ pending = {} /\ overridden = {}
  /\ leaked = {} /\ orphans = {}

-----------------------------------------------------------------------------
(* caerMainloopRun: start-up, the outer loop and its end.                  *)

StartSystem ==
  /\ pc = "start"
  /\ systemRunning' = TRUE
  /\ pc' = "listenSystem"
  /\ UNCHANGED <<todo, execution, sleepCount, running, systemAttr, runAttr,
                 listening, handler, nodeVars, moduleVars>>

ListenSystem ==
  /\ pc = "listenSystem"
  /\ listening' = listening \cup {"system"}
  /\ pc' = "storeRunning"
  /\ UNCHANGED <<todo, execution, sleepCount, systemRunning, running,
                 systemAttr, runAttr, handler, nodeVars, moduleVars>>

StoreRunning ==
  /\ pc = "storeRunning"
  /\ running' = TRUE
  /\ pc' = "listenRunning"
  /\ UNCHANGED <<todo, execution, sleepCount, systemRunning, systemAttr,
                 runAttr, listening, handler, nodeVars, moduleVars>>

ListenRunning ==
  /\ pc = "listenRunning"
  /\ listening' = listening \cup {"running"}
  /\ pc' = "outer"
  /\ UNCHANGED <<todo, execution, sleepCount, systemRunning, running,
                 systemAttr, runAttr, handler, nodeVars, moduleVars>>

\* A new round of the outer loop; it sleeps while running is FALSE.
EnterRun ==
  /\ pc = "outer" /\ systemRunning /\ running
  /\ pc' = "update"
  /\ UNCHANGED <<todo, execution, sleepCount, flagVars, handler, nodeVars,
                 moduleVars>>

\* Mutant: the outer loop looks at running before it looks at systemRunning.
LeaveOuterOnlyEnabled ==
  /\ pc = "outer" /\ ~systemRunning /\ running
  /\ listening' = {}
  /\ pc' = "exited"
  /\ UNCHANGED <<todo, execution, sleepCount, systemRunning, running,
                 systemAttr, runAttr, handler, nodeVars, moduleVars>>

LeaveOuter ==
  /\ pc = "outer" /\ ~systemRunning
  /\ listening' = {}
  /\ pc' = "exited"
  /\ UNCHANGED <<todo, execution, sleepCount, systemRunning, running,
                 systemAttr, runAttr, handler, nodeVars, moduleVars>>

\* caerUpdateModulesInformation throws when the search path has no module.
UpdateInformation ==
  /\ pc = "update"
  /\ pc' \in {"collect", "fail"}
  /\ UNCHANGED <<todo, execution, sleepCount, flagVars, handler, nodeVars,
                 moduleVars>>

\* sshsNodePutBool(configNode, "running", FALSE): the listener is called
\* only when the attribute's value changes.
FailRun ==
  /\ pc = "fail"
  /\ runAttr' = FALSE
  /\ running' = (running /\ ~(runAttr /\ "running" \in listening))
  /\ pc' = "outer"
  /\ UNCHANGED <<todo, execution, sleepCount, systemRunning, systemAttr,
                 listening, handler, nodeVars, moduleVars>>

-----------------------------------------------------------------------------
(* caerMainloopRunner: collecting the modules, building their              *)
(* connectivity, and initialising them.                                    *)

CollectModules ==
  LET present == {m \in Modules : node[m] # "absent"}
  IN /\ pc = "collect"
     /\ execution' = present /\ todo' = present
     /\ pc' = IF present = {} THEN "fail" ELSE "build"
     /\ UNCHANGED <<sleepCount, flagVars, handler, nodeVars, moduleVars>>

\* cleanupGlobals after an error. It forgets the data of the modules that
\* were initialised, and neither frees it nor removes its listeners. Those
\* go on to store into that data, which nobody reads; the next start
\* allocates new data and adds a listener of its own.
AbandonRun ==
  /\ execution' = {} /\ todo' = {} /\ dangling' = {}
  /\ leaked' = leaked \cup live /\ live' = {}
  /\ orphans' = orphans \cup registered /\ registered' = {}
  /\ pc' = "fail"

\* Every check of the configuration passes, or one of them throws.
BuildConnectivity ==
  /\ pc = "build" /\ dangling = {}
  /\ \/ /\ pc' = "init"
        /\ UNCHANGED <<todo, execution, dangling, live, registered, leftVars>>
     \/ AbandonRun
  /\ UNCHANGED <<sleepCount, flagVars, handler, node, attr, flag, status,
                 pending, overridden>>

\* caerModuleInitialize up to and including the store of the flag; the value
\* of "runAtStartup" is the client's choice.
InitializeModule(m) ==
  /\ pc = "init" /\ m \in todo \ dangling /\ todo \cap live = {}
  /\ \E runModule \in BOOLEAN :
       /\ attr' = [attr EXCEPT ![m] = runModule]
       /\ flag' = [flag EXCEPT ![m] = runModule]
  /\ live' = live \cup {m}
  /\ status' = [status EXCEPT ![m] = "STOPPED"]
  /\ node' = [node EXCEPT ![m] = "created"]
  /\ overridden' = overridden \ {m}
  /\ UNCHANGED <<pc, todo, execution, sleepCount, flagVars, handler,
                 dangling, registered, pending, leftVars>>

\* ... and its last statement, which adds the listener.
AddShutdownListener(m) ==
  /\ pc = "init" /\ m \in (todo \cap live) \ dangling
  /\ registered' = registered \cup {m}
  /\ todo' = todo \ {m}
  /\ UNCHANGED <<pc, execution, sleepCount, flagVars, handler, nodeVars,
                 attr, live, flag, status, pending, overridden, leftVars>>

\* No memory for a module's data, or for the input container.
InitializeFails ==
  /\ pc = "init" /\ todo \cap live = {}
  /\ AbandonRun
  /\ UNCHANGED <<sleepCount, flagVars, handler, node, attr, flag, status,
                 pending, overridden>>

BeginFirstPass ==
  /\ pc = "init" /\ todo = {}
  /\ todo' = execution
  /\ pc' = "firstPass"
  /\ sleepCount' = 0
  /\ UNCHANGED <<execution, flagVars, handler, nodeVars, moduleVars>>

-----------------------------------------------------------------------------
(* runModules: one turn of caerModuleSM for every module of execution.     *)

\* sshsNodePutBool(moduleNode, "running", b) and caerModuleShutdownListener.
PutModuleRunning(m, b) ==
  /\ attr' = [attr EXCEPT ![m] = b]
  /\ flag' = [flag EXCEPT ![m] = IF attr[m] # b /\ m \in registered
                                  THEN b ELSE @]

\* moduleInit may fail, and is tried again on the next pass. moduleRun takes
\* at most one container. moduleExit drains the ring of an INPUT module and
\* primes it again when "autoRestart" is set.
ModuleSM(m) ==
  \/ /\ status[m] = "RUNNING" /\ flag[m]
     /\ pending' \in {pending, pending \ {m}}
     /\ UNCHANGED <<attr, flag, status>>
  \/ /\ status[m] = "STOPPED" /\ flag[m]
     /\ \E s \in {"STOPPED", "RUNNING"} :
          status' = [status EXCEPT ![m] = s]
     /\ UNCHANGED <<attr, flag, pending>>
  \/ /\ status[m] = "RUNNING" /\ ~flag[m]
     /\ status' = [status EXCEPT ![m] = "STOPPED"]
     /\ pending' = pending \ {m}
     /\ IF m \in AutoRestart THEN PutModuleRunning(m, TRUE)
                             ELSE UNCHANGED <<attr, flag>>
  \/ /\ status[m] = "STOPPED" /\ ~flag[m]
     /\ UNCHANGED <<attr, flag, status, pending>>

Idle(m) == status[m] = "STOPPED" /\ ~flag[m]

RunModule(m) ==
  /\ pc \in Passes /\ m \in todo
  /\ m \notin dangling \/ Idle(m)
  /\ ModuleSM(m)
  /\ todo' = todo \ {m}
  /\ UNCHANGED <<pc, execution, sleepCount, flagVars, handler, nodeVars,
                 live, registered, overridden, leftVars>>

EndPass ==
  /\ pc \in Passes /\ todo = {}
  /\ IF pc = "lastPass" THEN pc' = "destroy" /\ todo' = execution
                        ELSE pc' = "loop" /\ todo' = {}
  /\ UNCHANGED <<execution, sleepCount, flagVars, handler, nodeVars,
                 moduleVars>>

-----------------------------------------------------------------------------
(* The inner loop, the shutdown of the modules, their destruction.         *)

\* dataAvailable > 0; the counter itself is modelled in InputCommon.
DataAvailable == pending # {}

\* Mutant: no pass unless data is available.
LoopPassOnData ==
  /\ pc = "loop" /\ running
  /\ DataAvailable
  /\ sleepCount' = 0
  /\ pc' = "loopPass" /\ todo' = execution
  /\ UNCHANGED <<execution, flagVars, handler, nodeVars, moduleVars>>

LoopPass ==
  /\ pc = "loop" /\ running
  /\ DataAvailable \/ sleepCount > MaxSleep
  /\ sleepCount' = 0
  /\ pc' = "loopPass" /\ todo' = execution
  /\ UNCHANGED <<execution, flagVars, handler, nodeVars, moduleVars>>

LoopSleep ==
  /\ pc = "loop" /\ running
  /\ ~DataAvailable /\ sleepCount <= MaxSleep
  /\ sleepCount' = sleepCount + 1
  /\ UNCHANGED <<pc, todo, execution, flagVars, handler, nodeVars,
                 moduleVars>>

LoopExit ==
  /\ pc = "loop" /\ ~running
  /\ pc' = "stopping" /\ todo' = execution
  /\ UNCHANGED <<execution, sleepCount, flagVars, handler, nodeVars,
                 moduleVars>>

\* Mutant: only RUNNING modules are told to stop; one whose moduleInit has
\* failed so far may succeed in the last pass.
StopRunningModule(m) ==
  /\ pc = "stopping" /\ m \in todo \ dangling
  /\ IF status[m] = "RUNNING" THEN PutModuleRunning(m, FALSE)
                             ELSE UNCHANGED <<attr, flag>>
  /\ todo' = todo \ {m}
  /\ UNCHANGED <<pc, execution, sleepCount, flagVars, handler, nodeVars,
                 live, registered, status, pending, overridden, leftVars>>

StopModule(m) ==
  /\ pc = "stopping" /\ m \in todo \ dangling
  /\ PutModuleRunning(m, FALSE)
  /\ todo' = todo \ {m}
  /\ UNCHANGED <<pc, execution, sleepCount, flagVars, handler, nodeVars,
                 live, registered, status, pending, overridden, leftVars>>

BeginLastPass ==
  /\ pc = "stopping" /\ todo = {}
  /\ pc' = "lastPass" /\ todo' = execution
  /\ UNCHANGED <<execution, sleepCount, flagVars, handler, nodeVars,
                 moduleVars>>

\* Mutant: the data is freed and the listener stays registered.
DestroyKeepsListener(m) ==
  /\ pc = "destroy" /\ m \in todo \ dangling /\ status[m] = "STOPPED"
  /\ live' = live \ {m}
  /\ todo' = todo \ {m}
  /\ UNCHANGED <<pc, execution, sleepCount, flagVars, handler, nodeVars,
                 attr, registered, flag, status, pending, overridden, leftVars>>

\* caerModuleDestroy: remove the listeners, free the data.
DestroyModule(m) ==
  /\ pc = "destroy" /\ m \in todo \ dangling /\ status[m] = "STOPPED"
  /\ registered' = registered \ {m}
  /\ live' = live \ {m}
  /\ todo' = todo \ {m}
  /\ UNCHANGED <<pc, execution, sleepCount, flagVars, handler, nodeVars,
                 attr, flag, status, pending, overridden, leftVars>>

EndRun ==
  /\ pc = "destroy" /\ todo = {}
  /\ execution' = {} /\ dangling' = {}
  /\ pc' = "outer"
  /\ UNCHANGED <<todo, sleepCount, flagVars, handler, node, moduleVars>>

-----------------------------------------------------------------------------
(* Steps whose outcome C leaves undefined.                                 *)

\* The module whose node the mainloop thread is about to use.
UsesNode(m) ==
  /\ m \in todo
  /\ \/ pc \in {"build", "init", "stopping", "destroy"}
     \/ pc \in Passes /\ ~Idle(m)

UseRemovedNode ==
  /\ \E m \in dangling : UsesNode(m)
  /\ pc' = "undefined"
  /\ UNCHANGED <<todo, execution, sleepCount, flagVars, handler, nodeVars,
                 moduleVars>>

\* The module's threads go on with freed data and an unloaded library.
DestroyRunningModule(m) ==
  /\ pc = "destroy" /\ m \in todo \ dangling /\ status[m] = "RUNNING"
  /\ pc' = "undefined"
  /\ UNCHANGED <<todo, execution, sleepCount, flagVars, handler, nodeVars,
                 moduleVars>>

-----------------------------------------------------------------------------
(* The signal handler, which may interrupt any thread.                     *)

SignalFirstStore ==
  /\ "signal" \in Environment
  /\ handler \in {"idle", "done"} /\ pc \notin {"exited", "undefined"}
  /\ handler' = "entered"
  /\ systemRunning' = FALSE
  /\ UNCHANGED <<mainVars, running, systemAttr, runAttr, listening,
                 nodeVars, moduleVars>>

SignalSecondStore ==
  /\ handler = "entered"
  /\ handler' = "done"
  /\ running' = FALSE
  /\ UNCHANGED <<mainVars, systemRunning, systemAttr, runAttr, listening,
                 nodeVars, moduleVars>>

-----------------------------------------------------------------------------
(* The threads of RUNNING modules.                                         *)

OwnThreads(m) ==
  m \in live \ dangling /\ status[m] = "RUNNING" /\ pc # "undefined"

Publish(m) ==
  /\ m \in Inputs /\ OwnThreads(m)
  /\ pending' = pending \cup {m}
  /\ UNCHANGED <<mainVars, flagVars, handler, nodeVars, attr, live,
                 registered, flag, status, overridden, leftVars>>

\* End of file, an error, a device that was unplugged, a closed window.
StopsItself(m) ==
  /\ OwnThreads(m)
  /\ PutModuleRunning(m, FALSE)
  /\ UNCHANGED <<mainVars, flagVars, handler, nodeVars, live, registered,
                 status, pending, overridden, leftVars>>

-----------------------------------------------------------------------------
(* Client requests, one at a time on the configuration server's thread.    *)

ServerUp == pc \notin {"exited", "undefined"}

\* Any change of "/caer/running" shuts the system down.
PutSystemRunning(b) ==
  /\ "shutdown" \in Environment /\ ServerUp /\ pc # "start"
  /\ systemAttr' = b
  /\ IF systemAttr # b /\ "system" \in listening
     THEN systemRunning' = FALSE /\ running' = FALSE
     ELSE UNCHANGED <<systemRunning, running>>
  /\ UNCHANGED <<mainVars, runAttr, listening, handler, nodeVars,
                 moduleVars>>

PutRunning(b) ==
  /\ (IF b THEN "start" ELSE "stop") \in Environment /\ ServerUp
  /\ pc \notin {"start", "listenSystem", "storeRunning"}
  /\ runAttr' = b
  /\ running' = IF runAttr # b /\ "running" \in listening THEN b ELSE running
  /\ UNCHANGED <<mainVars, systemRunning, systemAttr, listening, handler,
                 nodeVars, moduleVars>>

\* A put that no listener sees, or that revives a module of an execution
\* which has already put its "running" to FALSE, is noted in overridden.
Revives(m) ==
  \/ pc = "stopping" /\ m \notin todo
  \/ pc = "lastPass" /\ m \in todo

ClientPutModuleRunning(m, b) ==
  /\ (IF b THEN "moduleStart" ELSE "moduleStop") \in Environment /\ ServerUp
  /\ node[m] = "created"
  /\ PutModuleRunning(m, b)
  /\ overridden' = IF attr[m] # b /\ m \in live
                      /\ (m \notin registered \/ (b /\ Revives(m)))
                   THEN overridden \cup {m} ELSE overridden
  /\ UNCHANGED <<mainVars, flagVars, handler, nodeVars, live, registered,
                 status, pending, leftVars>>

AddModule(m) ==
  /\ "add" \in Environment /\ ServerUp
  /\ node[m] = "absent"
  /\ node' = [node EXCEPT ![m] = "added"]
  /\ UNCHANGED <<mainVars, flagVars, handler, dangling, moduleVars>>

\* sshsNodeRemoveNode also drops every listener of the node, those that a
\* failed start left there included.
RemoveModule(m) ==
  /\ "remove" \in Environment /\ ServerUp
  /\ pc \notin {"start", "listenSystem", "storeRunning"}
  /\ node[m] # "absent"
  /\ ~runAttr
  /\ node' = [node EXCEPT ![m] = "absent"]
  /\ dangling' = dangling \cup ({m} \cap execution)
  /\ registered' = registered \ {m} /\ orphans' = orphans \ {m}
  /\ UNCHANGED <<mainVars, flagVars, handler, attr, live, flag, status,
                 pending, overridden, leaked>>

-----------------------------------------------------------------------------
MainThread ==
  \/ StartSystem \/ ListenSystem \/ StoreRunning \/ ListenRunning
  \/ EnterRun \/ LeaveOuter \/ UpdateInformation \/ FailRun
  \/ CollectModules \/ BuildConnectivity \/ InitializeFails
  \/ BeginFirstPass \/ EndPass
  \/ LoopPass \/ LoopSleep \/ LoopExit \/ BeginLastPass \/ EndRun
  \/ UseRemovedNode
  \/ \E m \in Modules :
       \/ InitializeModule(m) \/ AddShutdownListener(m) \/ RunModule(m)
       \/ StopModule(m) \/ DestroyModule(m) \/ DestroyRunningModule(m)

OtherThreads ==
  \/ SignalFirstStore \/ SignalSecondStore
  \/ \E b \in BOOLEAN : PutSystemRunning(b) \/ PutRunning(b)
  \/ \E m \in Modules :
       \/ Publish(m) \/ StopsItself(m) \/ AddModule(m) \/ RemoveModule(m)
       \/ \E b \in BOOLEAN : ClientPutModuleRunning(m, b)

Next == MainThread \/ OtherThreads

\* The operating system schedules the mainloop thread, and lets a signal
\* handler it entered finish. Clients, modules and signals owe nothing.
Fairness == WF_vars(MainThread) /\ WF_vars(SignalSecondStore)

Spec == Init /\ [][Next]_vars
FairSpec == Spec /\ Fairness

-----------------------------------------------------------------------------
(* Safety                                                                  *)

\* Every listener belongs to data that is still allocated, for modules that
\* are removed, for starts that fail and for the starts that follow them.
\* A start that succeeded leaves neither data nor listener of its modules
\* behind when the mainloop is back in caerMainloopRun, and no module of a
\* start has data before caerModuleInitialize gave it some. What a start
\* that failed while it initialised the modules (1957, 1972) leaves behind
\* is the exception: the data stays allocated, and the listeners, unless the
\* node is removed, stay registered with it.
ListenersPointToLiveData ==
  /\ registered \subseteq live /\ orphans \subseteq leaked
  /\ live \subseteq execution
  /\ pc \in {"outer", "update", "collect", "build", "fail", "exited"}
       => live = {}

\* When the modules are destroyed every one of them has been stopped, except
\* for a module whose "running" a client changed before its listener was
\* added, or set to TRUE after the shutdown had put it to FALSE: these are
\* the only two ways to free the data of a RUNNING module.
StopReachesModules ==
  \A m \in live \ overridden :
    pc = "destroy" \/ (pc = "lastPass" /\ m \notin todo)
      => status[m] = "STOPPED"

-----------------------------------------------------------------------------
(* Liveness                                                                *)

\* Once both flags are FALSE for good, the mainloop stops and destroys its
\* modules and leaves caerMainloopRun, or runs into undefined behaviour.
ShutdownCompletes ==
  <>[](~systemRunning /\ ~running) => <>(pc \in {"exited", "undefined"})

\* A module whose flag stays FALSE is stopped within the mainloop's next
\* pass, which comes even when no module publishes data.
StoppedModuleStops ==
  \A m \in Modules :
    <>[](m \in execution /\ ~flag[m] /\ pc # "undefined")
      => <>[](status[m] = "STOPPED")
=============================================================================
