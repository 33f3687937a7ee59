----------------------------- MODULE ConfigTree -----------------------------
(***************************************************************************)
(* The configuration tree (ext/sshs/), as the configuration file, the      *)
(* configuration server and the mainloop use it.                           *)
(*                                                                         *)
(* A program run loads the file into the tree: what it holds is loose      *)
(* (any range, not exported) until the mainloop and the modules create it  *)
(* again with its range and flags. At exit the tree is written back; only  *)
(* what is exported gets into the file, and the next run loads that.       *)
(*                                                                         *)
(* Actors: the main thread (main, caerMainloopRun and the modules it       *)
(* starts and stops), the server's thread, which handles one request after *)
(* another, and the user, who may kill the program.                        *)
(*                                                                         *)
(* One call of the tree holds the lock of one node and is one step. Locks  *)
(* held over several steps are variables: modulePathsMutex, the lock of    *)
(* /caer/modules/ while its listeners run, and the lock of sourceInfo/     *)
(* while its attributes are listed. What main's threads still do while     *)
(* another writes the file is left out, as is the mainloop in its inner    *)
(* loop (Mainloop) and what modules do with settings (Processor, Device).  *)
(***************************************************************************)
EXTENDS Integers, FiniteSets

CONSTANTS
  Names,       \* of modules: children of the root node
  Libraries,   \* module libraries that may be found on disk
  Files,       \* configuration files to begin with
  EarlyConfig, \* modules that create their setting in moduleConfigInit, the
               \* others do so in Init
  Requests,    \* kinds of requests clients make
  MaxRequests, \* bound on them
  MaxRuns    \* bound on program runs

None == -1
Keys == {"moduleId", "moduleLibrary", "moduleInput", "setting"}

\* A setting is 0 or 1, 0 by default. A loose one may also be 2.
InRange == {0, 1}
Loose == InRange \cup {2}
Default == 0

RequestKinds == {"get", "keys", "put", "add", "remove", "update", "run"}

\* A file holds values of attributes, None for those it has not.
IsFile(f) ==
  /\ DOMAIN f \subseteq Names
  /\ \A m \in DOMAIN f :
       /\ DOMAIN f[m] = Keys
       /\ f[m]["moduleId"] \in {None} \cup 1 .. Cardinality(Names) + 1
       /\ f[m]["moduleLibrary"] \in {None} \cup Libraries
       /\ f[m]["moduleInput"] \in {None, 0}
       /\ f[m]["setting"] \in {None} \cup Loose

ASSUME ConfigTreeAssumption ==
  /\ Libraries \subseteq Nat /\ IsFiniteSet(Names)
  /\ \A f \in Files : IsFile(f)
  /\ EarlyConfig \subseteq Names /\ Requests \subseteq RequestKinds
  /\ MaxRequests \in Nat /\ MaxRuns \in Nat

VARIABLES
  mainPc,        \* where the main thread is, or the program
  left,          \* modules the present phase has not handled yet
  modules,       \* glMainloopData.modules
  systemRunning, \* glMainloopData.systemRunning
  loopRuns,      \* glMainloopData.running
  runningPut,    \* attribute "running" of /
  attributes,    \* module nodes: their attributes' values
  exported,      \* module nodes: their attributes without NO_EXPORT
  sourceInfo,    \* modules whose node sourceInfo/ has attributes
  listed,        \* modules whose node sourceInfo/ is locked for a listing
  modulePaths,   \* glModuleData.modulePaths
  listOptions,   \* modulesListOptions of /caer/modules/
  described,     \* libraries whose node under /caer/modules/ is filled
  pathsMutex,    \* holder of glModuleData.modulePathsMutex
  modulesLock,   \* holder of the lock of /caer/modules/
  updating,      \* per thread: where in caerUpdateModulesInformation
  request,       \* the request the server handles
  file,          \* the configuration file
  configured,    \* history: modules whose setting was created in this run
  last,          \* history: the setting as last put, loaded or reset
  promised,      \* history: what the next run has to find
  asked, starts  \* bounded counters

Threads == {"main", "server"}

flags       == <<systemRunning, loopRuns, runningPut>>
mainVars    == <<mainPc, left, modules, flags>>
nodeVars    == <<attributes, exported, sourceInfo, listed>>
updateVars  == <<modulePaths, listOptions, described, pathsMutex, updating>>
promiseVars == <<configured, last, promised>>
configVars == <<mainVars, nodeVars, updateVars, modulesLock, request, file,
                promiseVars, asked, starts>>

Nodes == DOMAIN attributes
Has(m, key) == m \in Nodes /\ attributes[m][key] # None
NoRequest == [kind |-> "none"]
NoValues == [m \in Names |-> None]

ConfigTypeOK ==
  /\ mainPc \in {"off", "log", "serve", "outer", "update", "collect", "load",
                 "connect", "initialize", "running", "join", "exit",
                 "truncated", "undefined"}
  /\ left \subseteq Names /\ modules \subseteq Names
  /\ {systemRunning, loopRuns, runningPut} \subseteq BOOLEAN
  /\ IsFile(attributes) /\ DOMAIN exported = Nodes
  /\ \A m \in Nodes : exported[m] \subseteq Keys
  /\ sourceInfo \subseteq Names /\ listed \subseteq Names
  /\ modulePaths \subseteq Libraries /\ listOptions \subseteq Libraries
  /\ described \subseteq Libraries
  /\ pathsMutex \in {"none"} \cup Threads
  /\ modulesLock \in {"none", "server"}
  /\ updating \in [Threads -> {"no", "lock", "clear", "search", "list",
                               "describe", "failed"}]
  /\ request.kind \in {"none"} \cup Requests /\ IsFile(file)
  /\ configured \subseteq Names
  /\ last \in [Names -> {None} \cup Loose]
  /\ promised \in [Names -> {None} \cup Loose]
  /\ asked \in 0 .. MaxRequests /\ starts \in 0 .. MaxRuns

ConfigInit ==
  /\ mainPc = "off" /\ left = {} /\ modules = {}
  /\ systemRunning = FALSE /\ loopRuns = FALSE /\ runningPut = FALSE
  /\ attributes = [m \in {} |-> 0] /\ exported = [m \in {} |-> {}]
  /\ sourceInfo = {} /\ listed = {}
  /\ modulePaths = {} /\ listOptions = {} /\ described = {}
  /\ pathsMutex = "none" /\ modulesLock = "none"
  /\ updating = [t \in Threads |-> "no"]
  /\ request = NoRequest /\ file \in Files
  /\ configured = {} /\ last = NoValues /\ promised = NoValues
  /\ asked = 0 /\ starts = 0
-----------------------------------------------------------------------------
(* Operations of the tree.                                                 *)

\* sshsNodeCreateAttribute: a value that is present and within the range
\* stays, any other becomes the default.
Create(values, key, default, range) ==
  [values EXCEPT ![key] = IF @ \in range THEN @ ELSE default]

\* Mutant: the flags are those of the first creation.
ExportNew(m, keys) == [exported EXCEPT
                         ![m] = @ \cup {k \in keys : ~Has(m, k)}]

\* The range and the flags are those of the last creation in any case.
Export(m, keys) == [exported EXCEPT ![m] = @ \cup keys]

\* The module creates its setting, in moduleConfigInit or in Init.
CreateSetting(m) ==
  /\ attributes' = [attributes EXCEPT
        ![m] = Create(@, "setting", Default, InRange)]
  /\ exported' = Export(m, {"setting"})
  /\ configured' = configured \cup {m}
  /\ last' = [last EXCEPT ![m] = IF @ \in InRange THEN @ ELSE Default]

\* What sshsNodeGenerateXML writes. Nodes without attributes are left out.
Exported ==
  [m \in {n \in Nodes : \E k \in exported[n] : Has(n, k)} |->
     [k \in Keys |-> IF k \in exported[m] THEN attributes[m][k] ELSE None]]
-----------------------------------------------------------------------------
(* The program: start, exit, death.                                        *)

\* caerConfigInit: sshsNodeImportSubTreeFromXML into an empty tree.
LoadFile ==
  /\ mainPc = "off" /\ starts < MaxRuns
  /\ starts' = starts + 1
  /\ mainPc' = "log"
  /\ attributes' = file /\ exported' = [m \in DOMAIN file |-> {}]
  /\ last' = [m \in Names |-> IF m \in DOMAIN file THEN file[m]["setting"]
                                                   ELSE None]
  /\ configured' = {}
  /\ UNCHANGED <<left, modules, flags, sourceInfo, listed,
                 updateVars, modulesLock, request, file, promised, asked>>

\* caerLogInit and caerConfigServerStart end the program when they cannot
\* open the log file or start the thread.
StartUp ==
  /\ mainPc \in {"log", "serve"}
  /\ \/ mainPc = "log" /\ mainPc' = "serve" /\ UNCHANGED flags
     \/ /\ mainPc = "serve" /\ mainPc' = "outer"
        /\ systemRunning' = TRUE /\ loopRuns' = TRUE /\ runningPut' = TRUE
     \/ mainPc' = "exit" /\ UNCHANGED flags
  /\ UNCHANGED <<left, modules, nodeVars, updateVars, modulesLock, request,
                 file, promiseVars, asked, starts>>

\* exit() runs caerConfigWriteBack: open with O_TRUNC, then write.
TruncateFile ==
  /\ mainPc = "exit" /\ mainPc' = "truncated"
  /\ file' = [m \in {} |-> 0]
  /\ UNCHANGED <<left, modules, flags, nodeVars, updateVars,
                 modulesLock, request, promiseVars, asked, starts>>

\* The memory of a process that has ended.
ProcessGone ==
  /\ mainPc' = "off" /\ left' = {} /\ modules' = {}
  /\ systemRunning' = FALSE /\ loopRuns' = FALSE /\ runningPut' = FALSE
  /\ attributes' = [m \in {} |-> 0] /\ exported' = [m \in {} |-> {}]
  /\ sourceInfo' = {} /\ listed' = {}
  /\ modulePaths' = {} /\ listOptions' = {} /\ described' = {}
  /\ pathsMutex' = "none" /\ modulesLock' = "none"
  /\ updating' = [t \in Threads |-> "no"] /\ request' = NoRequest
  /\ configured' = {} /\ last' = NoValues
  /\ UNCHANGED <<asked, starts>>

WriteFile ==
  /\ mainPc = "truncated"
  /\ file' = Exported
  /\ promised' = [m \in Names |-> IF m \in configured \cap Nodes
                                  THEN last[m] ELSE None]
  /\ ProcessGone

\* Killed, by the user or by undefined behaviour: nothing is written.
Killed ==
  /\ mainPc # "off"
  /\ promised' = IF mainPc = "truncated" THEN NoValues ELSE promised
  /\ UNCHANGED file
  /\ ProcessGone
-----------------------------------------------------------------------------
(* caerUpdateModulesInformation, by either thread.                         *)

SetStep(t, step) == updating' = [updating EXCEPT ![t] = step]

MayUseModulesNode(t) == modulesLock \in {"none", t}

\* Mutant: it stays locked when no library was found.
HeldOnError(t, how) == IF how = "failed" THEN t ELSE "none"

\* Whoever leaves, by an exception too, unlocks modulePathsMutex.
HolderAfter(t, how) == "none"

UpdateLock(t) ==
  /\ updating[t] = "lock" /\ pathsMutex = "none"
  /\ pathsMutex' = t /\ SetStep(t, "clear")
  /\ UNCHANGED <<modulePaths, listOptions, described>>

UpdateClear(t) ==
  /\ updating[t] = "clear" /\ SetStep(t, "search")
  /\ described' = {} /\ modulePaths' = {}
  /\ UNCHANGED <<listOptions, pathsMutex>>

\* Reads modulesSearchPath of /caer/modules/. No library found is an error.
UpdateSearch(t) ==
  /\ updating[t] = "search" /\ MayUseModulesNode(t)
  /\ \E found \in SUBSET Libraries :
       /\ modulePaths' = found
       /\ SetStep(t, IF found = {} THEN "failed" ELSE "list")
       /\ pathsMutex' = IF found = {} THEN HolderAfter(t, "failed") ELSE t
  /\ UNCHANGED <<listOptions, described>>

UpdateList(t) ==
  /\ updating[t] = "list" /\ MayUseModulesNode(t)
  /\ SetStep(t, "describe")
  /\ listOptions' = modulePaths
  /\ UNCHANGED <<modulePaths, described, pathsMutex>>

\* Loads one library after another and fills its node.
UpdateDescribe(t) ==
  /\ updating[t] = "describe"
  /\ \/ /\ \E l \in modulePaths \ described : described' = described \cup {l}
        /\ UNCHANGED <<pathsMutex, updating>>
     \/ /\ modulePaths \subseteq described
        /\ pathsMutex' = HolderAfter(t, "no") /\ SetStep(t, "no")
        /\ UNCHANGED described
  /\ UNCHANGED <<modulePaths, listOptions>>

UpdateStep(t) ==
  /\ mainPc \notin {"off", "exit", "truncated", "undefined"}
  /\ \/ UpdateLock(t) \/ UpdateClear(t) \/ UpdateSearch(t) \/ UpdateList(t)
     \/ UpdateDescribe(t)
  /\ UNCHANGED <<mainVars, nodeVars, modulesLock, request, file, promiseVars,
                 asked, starts>>
-----------------------------------------------------------------------------
(* The main thread.                                                        *)

\* caerMainloopRun. With "running" FALSE it looks again a second later.
OuterLoop ==
  /\ mainPc = "outer"
  /\ \/ /\ ~systemRunning /\ mainPc' = "join"
        /\ UNCHANGED updating
     \/ /\ systemRunning /\ loopRuns /\ mainPc' = "update"
        /\ SetStep("main", "lock")
  /\ UNCHANGED <<left, modules, flags, nodeVars, modulePaths,
                 listOptions, described, pathsMutex, modulesLock, request,
                 file, promiseVars, asked, starts>>

\* A start that fails puts "running" to FALSE; cleanupGlobals.
FailStart ==
  /\ mainPc' = "outer" /\ modules' = {} /\ left' = {}
  /\ loopRuns' = FALSE /\ runningPut' = FALSE

UpdateDone ==
  /\ mainPc = "update" /\ updating["main"] \in {"no", "failed"}
  /\ \/ updating["main"] = "failed" /\ FailStart
     \/ /\ updating["main"] = "no" /\ mainPc' = "collect" /\ left' = Nodes
        /\ UNCHANGED <<modules, loopRuns, runningPut>>
  /\ SetStep("main", "no")
  /\ UNCHANGED <<systemRunning, nodeVars, modulePaths, listOptions, described,
                 pathsMutex, modulesLock, request, file, promiseVars, asked,
                 starts>>

\* A module has an ID and a library, or is skipped, as is one whose ID is
\* taken. Both are created again with their flags.
CollectModule(m) ==
  /\ mainPc = "collect" /\ m \in left
  /\ left' = left \ {m}
  /\ IF Has(m, "moduleId") /\ Has(m, "moduleLibrary")
     THEN /\ exported' = Export(m, {"moduleId", "moduleLibrary"})
          /\ modules' = IF \E n \in modules : attributes[n]["moduleId"]
                                              = attributes[m]["moduleId"]
                        THEN modules ELSE modules \cup {m}
     ELSE UNCHANGED <<exported, modules>>
  /\ UNCHANGED <<mainPc, flags, attributes, sourceInfo, listed,
                 updateVars, modulesLock, request, file, promiseVars, asked,
                 starts>>

\* caerLoadModuleLibrary and checkModuleInputOutput, of all modules.
LoadLibraries ==
  /\ \/ mainPc = "collect" /\ left = {} /\ modules = {} /\ FailStart
     \/ /\ mainPc = "collect" /\ left = {} /\ modules # {}
        /\ mainPc' = "load" /\ UNCHANGED <<modules, loopRuns, runningPut, left>>
     \/ /\ mainPc = "load" /\ pathsMutex = "none"
        /\ IF \A m \in modules : /\ attributes[m]["moduleLibrary"] \in modulePaths
                                 /\ Has(m, "moduleInput")
           THEN /\ mainPc' = "connect" /\ left' = modules
                /\ UNCHANGED <<modules, loopRuns, runningPut>>
           ELSE FailStart
  /\ UNCHANGED <<systemRunning, nodeVars, updateVars, modulesLock, request,
                 file, promiseVars, asked, starts>>

\* moduleInput is created again and understood, or the start fails.
Connect(m) ==
  /\ mainPc = "connect" /\ m \in left
  /\ exported' = Export(m, {"moduleInput"})
  /\ \/ /\ left' = left \ {m}
        /\ UNCHANGED <<mainPc, modules, loopRuns, runningPut>>
     \/ FailStart
  /\ UNCHANGED <<systemRunning, attributes, sourceInfo, listed, updateVars,
                 modulesLock, request, file, promiseVars, asked, starts>>

Connected ==
  /\ mainPc = "connect" /\ left = {}
  /\ mainPc' = "initialize" /\ left' = modules
  /\ UNCHANGED <<modules, flags, nodeVars, updateVars,
                 modulesLock, request, file, promiseVars, asked, starts>>

\* caerModuleInitialize and caerModuleConfigInit.
InitializeModule(m) ==
  /\ mainPc = "initialize" /\ m \in left /\ pathsMutex = "none"
  /\ left' = left \ {m}
  /\ IF m \in EarlyConfig /\ attributes[m]["moduleLibrary"] \in modulePaths
     THEN CreateSetting(m)
     ELSE UNCHANGED <<attributes, exported, configured, last>>
  /\ UNCHANGED <<mainPc, modules, flags, sourceInfo, listed,
                 updateVars, modulesLock, request, file, promised, asked,
                 starts>>

BeginRunning ==
  /\ mainPc = "initialize" /\ left = {} /\ mainPc' = "running"
  /\ UNCHANGED <<left, modules, flags, nodeVars, updateVars,
                 modulesLock, request, file, promiseVars, asked, starts>>

\* A module's Init creates what it has not yet, and fills sourceInfo/.
StartModule(m) ==
  /\ mainPc = "running" /\ loopRuns
  /\ m \in modules \ sourceInfo /\ m \notin listed
  /\ sourceInfo' = sourceInfo \cup {m}
  /\ CreateSetting(m)
  /\ UNCHANGED <<mainVars, listed, updateVars, modulesLock, request, file,
                 promised, asked, starts>>

\* Its Exit empties sourceInfo/ again.
StopModule(m) ==
  /\ mainPc = "running" /\ m \in sourceInfo /\ m \notin listed
  /\ sourceInfo' = sourceInfo \ {m}
  /\ UNCHANGED <<mainVars, attributes, exported, listed, updateVars,
                 modulesLock, request, file, promiseVars, asked, starts>>

\* The inner loop ends, all modules are stopped.
EndRunning ==
  /\ mainPc = "running" /\ ~loopRuns /\ sourceInfo = {}
  /\ mainPc' = "outer" /\ modules' = {}
  /\ UNCHANGED <<left, flags, nodeVars, updateVars,
                 modulesLock, request, file, promiseVars, asked, starts>>

\* caerConfigServerStop waits for the request in progress.
JoinServer ==
  /\ mainPc = "join" /\ request = NoRequest
  /\ mainPc' = "exit"
  /\ UNCHANGED <<left, modules, flags, nodeVars, updateVars,
                 modulesLock, request, file, promiseVars, asked, starts>>

Main ==
  \/ StartUp \/ TruncateFile \/ WriteFile \/ UpdateStep("main") \/ OuterLoop
  \/ UpdateDone \/ LoadLibraries \/ Connected \/ BeginRunning \/ EndRunning
  \/ JoinServer
  \/ \E m \in Names : CollectModule(m) \/ Connect(m) \/ InitializeModule(m)
-----------------------------------------------------------------------------
(* The server's thread: caerConfigServerHandleRequest.                     *)

Serving == mainPc \notin {"off", "log", "serve", "exit", "truncated", "undefined"}

\* A client asks. "at" says how far the request has got.
Ask ==
  /\ Serving /\ mainPc # "join" /\ request = NoRequest
  /\ asked < MaxRequests /\ asked' = asked + 1
  /\ \E kind \in Requests, m \in Names :
       \E v \in IF kind = "put" THEN Loose
                ELSE IF kind = "add" THEN Libraries ELSE {0} :
         request' = [kind |-> kind, name |-> m, value |-> v, at |-> "check"]
  /\ UNCHANGED <<mainVars, nodeVars, updateVars, modulesLock, file,
                 promiseVars, starts>>

Answer == request' = NoRequest
GoOn(step) == request' = [request EXCEPT !.at = step]
Handles(kind, step) == Serving /\ request.kind = kind /\ request.at = step

\* GET of an attribute of sourceInfo/: first whether it exists, then its
\* value, or RANGES, FLAGS, DESCRIPTION. Gone by then, the program ends.
Get ==
  LET m == request.name
  IN \/ /\ Handles("get", "check")
        /\ IF m \in sourceInfo THEN GoOn("use") ELSE Answer
        /\ UNCHANGED <<mainPc, listed>>
     \/ /\ Handles("get", "use")
        /\ mainPc' = IF m \in sourceInfo THEN mainPc ELSE "exit"
        /\ Answer /\ UNCHANGED listed

\* sshsNodeGetAttributeKeys locks the node, collects and unlocks it; the
\* server then copies the keys, which belong to the attributes.
GetAttributes ==
  LET m == request.name
  IN \/ /\ Handles("keys", "check")
        /\ listed' = listed \cup {m} /\ GoOn("listed")
        /\ UNCHANGED mainPc
     \/ /\ Handles("keys", "listed")
        /\ listed' = listed \ {m}
        /\ IF m \in sourceInfo THEN GoOn("copy") ELSE Answer
        /\ UNCHANGED mainPc
     \/ /\ Handles("keys", "copy")
        /\ mainPc' = IF m \in sourceInfo THEN mainPc ELSE "undefined"
        /\ Answer /\ UNCHANGED listed

Read ==
  /\ Get \/ GetAttributes
  /\ UNCHANGED <<left, modules, flags, attributes, exported,
                 sourceInfo, updateVars, modulesLock, file, promiseVars, asked,
                 starts>>

\* PUT of the setting. One that was not created again takes any value.
Put ==
  LET m == request.name
      v == request.value
  IN /\ Handles("put", "check")
     /\ IF Has(m, "setting") /\ ("setting" \in exported[m] => v \in InRange)
        THEN /\ attributes' = [attributes EXCEPT ![m]["setting"] = v]
             /\ last' = [last EXCEPT ![m] = v]
        ELSE UNCHANGED <<attributes, last>>
     /\ Answer
     /\ UNCHANGED <<mainVars, exported, sourceInfo, listed, updateVars,
                    modulesLock, file, configured, promised, asked, starts>>

UsedIds == {attributes[n]["moduleId"] : n \in {o \in Nodes : Has(o, "moduleId")}}

NextFreeId ==
  CHOOSE i \in 1 .. Cardinality(UsedIds) + 1 :
    i \notin UsedIds /\ 1 .. i - 1 \subseteq UsedIds

\* ADD_MODULE, its checks.
AddCheck ==
  /\ Handles("add", "check") /\ MayUseModulesNode("server")
  /\ IF request.name \notin Nodes /\ request.value \in listOptions
     THEN GoOn("id") ELSE Answer
  /\ UNCHANGED <<mainPc, attributes, exported, configured, last>>

\* The node with the next free ID.
AddId ==
  LET m == request.name
  IN /\ Handles("add", "id") /\ GoOn("library")
     /\ attributes' = [n \in Nodes \cup {m} |->
           IF n # m THEN attributes[n]
           ELSE [k \in Keys |-> IF k = "moduleId" THEN NextFreeId ELSE None]]
     /\ exported' = [n \in Nodes \cup {m} |->
                       IF n # m THEN exported[n] ELSE {"moduleId"}]
     /\ last' = [last EXCEPT ![m] = None]
     /\ UNCHANGED <<mainPc, configured>>

AddLibrary ==
  LET m == request.name
  IN /\ Handles("add", "library") /\ GoOn("type")
     /\ attributes' = [attributes EXCEPT ![m]["moduleLibrary"] = request.value]
     /\ exported' = Export(m, {"moduleLibrary"})
     /\ UNCHANGED <<mainPc, configured, last>>

\* The library's node under /caer/modules/ tells what the module needs. The
\* program ends if the node has just been cleared.
AddInput ==
  LET m == request.name
  IN /\ Handles("add", "type")
     /\ IF request.value \in described
        THEN /\ attributes' = [attributes EXCEPT
                  ![m] = Create(@, "moduleInput", 0, {0})]
             /\ exported' = Export(m, {"moduleInput"})
             /\ GoOn("config") /\ UNCHANGED mainPc
        ELSE mainPc' = "exit" /\ Answer /\ UNCHANGED <<attributes, exported>>
     /\ UNCHANGED <<configured, last>>

\* caerModuleConfigInit.
AddConfig ==
  LET m == request.name
  IN /\ Handles("add", "config") /\ pathsMutex = "none" /\ Answer
     /\ IF m \in EarlyConfig /\ request.value \in modulePaths
        THEN CreateSetting(m)
        ELSE UNCHANGED <<attributes, exported, configured, last>>
     /\ UNCHANGED mainPc

Add ==
  /\ AddCheck \/ AddId \/ AddLibrary \/ AddInput \/ AddConfig
  /\ UNCHANGED <<left, modules, flags, sourceInfo, listed,
                 updateVars, modulesLock, file, promised, asked, starts>>

\* REMOVE_MODULE, refused while "running" of / is TRUE. The mainloop
\* may still use the node when it is FALSE already.
Remove ==
  LET m == request.name
  IN /\ Handles("remove", "check") /\ Answer
     /\ IF m \in Nodes /\ ~runningPut
        THEN /\ attributes' = [n \in Nodes \ {m} |-> attributes[n]]
             /\ exported' = [n \in Nodes \ {m} |-> exported[n]]
             /\ last' = [last EXCEPT ![m] = None]
             /\ configured' = configured \ {m}
             /\ mainPc' = IF m \in modules \cup left THEN "undefined" ELSE mainPc
        ELSE UNCHANGED <<attributes, exported, configured, last, mainPc>>
     /\ UNCHANGED <<left, modules, flags, sourceInfo, listed,
                    updateVars, modulesLock, file, promised, asked, starts>>

\* PUT of updateModulesInformation: the listener runs with the node locked.
Update ==
  /\ \/ /\ Handles("update", "check") /\ GoOn("listener")
        /\ modulesLock' = "server" /\ SetStep("server", "lock")
     \/ /\ Handles("update", "listener")
        /\ updating["server"] \in {"no", "failed"}
        /\ modulesLock' = "none" /\ SetStep("server", "no") /\ Answer
  /\ UNCHANGED <<mainVars, nodeVars, modulePaths, listOptions, described,
                 pathsMutex, file, promiseVars, asked, starts>>

\* PUT of "running" of /, whose listener stores it.
PutRunning ==
  /\ Handles("run", "check") /\ Answer
  /\ loopRuns' = ~runningPut /\ runningPut' = ~runningPut
  /\ UNCHANGED <<mainPc, left, modules, systemRunning, nodeVars, updateVars,
                 modulesLock, file, promiseVars, asked, starts>>

\* A signal, or a PUT of "running" of /caer/.
Shutdown ==
  /\ Serving /\ systemRunning
  /\ systemRunning' = FALSE /\ loopRuns' = FALSE
  /\ UNCHANGED <<mainPc, left, modules, runningPut, nodeVars, updateVars,
                 modulesLock, request, file, promiseVars, asked, starts>>

Server ==
  \/ Read \/ Put \/ Add \/ Remove \/ Update \/ PutRunning
  \/ UpdateStep("server")

ConfigNext ==
  \/ LoadFile \/ Killed \/ Ask \/ Shutdown \/ Main \/ Server
  \/ \E m \in Names : StartModule(m) \/ StopModule(m)

\* Both threads go on, and modules that are told to stop do. Nobody has to
\* ask anything, and a module may stay as it is while the mainloop runs.
ConfigSpec ==
  /\ ConfigInit /\ [][ConfigNext]_configVars
  /\ WF_configVars(Main) /\ WF_configVars(Server)
  /\ \A m \in Names : WF_configVars(~loopRuns /\ StopModule(m))
-----------------------------------------------------------------------------
(* Properties.                                                             *)

\* A setting of a module that got to create it is in the file after exit, as
\* it was last put, and the next run loads it (config.cpp:101).
SettingsSurvive ==
  mainPc = "log" => \A m \in Names : promised[m] # None =>
    m \in Nodes /\ attributes[m]["setting"] = promised[m]

\* systemRunning was TRUE when the mainloop began to run; it is FALSE now.
ToldToEnd == Serving /\ ~systemRunning

\* The main thread holds modulePathsMutex and waits for /caer/modules/, whose
\* lock the server's thread holds while its listener waits for the mutex.
EachWaitsForTheOther ==
  /\ modulesLock = "server" /\ updating["server"] = "lock"
  /\ pathsMutex = "main" /\ updating["main"] \in {"search", "list"}

\* "Simply set all the running flags to false ... for global shutdown"
\* (mainloop.cpp:2208): no other request, however it races with the mainloop
\* and its modules, keeps the program from ending when asked to, except that
\* a client may start the mainloop again before it has looked.
OnlyUpdatesHang ==
  ToldToEnd ~> \/ mainPc \in {"off", "undefined"} \/ loopRuns
               \/ EachWaitsForTheOther
=============================================================================
