------------------------ MODULE SpikeGeneratorProofs -----------------------
(***************************************************************************)
(* What TLAPS proves about SpikeGenerator: how soon stimulation stops, and *)
(* that a bias that is put while nobody stimulates gets to its chip, for   *)
(* all chips, commands and durations, any number of puts and starts. The   *)
(* types come last.                                                        *)
(***************************************************************************)
EXTENDS SpikeGenerator, SequenceTheorems, TLAPS

\* The places where the thread addresses no chip, and looks at doStim before
\* it does.
Waiting == {"none", "loop", "stim", "ended"}

\* After the one late spike the thread is on its way back to doStim.
PromptInv ==
  /\ DOMAIN state = Fields
  /\ late \in {0, 1}
  /\ late = 1 => ~state["doStim"] /\ gen \in Waiting

LEMMA PromptInit == Init => PromptInv
BY DEF Init, PromptInv, Fields

\* One store of the listener, whoever puts what.
LEMMA StoreStep ==
  ASSUME PromptInv, NEW who, NEW stores, Store(who, stores), gen' = gen
  PROVE  PromptInv'
<1> DEFINE field == Head(stores)[1]
           value == Head(stores)[2]
<1>1. /\ state' = [state EXCEPT ![field] = value]
      /\ late' = IF field = "doStim" /\ value THEN 0 ELSE late
  BY DEF Store
<1>2. DOMAIN state' = Fields
  BY <1>1 DEF PromptInv
<1>3. late' \in {0, 1}
  BY <1>1 DEF PromptInv
<1>4. ASSUME late' = 1 PROVE ~state'["doStim"] /\ gen' \in Waiting
  <2>1. late = 1 /\ ~(field = "doStim" /\ value)
    BY <1>1, <1>4
  <2>2. ~state["doStim"] /\ gen \in Waiting BY <2>1 DEF PromptInv
  <2>3. "doStim" \in DOMAIN state BY DEF PromptInv, Fields, Keys, Switches
  <2>4. CASE field = "doStim"
    <3>1. state'["doStim"] = value BY <1>1, <2>3, <2>4
    <3> QED BY <2>1, <2>2, <2>4, <3>1
  <2>5. CASE field # "doStim"
    <3>1. state'["doStim"] = state["doStim"] BY <1>1, <2>3, <2>5
    <3> QED BY <2>2, <3>1
  <2> QED BY <2>4, <2>5
<1> QED BY <1>2, <1>3, <1>4 DEF PromptInv

LEMMA PutStep ==
  ASSUME PromptInv, NEW who, NEW k, NEW v, Put(who, k, v), gen' = gen
  PROVE  PromptInv'
<1>1. CASE Store(who, StoresOf(k, v))
  BY <1>1, StoreStep
<1>2. CASE UNCHANGED <<state, call, history>>
  BY <1>2 DEF history, PromptInv
<1> QED BY <1>1, <1>2 DEF Put

\* Steps that neither put nor send a spike.
LEMMA PromptQuietStep ==
  ASSUME PromptInv, UNCHANGED <<state, late>>,
         gen' = gen \/ gen' \in Waiting \/ gen \notin Waiting
  PROVE  PromptInv'
BY DEF PromptInv

LEMMA StartPromptStep == PromptInv /\ Start => PromptInv'
<1> SUFFICES ASSUME PromptInv, Start PROVE PromptInv'
  OBVIOUS
<1>1. CASE StartModule \/ LoadAttribute \/ StartData
  <2>1. UNCHANGED <<state, late, gen>>
    BY <1>1 DEF StartModule, LoadAttribute, StartData, nodeVars, history,
                genVars
  <2> QED BY <2>1, PromptQuietStep
<1>2. CASE StoreAttribute
  <2> DEFINE key == InitOrder[reading]
  <2>1. /\ state' = [state EXCEPT ![key] = loaded] /\ gen' = gen
        /\ late' = IF key = "doStim" /\ loaded THEN 0 ELSE late
    BY <1>2 DEF StoreAttribute, genVars
  <2> HIDE DEF key
  <2>3. DOMAIN state' = Fields /\ late' \in {0, 1}
    BY <2>1 DEF PromptInv
  <2>4. ASSUME late' = 1 PROVE ~state'["doStim"] /\ gen' \in Waiting
    <3>1. late = 1 /\ ~ (key = "doStim" /\ loaded)
      BY <2>1, <2>4
    <3>2. ~state["doStim"] /\ gen' \in Waiting
      BY <2>1, <3>1 DEF PromptInv
    <3>3. "doStim" \in DOMAIN state BY DEF PromptInv, Fields, Keys, Switches
    <3>4. CASE key = "doStim"
      <4>1. state'["doStim"] = loaded BY <2>1, <3>3, <3>4
      <4> QED BY <3>1, <3>2, <3>4, <4>1
    <3>5. CASE key # "doStim"
      <4>1. state'["doStim"] = state["doStim"] BY <2>1, <3>3, <3>5
      <4> QED BY <3>2, <4>1
    <3> QED BY <3>4, <3>5
  <2> QED BY <2>3, <2>4 DEF PromptInv
<1>3. CASE StoreStarted \/ StoreDone \/ StartThread
  <2>1. /\ DOMAIN state' = DOMAIN state /\ late' = late
        /\ state'["doStim"] = state["doStim"]
        /\ gen' = gen \/ gen' \in Waiting
    <3>1. "doStim" \in DOMAIN state
      BY DEF PromptInv, Fields, Keys, Switches
    <3>2. PICK f \in {"started", "done", "running"}, v \in BOOLEAN :
            state' = [state EXCEPT ![f] = v]
      BY <1>3 DEF StoreStarted, StoreDone, StartThread
    <3>3. late' = late /\ (gen' = gen \/ gen' \in Waiting)
      BY <1>3 DEF StoreStarted, StoreDone, StartThread, genVars, history,
                  Waiting
    <3> QED BY <3>1, <3>2, <3>3
  <2> QED BY <2>1 DEF PromptInv
<1> QED BY <1>1, <1>2, <1>3 DEF Start

LEMMA ExitPromptStep == PromptInv /\ Exit => PromptInv'
<1> SUFFICES ASSUME PromptInv, Exit PROVE PromptInv'
  OBVIOUS
<1>0. "doStim" \in Fields BY DEF Fields, Keys, Switches
<1>1. CASE ExitPut
  BY <1>1, PutStep DEF ExitPut, genVars
<1>2. CASE ExitListener
  BY <1>2, StoreStep DEF ExitListener, genVars
<1>3. CASE ExitRemove \/ ExitClose
  <2>1. UNCHANGED <<state, late, gen>>
    BY <1>3 DEF ExitRemove, ExitClose, nodeVars, history, genVars
  <2> QED BY <2>1, PromptQuietStep
<1>4. CASE ExitStim
  BY <1>0, <1>4 DEF ExitStim, genVars, history, PromptInv
<1>5. CASE ExitRunning
  BY <1>0, <1>5 DEF ExitRunning, genVars, history, PromptInv
<1>6. CASE ExitJoin
  <2>1. /\ gen' = gen /\ late' = late
        /\ \/ DOMAIN state' = Fields /\ state'["doStim"] = FALSE
           \/ state' = state
    BY <1>0, <1>6 DEF ExitJoin, genVars, history
  <2> QED BY <2>1 DEF PromptInv
<1> QED BY <1>1, <1>2, <1>3, <1>4, <1>5, <1>6 DEF Exit

LEMMA ServerPromptStep ==
  PromptInv /\ (ServerPut \/ ServerBias \/ Listener) => PromptInv'
<1> SUFFICES ASSUME PromptInv, ServerPut \/ ServerBias \/ Listener
             PROVE  PromptInv'
  OBVIOUS
<1>1. CASE ServerPut
  BY <1>1, PutStep DEF ServerPut, genVars
<1>2. CASE ServerListener
  BY <1>2, StoreStep DEF ServerListener, genVars
<1>3. CASE ServerBias \/ ServerBiasSend
  <2>1. UNCHANGED <<state, late, gen>>
    BY <1>3 DEF ServerBias, ServerBiasSend, nodeVars, history, genVars
  <2> QED BY <2>1, PromptQuietStep
<1> QED BY <1>1, <1>2, <1>3 DEF Listener

\* A thread that has left "stim" was told to stimulate; the spike it sends
\* after the opposite is the last one.
LEMMA GenPromptStep == PromptInv /\ Gen => PromptInv'
<1> SUFFICES ASSUME PromptInv, Gen PROVE PromptInv'
  OBVIOUS
<1>1. CASE GenLoop
  BY <1>1, PromptQuietStep DEF GenLoop, nodeVars, history, Waiting
<1>2. CASE GenStim
  <2>1. /\ UNCHANGED <<state, late>>
        /\ gen' = IF state["doStim"] THEN "once" ELSE "loop"
    BY <1>2 DEF GenStim, Stimulate, nodeVars, history
  <2> QED BY <2>1 DEF PromptInv, Waiting
<1>3. CASE GenOnce
  BY <1>3, PromptQuietStep DEF GenOnce, nodeVars, history, Waiting
<1>4. CASE GenTrain
  BY <1>4, PromptQuietStep DEF GenTrain, nodeVars, history, Waiting
<1>5. CASE GenSelect
  BY <1>5, PromptQuietStep DEF GenSelect, nodeVars, history, Waiting
<1>6. CASE \/ GenWrite \/ GenCheck \/ GenFinish \/ GenAgain
  <2>1. gen \notin Waiting /\ late' = late
    BY <1>6 DEF GenWrite, GenCheck, GenFinish, GenAgain, Waiting, history
  <2>2. DOMAIN state' = DOMAIN state
    BY <1>6 DEF GenWrite, GenCheck, GenFinish, GenAgain
  <2> QED BY <2>1, <2>2 DEF PromptInv
<1>7. CASE GenSpike
  <2>1. gen \notin Waiting BY <1>7 DEF GenSpike, Waiting
  <2>2. late = 0 BY <2>1 DEF PromptInv
  <2>3. state' = state /\ gen' = "loop"
    BY <1>7 DEF GenSpike, nodeVars
  <2>4. late' = IF state["doStim"] \/ late = 2 THEN late ELSE late + 1
    BY <1>7 DEF GenSpike
  <2>5. CASE state["doStim"]
    <3>1. late' = 0 BY <2>2, <2>4, <2>5
    <3> QED BY <2>3, <3>1 DEF PromptInv
  <2>6. CASE ~state["doStim"]
    <3>1. late' \in {0, 1} BY <2>2, <2>4
    <3> QED BY <2>3, <2>6, <3>1 DEF PromptInv, Waiting
  <2> QED BY <2>5, <2>6
<1> QED BY <1>1, <1>2, <1>3, <1>4, <1>5, <1>6, <1>7 DEF Gen

LEMMA NextKeepsPrompt == PromptInv /\ [Next]_vars => PromptInv'
<1> SUFFICES ASSUME PromptInv, [Next]_vars PROVE PromptInv'
  OBVIOUS
<1>1. CASE Start BY <1>1, StartPromptStep
<1>2. CASE Exit  BY <1>2, ExitPromptStep
<1>3. CASE ServerPut \/ ServerBias \/ Listener
  BY <1>3, ServerPromptStep
<1>4. CASE Gen BY <1>4, GenPromptStep
<1>5. CASE StopModule \/ Tick
  <2>1. UNCHANGED <<state, late, gen>>
    BY <1>5 DEF StopModule, Tick, nodeVars, history, genVars
  <2> QED BY <2>1, PromptQuietStep
<1>6. CASE UNCHANGED vars
  BY <1>6, PromptQuietStep DEF vars, nodeVars, history, genVars
<1> QED BY <1>1, <1>2, <1>3, <1>4, <1>5, <1>6 DEF Next

\* Once stimulation is disabled at most one spike follows, the one the thread
\* was about to send, however the listener's stores and the thread's steps
\* interleave ("make sure no spikes are being sent", dynapse_common.c:1171).
THEOREM OneLateSpike == Spec => []StopIsPrompt
<1>1. PromptInv => StopIsPrompt BY DEF PromptInv, StopIsPrompt
<1> QED BY <1>1, PromptInit, NextKeepsPrompt, PTL DEF Spec

-----------------------------------------------------------------------------
(* Biases. From the chip being selected to the bias being sent nobody else *)
(* puts, so that only Exit may change doStim, to FALSE; Exit cannot get    *)
(* past the removal of the listeners, and the thread keeps waiting.        *)

\* Stores are made from the front of a short list.
LEMMA Triple ==
  ASSUME NEW a, NEW b, NEW c
  PROVE  /\ Head(<<a, b, c>>) = a /\ Len(<<a, b, c>>) # 1
         /\ Tail(<<a, b, c>>) = <<b, c>>
OBVIOUS

LEMMA Pair ==
  ASSUME NEW a, NEW b
  PROVE  /\ Head(<<a, b>>) = a /\ Len(<<a, b>>) # 1
         /\ Tail(<<a, b>>) = <<b>>
OBVIOUS

LEMMA Single ==
  ASSUME NEW a
  PROVE  Head(<<a>>) = a /\ Len(<<a>>) = 1
OBVIOUS

LEMMA StoreFirst ==
  ASSUME NEW who, NEW stores, Store(who, stores),
         NEW k, NEW v, Head(stores) = <<k, v>>
  PROVE  /\ state' = [state EXCEPT ![k] = v]
         /\ Len(stores) = 1 => call' = NoCall
         /\ Len(stores) # 1 => call' = [by |-> who, stores |-> Tail(stores)]
<1>1. <<k, v>>[1] = k /\ <<k, v>>[2] = v
  OBVIOUS
<1> QED BY <1>1 DEF Store

LEMMA StoreOfTwo ==
  ASSUME NEW who, NEW k, NEW v, NEW b, Store(who, <<<<k, v>>, b>>)
  PROVE  /\ state' = [state EXCEPT ![k] = v]
         /\ call' = [by |-> who, stores |-> <<b>>]
<1> DEFINE stores == <<<<k, v>>, b>>
<1>1. Head(stores) = <<k, v>> /\ Len(stores) # 1 /\ Tail(stores) = <<b>>
  BY Pair
<1>2. Store(who, stores)
  OBVIOUS
<1> HIDE DEF stores
<1>3. /\ state' = [state EXCEPT ![k] = v]
      /\ call' = [by |-> who, stores |-> Tail(stores)]
  BY <1>1, <1>2, StoreFirst
<1> QED BY <1>1, <1>3

LEMMA StoreOfOne ==
  ASSUME NEW who, NEW k, NEW v, Store(who, <<<<k, v>>>>)
  PROVE  state' = [state EXCEPT ![k] = v] /\ call' = NoCall
<1> DEFINE stores == <<<<k, v>>>>
<1>1. Head(stores) = <<k, v>> /\ Len(stores) = 1
  BY Single
<1>2. Store(who, stores)
  OBVIOUS
<1> HIDE DEF stores
<1> QED BY <1>1, <1>2, StoreFirst

\* What Exit has left to store once it has stored that doStim is FALSE.
StopStores == {<<<<"started", FALSE>>, <<"done", TRUE>>>>, <<<<"done", TRUE>>>>}

IsQuiet == biasCall.busy /\ biasCall.quiet

BiasInv ==
  /\ DOMAIN state = Fields
  /\ DOMAIN board = {"open", "selected"}
  /\ main = "exitListener" => call.by = "main" /\ call.stores \in StopStores
  /\ IsQuiet => /\ board.selected = biasCall.chip
                /\ ~state["doStim"] /\ gen \in Waiting
                /\ call.by # "server"
                /\ main \in {"running", "exitPut", "exitListener",
                             "exitRemove", "undefined"}

LEMMA BiasInit == Init => BiasInv
<1> SUFFICES ASSUME Init PROVE BiasInv
  OBVIOUS
<1>1. DOMAIN state = Fields BY DEF Init
<1>2. board = [open |-> FALSE, selected |-> DefaultChip] /\ main = "stopped"
  BY DEF Init
<1>3. ~IsQuiet BY DEF Init, NoBias, IsQuiet
<1> QED BY <1>1, <1>2, <1>3 DEF BiasInv

\* Steps that leave the board, the call and the bias alone.
LEMMA BiasQuietStep ==
  ASSUME BiasInv, UNCHANGED <<state, board, call, biasCall>>,
         gen' = gen \/ gen' \in Waiting \/ gen \notin Waiting,
         \/ main' = main
         \/ main' # "exitListener"
            /\ (main' \in {"exitPut", "exitRemove", "undefined"}
                \/ main \notin {"running", "exitPut", "exitListener",
                                "exitRemove", "undefined"})
  PROVE  BiasInv'
BY DEF BiasInv, IsQuiet

\* The mainloop's start: no bias is quiet before the module runs.
LEMMA StartBiasStep == BiasInv /\ Start => BiasInv'
<1> SUFFICES ASSUME BiasInv, Start PROVE BiasInv'
  OBVIOUS
<1> USE DEF Start, StartModule, LoadAttribute, StoreAttribute, StoreStarted,
            StoreDone, StartThread, StartData
<1>1. main \in {"stopped", "load", "store", "started", "done", "thread", "start"}
  OBVIOUS
<1>2. ~IsQuiet BY <1>1 DEF BiasInv
<1>3. biasCall' = biasCall
  BY DEF serverVars
<1>4. ~IsQuiet' BY <1>2, <1>3 DEF IsQuiet
<1>5. DOMAIN state' = Fields
  BY DEF nodeVars, BiasInv
<1>6. DOMAIN board' = {"open", "selected"}
  BY DEF BiasInv
<1>7. main' # "exitListener"
  BY <1>1
<1> QED BY <1>4, <1>5, <1>6, <1>7 DEF BiasInv

\* Exit's first put, with the first store of its listener if there is one.
LEMMA ExitPutBiasStep == BiasInv /\ ExitPut => BiasInv'
<1> SUFFICES ASSUME BiasInv, ExitPut PROVE BiasInv'
  OBVIOUS
<1>1. /\ UNCHANGED <<biasCall, board, gen>>
      /\ main' = IF call' = NoCall THEN "exitRemove" ELSE "exitListener"
      /\ main = "exitPut" /\ call = NoCall
  BY DEF ExitPut, Put, serverVars, genVars
<1>2. CASE UNCHANGED <<state, call, history>>
  BY <1>1, <1>2, BiasQuietStep
<1>3. CASE Store("main", StoresOf("doStim", FALSE))
  <2> DEFINE stores == StoresOf("doStim", FALSE)
             off    == FALSE
             first  == <<"doStim", off>>
             second == <<"started", FALSE>>
             third  == <<"done", TRUE>>
  <2>1. stores = <<first, second, third>> /\ ~off
    BY DEF StoresOf
  <2>2. <<second, third>> \in StopStores
    BY DEF StopStores
  <2> HIDE DEF stores, off, second, third
  <2>3. /\ Head(stores) = <<"doStim", off>> /\ Len(stores) # 1
        /\ Tail(stores) = <<second, third>>
    <3> HIDE DEF first
    <3>1. Head(stores) = first /\ Len(stores) # 1 /\ Tail(stores) = <<second, third>>
      BY ONLY <2>1, Triple
    <3> QED BY <3>1 DEF first
  <2>4. /\ state' = [state EXCEPT !["doStim"] = off]
        /\ call' = [by |-> "main", stores |-> <<second, third>>]
    <3>1. Store("main", stores) BY <1>3 DEF stores
    <3>2. state' = [state EXCEPT !["doStim"] = off]
      BY <2>3, <3>1, StoreFirst
    <3>3. call' = [by |-> "main", stores |-> Tail(stores)]
      BY <2>3, <3>1, StoreFirst
    <3> QED BY <2>3, <3>2, <3>3
  <2>5. "doStim" \in Fields BY DEF Fields, Keys, Switches
  <2>6. DOMAIN state' = Fields /\ ~state'["doStim"]
    BY <2>1, <2>4, <2>5 DEF BiasInv
  <2>7. call'.by = "main" /\ call'.stores \in StopStores
    BY <2>2, <2>4
  <2> QED BY <1>1, <2>6, <2>7 DEF BiasInv, IsQuiet
<1> QED BY <1>2, <1>3 DEF ExitPut, Put

\* The other two stores do not touch doStim.
LEMMA ExitListenerBiasStep == BiasInv /\ ExitListener => BiasInv'
<1> SUFFICES ASSUME BiasInv, ExitListener PROVE BiasInv'
  OBVIOUS
<1>1. /\ UNCHANGED <<biasCall, board, gen>>
      /\ main' = IF call' = NoCall THEN "exitRemove" ELSE "exitListener"
      /\ main = "exitListener" /\ Store("main", call.stores)
  BY DEF ExitListener, serverVars, genVars
<1>2. call.stores \in StopStores BY <1>1 DEF BiasInv
<1>3. "doStim" \in Fields BY DEF Fields, Keys, Switches
<1>4. CASE call.stores = <<<<"started", FALSE>>, <<"done", TRUE>>>>
  <2>1. Store("main", <<<<"started", FALSE>>, <<"done", TRUE>>>>)
    BY <1>1, <1>4, Zenon
  <2>2. /\ state' = [state EXCEPT !["started"] = FALSE]
        /\ call' = [by |-> "main", stores |-> <<<<"done", TRUE>>>>]
    BY <2>1, StoreOfTwo, Zenon
  <2>3. DOMAIN state' = Fields /\ (~state["doStim"] => ~state'["doStim"])
    BY <1>3, <2>2 DEF BiasInv
  <2>4. call'.by = "main" /\ call'.stores \in StopStores
    BY <2>2 DEF StopStores
  <2> QED BY <1>1, <2>3, <2>4 DEF BiasInv, IsQuiet
<1>5. CASE call.stores = <<<<"done", TRUE>>>>
  <2>1. Store("main", <<<<"done", TRUE>>>>)
    BY <1>1, <1>5, Zenon
  <2>2. state' = [state EXCEPT !["done"] = TRUE] /\ call' = NoCall
    BY <2>1, StoreOfOne, Zenon
  <2>3. DOMAIN state' = Fields /\ (~state["doStim"] => ~state'["doStim"])
    BY <1>3, <2>2 DEF BiasInv
  <2>4. call'.by # "server" BY <2>2 DEF NoCall
  <2> QED BY <1>1, <2>2, <2>3, <2>4 DEF BiasInv, IsQuiet
<1> QED BY <1>2, <1>4, <1>5 DEF StopStores

\* The rest of Exit; the removal of the listeners waits for the bias.
LEMMA ExitBiasStep == BiasInv /\ Exit => BiasInv'
<1> SUFFICES ASSUME BiasInv, Exit PROVE BiasInv'
  OBVIOUS
<1>1. CASE ExitPut      BY <1>1, ExitPutBiasStep
<1>2. CASE ExitListener BY <1>2, ExitListenerBiasStep
<1>3. CASE ExitRemove \/ ExitClose \/ ExitStim \/ ExitRunning \/ ExitJoin
  <2>1. ~IsQuiet
    BY <1>3 DEF ExitRemove, ExitClose, ExitStim, ExitRunning, ExitJoin,
                BiasInv, IsQuiet
  <2>2. biasCall' = biasCall /\ main' # "exitListener"
    BY <1>3 DEF ExitRemove, ExitClose, ExitStim, ExitRunning, ExitJoin,
                serverVars
  <2>3. DOMAIN state' = Fields
    BY <1>3 DEF ExitRemove, ExitClose, ExitStim, ExitRunning, ExitJoin,
                nodeVars, BiasInv
  <2>4. DOMAIN board' = {"open", "selected"}
    BY <1>3 DEF ExitRemove, ExitClose, ExitStim, ExitRunning, ExitJoin,
                BiasInv
  <2> QED BY <2>1, <2>2, <2>3, <2>4 DEF BiasInv, IsQuiet
<1> QED BY <1>1, <1>2, <1>3 DEF Exit

\* The server: it is in one listener at a time.
LEMMA ServerBiasStep ==
  BiasInv /\ (ServerPut \/ ServerBias \/ Listener) => BiasInv'
<1> SUFFICES ASSUME BiasInv, ServerPut \/ ServerBias \/ Listener
             PROVE  BiasInv'
  OBVIOUS
<1>1. CASE ServerPut \/ ServerListener
  <2>1. /\ UNCHANGED <<main, biasCall, board>>
        /\ DOMAIN state' = DOMAIN state
    BY <1>1 DEF ServerPut, ServerListener, Put, Store, mainVars, serverVars
  <2>2. main # "exitListener" /\ ~IsQuiet
    BY <1>1 DEF ServerPut, ServerListener, Put, NoCall, BiasInv, IsQuiet
  <2> QED BY <2>1, <2>2 DEF BiasInv, IsQuiet
<1>2. CASE ServerBias
  <2>1. PICK c \in Chips :
          /\ biasCall' = [busy |-> TRUE, chip |-> c, quiet |-> Quiet]
          /\ board' = [board EXCEPT !.selected = c]
    BY <1>2 DEF ServerBias
  <2>2. /\ UNCHANGED <<main, gen, state, call>>
        /\ call.by # "server"
    BY <1>2 DEF ServerBias, mainVars, genVars, nodeVars
  <2>3. /\ DOMAIN board' = {"open", "selected"}
        /\ board'.selected = biasCall'.chip
    BY <2>1 DEF BiasInv
  <2>4. IsQuiet' => main = "running" /\ ~state["doStim"] /\ gen \in Waiting
    BY <2>1 DEF IsQuiet, Quiet, Waiting
  <2> QED BY <2>2, <2>3, <2>4 DEF BiasInv
<1>3. CASE ServerBiasSend
  <2>1. ~IsQuiet' BY <1>3 DEF ServerBiasSend, NoBias, IsQuiet
  <2>2. UNCHANGED <<main, state, board, call>>
    BY <1>3 DEF ServerBiasSend, mainVars, nodeVars
  <2> QED BY <2>1, <2>2 DEF BiasInv
<1> QED BY <1>1, <1>2, <1>3 DEF Listener

\* The thread: while it waits it looks at doStim only.
LEMMA GenBiasStep == BiasInv /\ Gen => BiasInv'
<1> SUFFICES ASSUME BiasInv, Gen PROVE BiasInv'
  OBVIOUS
<1>1. CASE GenLoop
  BY <1>1, BiasQuietStep DEF GenLoop, nodeVars, mainVars, serverVars, Waiting
<1>2. CASE GenStim
  <2>1. /\ UNCHANGED <<state, board, call, biasCall, main>>
        /\ gen' = IF state["doStim"] THEN "once" ELSE "loop"
    BY <1>2 DEF GenStim, Stimulate, nodeVars, mainVars, serverVars
  <2> QED BY <2>1 DEF BiasInv, IsQuiet, Waiting
<1>3. CASE \/ GenOnce \/ GenWrite \/ GenTrain \/ GenCheck \/ GenFinish
           \/ GenAgain \/ GenSelect \/ GenSpike
  <2> USE DEF GenOnce, GenWrite, GenTrain, GenCheck, GenFinish, GenAgain,
              GenSelect, GenSpike
  <2>1. gen \notin Waiting /\ UNCHANGED <<biasCall, call>>
    BY <1>3 DEF Waiting, serverVars, nodeVars
  <2>2. main' \in {main, "undefined"}
    BY <1>3 DEF Use, mainVars
  <2>3. DOMAIN board' = {"open", "selected"}
    BY <1>3 DEF Use, Select, BiasInv
  <2>4. DOMAIN state' = Fields
    BY <1>3 DEF nodeVars, BiasInv
  <2> QED BY <2>1, <2>2, <2>3, <2>4 DEF BiasInv, IsQuiet
<1> QED BY <1>1, <1>2, <1>3 DEF Gen

LEMMA NextKeepsBias == BiasInv /\ [Next]_vars => BiasInv'
<1> SUFFICES ASSUME BiasInv, [Next]_vars PROVE BiasInv'
  OBVIOUS
<1>1. CASE Start BY <1>1, StartBiasStep
<1>2. CASE Exit  BY <1>2, ExitBiasStep
<1>3. CASE ServerPut \/ ServerBias \/ Listener
  BY <1>3, ServerBiasStep
<1>4. CASE Gen BY <1>4, GenBiasStep
<1>5. CASE StopModule
  BY <1>5, BiasQuietStep DEF StopModule, nodeVars, serverVars, genVars
<1>6. CASE Tick
  BY <1>6, BiasQuietStep DEF Tick, nodeVars, serverVars, genVars, mainVars
<1>7. CASE UNCHANGED vars
  BY <1>7, BiasQuietStep
     DEF vars, nodeVars, serverVars, genVars, mainVars
<1> QED BY <1>1, <1>2, <1>3, <1>4, <1>5, <1>6, <1>7 DEF Next

\* A bias that is put while nobody stimulates is sent to the chip that was
\* selected for it: neither the thread that polls doStim nor the mainloop on
\* its way out selects another one in between (dynapse_common.c:1171).
THEOREM QuietBiasIsSafe == Spec => []QuietBiasGetsToItsChip
<1>1. BiasInv => QuietBiasGetsToItsChip
  BY DEF BiasInv, IsQuiet, QuietBiasGetsToItsChip
<1> QED BY <1>1, BiasInit, NextKeepsBias, PTL DEF Spec

-----------------------------------------------------------------------------
(* Types. The listener stores values of the fields' types, whatever is     *)
(* left of them; the thread looks at commands in their order, and starts   *)
(* again with the first; a module starts without a thread.                 *)

TypeOf(f) == IF f \in Keys THEN Values(f) ELSE BOOLEAN

\* What a listener may have left to store.
Rests ==
  StopStores \cup {<<<<"done", FALSE>>, <<"started", TRUE>>>>,
                   <<<<"started", TRUE>>>>}

StateType ==
  /\ DOMAIN state = Fields
  /\ \A f \in Fields : state[f] \in TypeOf(f)

CallType ==
  /\ call \in {NoCall} \cup [by : {"main", "server"}, stores : Rests]
  /\ main = "exitListener" => call.by = "main"

NodeType ==
  /\ DOMAIN attr = Keys /\ \A k \in Keys : attr[k] \in Values(k)
  /\ reading \in 1 .. Len(InitOrder)
  /\ main = "store" => loaded \in Values(InitOrder[reading])

\* The mainloop is between two runs, or its start has not come to the thread.
NoThreadYet ==
  \/ main \in {"stopped", "started", "done", "thread"}
  \/ main \in {"load", "store"} /\ reading < Len(InitOrder)

PlaceType ==
  /\ main \in MainPlaces /\ gen \in GenPlaces
  /\ NoThreadYet => gen \in {"none", "ended"}
  /\ main \in {"started", "done", "thread"} => reading = Len(InitOrder)
  /\ at \in 1 .. Len(Commands) + 1
  /\ gen # "train" => at <= Len(Commands)
  /\ starts \in 0 .. MaxStarts /\ puts \in 0 .. MaxPuts

FlagType ==
  /\ handle \in BOOLEAN /\ listening \in BOOLEAN /\ elapsed \in BOOLEAN

BoardType ==
  /\ board \in [open : BOOLEAN, selected : Chips]
  /\ made \in [CommandSet -> BOOLEAN]

TInv ==
  StateType /\ CallType /\ NodeType /\ PlaceType /\ FlagType /\ BoardType

LEMMA SwitchesAreApart ==
  /\ CommandSet \cap {"stim_type", "stim_duration", "chip_id", "started",
                      "done", "running"} = {}
  /\ Switches \cap {"stim_type", "stim_duration", "chip_id", "started",
                    "done", "running"} = {}
BY NamesAssumption DEF CommandSet, Switches

LEMMA ValuesOf ==
  /\ \A k \in Switches : Values(k) = BOOLEAN
  /\ Values("stim_type") = StimTypes
  /\ Values("stim_duration") = Durations
  /\ Values("chip_id") = Chips
<1>1. ASSUME NEW k \in Switches PROVE Values(k) = BOOLEAN
  <2>1. k \notin {"stim_type", "stim_duration", "chip_id"}
    BY SwitchesAreApart
  <2> QED BY <2>1 DEF Values
<1>2. {"stim_type", "stim_duration", "chip_id"} \cap Switches = {}
  BY SwitchesAreApart
<1>3. Values("stim_type") = StimTypes
  BY <1>2 DEF Values
<1>4. Values("stim_duration") = Durations
  BY <1>2 DEF Values
<1>5. Values("chip_id") = Chips
  BY <1>2 DEF Values
<1> QED BY <1>1, <1>3, <1>4, <1>5

LEMMA TypesOf ==
  /\ \A c \in Switches : c \in Fields /\ c \in Keys /\ TypeOf(c) = BOOLEAN
  /\ \A f \in {"started", "done", "running"} :
       f \in Fields /\ f \notin Keys /\ TypeOf(f) = BOOLEAN
  /\ Keys \subseteq Fields /\ Fields = Keys \cup {"started", "done", "running"}
  /\ \A k \in Keys : TypeOf(k) = Values(k)
  /\ {"doStim", "repeat"} \subseteq Switches /\ CommandSet \subseteq Switches
<1>1. \A c \in Switches : c \in Fields /\ c \in Keys /\ TypeOf(c) = BOOLEAN
  BY ValuesOf DEF TypeOf, Fields, Keys
<1>2. \A f \in {"started", "done", "running"} :
        f \in Fields /\ f \notin Keys /\ TypeOf(f) = BOOLEAN
  BY SwitchesAreApart DEF TypeOf, Fields, Keys
<1>3. Keys \subseteq Fields /\ \A k \in Keys : TypeOf(k) = Values(k)
  BY DEF Fields, TypeOf
<1>4. Fields = Keys \cup {"started", "done", "running"}
  BY DEF Fields
<1>5. {"doStim", "repeat"} \subseteq Switches /\ CommandSet \subseteq Switches
  BY DEF Switches
<1> QED BY <1>1, <1>2, <1>3, <1>4, <1>5

\* The attributes of the start; one is left when it comes to the thread.
LEMMA InitKeys ==
  /\ Len(InitOrder) \in Nat /\ Len(InitOrder) >= 1
  /\ \A i \in 1 .. Len(InitOrder) : InitOrder[i] \in Keys
<1> DEFINE first == <<"doStim", "stim_type", "stim_duration", "repeat">>
           last  == <<"chip_id">>
<1>1. Commands \in Seq(Keys)
  <2>1. Commands \in Seq(STRING)
    BY SpikeGeneratorAssumption
  <2>2. \A i \in DOMAIN Commands : Commands[i] \in Keys
    BY DEF Keys, Switches, CommandSet
  <2> QED BY <2>1, <2>2
<1>2. first \in Seq(Keys)
  <2>1. {"doStim", "stim_type", "stim_duration", "repeat"} \subseteq Keys
    BY DEF Keys, Switches
  <2> HIDE DEF Keys
  <2> QED BY <2>1
<1>3. last \in Seq(Keys) /\ Len(last) = 1
  BY DEF Keys
<1>4. InitOrder = (first \o Commands) \o last
  BY DEF InitOrder
<1> HIDE DEF first, last
<1> DEFINE front == first \o Commands
<1>5. front \in Seq(Keys)
  BY <1>1, <1>2, ConcatProperties
<1>6. InitOrder = front \o last
  BY <1>4
<1> HIDE DEF front
<1>7. front \o last \in Seq(Keys) /\ Len(front \o last) = Len(front) + Len(last)
  BY <1>3, <1>5, ConcatProperties
<1>8. InitOrder \in Seq(Keys) /\ Len(InitOrder) = Len(front) + 1
  BY <1>3, <1>6, <1>7
<1>9. Len(front) \in Nat
  BY <1>5
<1> QED BY <1>8, <1>9

\* The only values whose type matters to the thread.
LEMMA FlagsAreBoolean ==
  ASSUME StateType
  PROVE  /\ \A c \in Switches : state[c] \in BOOLEAN
         /\ \A f \in {"started", "done", "running"} : state[f] \in BOOLEAN
BY TypesOf DEF StateType

LEMMA StateKeepsType ==
  ASSUME StateType, NEW f \in Fields, NEW v \in TypeOf(f),
         state' = [state EXCEPT ![f] = v]
  PROVE  StateType'
<1>1. DOMAIN state' = Fields
  BY DEF StateType
<1>2. ASSUME NEW g \in Fields PROVE state'[g] \in TypeOf(g)
  <2>1. CASE g = f
    <3>1. state'[g] = v BY <2>1 DEF StateType
    <3> QED BY <2>1, <3>1
  <2>2. CASE g # f
    <3>1. state'[g] = state[g] BY <2>2 DEF StateType
    <3>2. state[g] \in TypeOf(g) BY DEF StateType
    <3> QED BY <3>1, <3>2
  <2> QED BY <2>1, <2>2
<1>3. \A g \in Fields : TypeOf(g)' = TypeOf(g)
  BY DEF TypeOf
<1> QED BY <1>1, <1>2 DEF StateType

Left(who) == {NoCall} \cup [by : {who}, stores : Rests]

LEMMA StoreOneTypes ==
  ASSUME StateType, NEW who, NEW k \in Fields, NEW v \in TypeOf(k),
         Store(who, <<<<k, v>>>>)
  PROVE  StateType' /\ call' \in Left(who)
<1>1. state' = [state EXCEPT ![k] = v] /\ call' = NoCall
  BY StoreOfOne
<1>2. StateType' BY <1>1, StateKeepsType
<1>3. call' \in Left(who) BY <1>1 DEF Left
<1> QED BY <1>2, <1>3

LEMMA StoreTwoTypes ==
  ASSUME StateType, NEW who, NEW k \in Fields, NEW v \in TypeOf(k), NEW b,
         <<b>> \in Rests, Store(who, <<<<k, v>>, b>>)
  PROVE  StateType' /\ call' \in Left(who)
<1>1. /\ state' = [state EXCEPT ![k] = v]
      /\ call' = [by |-> who, stores |-> <<b>>]
  BY StoreOfTwo
<1>2. StateType' BY <1>1, StateKeepsType
<1>3. call' \in Left(who) BY <1>1 DEF Left
<1> QED BY <1>2, <1>3

LEMMA StoreThreeTypes ==
  ASSUME StateType, NEW who, NEW v \in BOOLEAN, NEW b, NEW c,
         <<b, c>> \in Rests, Store(who, <<<<"doStim", v>>, b, c>>)
  PROVE  StateType' /\ call' \in Left(who)
<1> DEFINE first == <<"doStim", v>>
           stores == <<first, b, c>>
<1>1. Store(who, stores) OBVIOUS
<1>2. /\ Head(stores) = <<"doStim", v>> /\ Len(stores) # 1
      /\ Tail(stores) = <<b, c>>
  <2> HIDE DEF first
  <2>1. /\ Head(stores) = first /\ Len(stores) # 1
        /\ Tail(stores) = <<b, c>>
    BY Triple
  <2> QED BY <2>1 DEF first
<1> HIDE DEF stores
<1>3. /\ state' = [state EXCEPT !["doStim"] = v]
      /\ call' = [by |-> who, stores |-> <<b, c>>]
  <2>1. state' = [state EXCEPT !["doStim"] = v]
    BY <1>1, <1>2, StoreFirst
  <2>2. call' = [by |-> who, stores |-> Tail(stores)]
    BY <1>1, <1>2, StoreFirst
  <2> QED BY <1>2, <2>1, <2>2
<1>4. "doStim" \in Fields /\ v \in TypeOf("doStim")
  BY TypesOf
<1>5. StateType' BY <1>3, <1>4, StateKeepsType
<1>6. call' \in Left(who) BY <1>3 DEF Left
<1> QED BY <1>5, <1>6

\* Any put's first store, and any other that was left.
LEMMA PutTypes ==
  ASSUME StateType, NEW who, NEW k \in Keys, NEW v \in Values(k),
         Store(who, StoresOf(k, v))
  PROVE  StateType' /\ call' \in Left(who)
<1>1. CASE k # "doStim"
  <2>1. Store(who, <<<<k, v>>>>) BY <1>1 DEF StoresOf
  <2>2. k \in Fields /\ v \in TypeOf(k) BY TypesOf
  <2> QED BY <2>1, <2>2, StoreOneTypes
<1>2. CASE k = "doStim" /\ v
  <2>1. v = TRUE BY <1>2, TypesOf, ValuesOf
  <2> DEFINE b == <<"done", FALSE>>
             c == <<"started", TRUE>>
  <2>2. Store(who, <<<<"doStim", TRUE>>, b, c>>) BY <1>2, <2>1 DEF StoresOf
  <2>3. <<b, c>> \in Rests BY DEF Rests
  <2> HIDE DEF b, c
  <2> QED BY <2>2, <2>3, StoreThreeTypes
<1>3. CASE k = "doStim" /\ ~v
  <2>1. v = FALSE BY <1>3, TypesOf, ValuesOf
  <2> DEFINE b == <<"started", FALSE>>
             c == <<"done", TRUE>>
  <2>2. Store(who, <<<<"doStim", FALSE>>, b, c>>) BY <1>3, <2>1 DEF StoresOf
  <2>3. <<b, c>> \in Rests BY DEF Rests, StopStores
  <2> HIDE DEF b, c
  <2> QED BY <2>2, <2>3, StoreThreeTypes
<1> QED BY <1>1, <1>2, <1>3

LEMMA RestTypes ==
  ASSUME StateType, NEW who, NEW stores \in Rests, Store(who, stores)
  PROVE  StateType' /\ call' \in Left(who)
<1> DEFINE off == <<"done", FALSE>>
           on  == <<"started", TRUE>>
           end == <<"done", TRUE>>
<1>1. /\ "done" \in Fields /\ "started" \in Fields
      /\ {TRUE, FALSE} \subseteq TypeOf("done")
      /\ {TRUE, FALSE} \subseteq TypeOf("started")
  BY TypesOf
<1>2. <<on>> \in Rests /\ <<end>> \in Rests
  BY DEF Rests, StopStores
<1>3. CASE stores = <<<<"done", FALSE>>, on>>
  <2>1. Store(who, <<<<"done", FALSE>>, on>>) BY <1>3
  <2> HIDE DEF on
  <2> QED BY <1>1, <1>2, <2>1, StoreTwoTypes
<1>4. CASE stores = <<<<"started", FALSE>>, end>>
  <2>1. Store(who, <<<<"started", FALSE>>, end>>) BY <1>4
  <2> HIDE DEF end
  <2> QED BY <1>1, <1>2, <2>1, StoreTwoTypes
<1>5. CASE stores = <<<<"started", TRUE>>>>
  <2>1. Store(who, <<<<"started", TRUE>>>>) BY <1>5
  <2> QED BY <1>1, <2>1, StoreOneTypes
<1>6. CASE stores = <<<<"done", TRUE>>>>
  <2>1. Store(who, <<<<"done", TRUE>>>>) BY <1>6
  <2> QED BY <1>1, <2>1, StoreOneTypes
<1> QED BY <1>3, <1>4, <1>5, <1>6 DEF Rests, StopStores

LEMMA QuietTypes ==
  ASSUME StateType, CallType, UNCHANGED <<state, call>>,
         main' = main \/ main' # "exitListener"
  PROVE  StateType' /\ CallType'
<1>1. \A f \in Fields : TypeOf(f)' = TypeOf(f)
  BY DEF TypeOf
<1> QED BY <1>1 DEF StateType, CallType

\* A put, with the first of its listener's stores.
LEMMA PutKeepsTypes ==
  ASSUME StateType, CallType, NEW who \in {"main", "server"},
         NEW k \in Keys, NEW v \in Values(k), Put(who, k, v)
  PROVE  StateType' /\ call' \in Left(who)
<1>1. CASE Store(who, StoresOf(k, v))
  BY <1>1, PutTypes
<1>2. CASE UNCHANGED <<state, call, history>>
  <2>1. call' = NoCall BY <1>2 DEF Put
  <2>2. UNCHANGED state BY <1>2
  <2>3. \A f \in Fields : TypeOf(f)' = TypeOf(f)
    BY DEF TypeOf
  <2> QED BY <2>1, <2>2, <2>3 DEF StateType, Left
<1> QED BY <1>1, <1>2 DEF Put

LEMMA StartKeepsStateType ==
  ASSUME StateType, CallType, NodeType, Start
  PROVE  StateType' /\ CallType'
<1>1. CASE StartModule \/ LoadAttribute \/ StartData
  <2>1. UNCHANGED <<state, call>>
    BY <1>1 DEF StartModule, LoadAttribute, StartData, nodeVars
  <2>2. main' = main \/ main' # "exitListener"
    BY <1>1 DEF StartModule, LoadAttribute, StartData
  <2> QED BY <2>1, <2>2, QuietTypes
<1>2. CASE StoreAttribute
  <2> DEFINE key == InitOrder[reading]
  <2>1. /\ state' = [state EXCEPT ![key] = loaded]
        /\ call' = call /\ main' # "exitListener"
    BY <1>2 DEF StoreAttribute
  <2>2. key \in Keys /\ loaded \in Values(key)
    BY <1>2, InitKeys DEF StoreAttribute, NodeType
  <2> HIDE DEF key
  <2>3. key \in Fields /\ loaded \in TypeOf(key)
    BY <2>2, TypesOf
  <2>4. StateType'
    BY <2>1, <2>3, StateKeepsType
  <2> QED BY <2>1, <2>4 DEF CallType
<1>3. CASE StoreStarted \/ StoreDone \/ StartThread
  <2>1. PICK f \in {"started", "done", "running"}, v \in BOOLEAN :
          state' = [state EXCEPT ![f] = v]
    BY <1>3 DEF StoreStarted, StoreDone, StartThread
  <2>2. f \in Fields /\ v \in TypeOf(f)
    BY TypesOf
  <2>3. StateType'
    BY <2>1, <2>2, StateKeepsType
  <2>4. call' = call /\ main' # "exitListener"
    BY <1>3 DEF StoreStarted, StoreDone, StartThread
  <2> QED BY <2>3, <2>4 DEF CallType
<1> QED BY <1>1, <1>2, <1>3 DEF Start

LEMMA ExitKeepsStateType ==
  ASSUME StateType, CallType, Exit
  PROVE  StateType' /\ CallType'
<1>0. /\ "doStim" \in Fields /\ FALSE \in TypeOf("doStim")
      /\ "running" \in Fields /\ FALSE \in TypeOf("running")
      /\ "doStim" \in Keys /\ FALSE \in Values("doStim")
  BY TypesOf
<1>1. CASE ExitPut
  <2>1. Put("main", "doStim", FALSE)
    BY <1>1 DEF ExitPut
  <2>2. StateType' /\ call' \in Left("main")
    BY <1>0, <2>1, PutKeepsTypes
  <2>3. main' = IF call' = NoCall THEN "exitRemove" ELSE "exitListener"
    BY <1>1 DEF ExitPut
  <2> QED BY <2>2, <2>3 DEF CallType, Left
<1>2. CASE ExitListener
  <2>1. /\ main = "exitListener" /\ Store("main", call.stores)
        /\ main' = IF call' = NoCall THEN "exitRemove" ELSE "exitListener"
    BY <1>2 DEF ExitListener
  <2>2. call.stores \in Rests
    BY <2>1 DEF CallType, NoCall
  <2>3. StateType' /\ call' \in Left("main")
    BY <2>1, <2>2, RestTypes
  <2> QED BY <2>1, <2>3 DEF CallType, Left
<1>3. CASE ExitRemove \/ ExitClose
  <2>1. UNCHANGED <<state, call>> /\ main' # "exitListener"
    BY <1>3 DEF ExitRemove, ExitClose, nodeVars
  <2> QED BY <2>1, QuietTypes
<1>4. CASE ExitStim
  <2>1. /\ state' = [state EXCEPT !["doStim"] = FALSE]
        /\ call' = call /\ main' = "exitRunning"
    BY <1>4 DEF ExitStim
  <2>2. StateType' BY <1>0, <2>1, StateKeepsType
  <2> QED BY <2>1, <2>2 DEF CallType
<1>5. CASE ExitRunning
  <2>1. /\ state' = [state EXCEPT !["running"] = FALSE]
        /\ call' = call /\ main' = "exitJoin"
    BY <1>5 DEF ExitRunning
  <2>2. StateType' BY <1>0, <2>1, StateKeepsType
  <2> QED BY <2>1, <2>2 DEF CallType
<1>6. CASE ExitJoin
  <2>1. call' = call /\ main' # "exitListener"
    BY <1>6 DEF ExitJoin
  <2>2. CASE UNCHANGED state
    BY <2>1, <2>2, QuietTypes
  <2>3. CASE state' = [f \in Fields |->
                         CASE f = "chip_id" -> DefaultChip
                           [] f \in {"stim_type", "stim_duration"} -> state[f]
                           [] OTHER -> FALSE]
    <3>1. ASSUME NEW f \in Fields PROVE state'[f] \in TypeOf(f)
      <4>1. CASE f = "chip_id"
        <5>1. state'[f] = DefaultChip BY <2>3, <4>1
        <5>2. TypeOf(f) = Chips BY <4>1, TypesOf, ValuesOf DEF Keys
        <5> QED BY <5>1, <5>2, SpikeGeneratorAssumption
      <4>2. CASE f \in {"stim_type", "stim_duration"}
        <5>1. state'[f] = state[f] BY <2>3, <4>2
        <5> QED BY <5>1 DEF StateType
      <4>3. CASE f \notin {"chip_id", "stim_type", "stim_duration"}
        <5>1. state'[f] = FALSE BY <2>3, <4>3
        <5>2. f \in Switches \/ f \in {"started", "done", "running"}
          BY <4>3 DEF Fields, Keys
        <5>3. TypeOf(f) = BOOLEAN BY <5>2, TypesOf
        <5> QED BY <5>1, <5>3
      <4> QED BY <4>1, <4>2, <4>3
    <3>2. \A f \in Fields : TypeOf(f)' = TypeOf(f)
      BY DEF TypeOf
    <3>3. DOMAIN state' = Fields
      BY <2>3
    <3> QED BY <2>1, <3>1, <3>2, <3>3 DEF StateType, CallType
  <2> QED BY <1>6, <2>2, <2>3 DEF ExitJoin
<1> QED BY <1>1, <1>2, <1>3, <1>4, <1>5, <1>6 DEF Exit

LEMMA ServerKeepsStateType ==
  ASSUME StateType, CallType, ServerPut \/ ServerBias \/ Listener
  PROVE  StateType' /\ CallType'
<1>1. CASE ServerPut
  <2>1. PICK k \in Keys : \E v \in Values(k) \ {attr[k]} : Put("server", k, v)
    BY <1>1 DEF ServerPut
  <2>2. PICK v \in Values(k) : Put("server", k, v)
    BY <2>1
  <2>3. StateType' /\ call' \in Left("server")
    BY <2>2, PutKeepsTypes
  <2>4. main' = main /\ call = NoCall
    BY <1>1, <2>2 DEF ServerPut, mainVars, Put
  <2> QED BY <2>3, <2>4 DEF CallType, Left, NoCall
<1>2. CASE ServerListener
  <2>1. /\ call.by = "server" /\ main' = main /\ Store("server", call.stores)
    BY <1>2 DEF ServerListener, mainVars
  <2>2. call.stores \in Rests
    BY <2>1 DEF CallType, NoCall
  <2>3. StateType' /\ call' \in Left("server")
    BY <2>1, <2>2, RestTypes
  <2> QED BY <2>1, <2>3 DEF CallType, Left
<1>3. CASE ServerBias \/ ServerBiasSend
  <2>1. UNCHANGED <<state, call>> /\ main' = main
    BY <1>3 DEF ServerBias, ServerBiasSend, nodeVars, mainVars
  <2> QED BY <2>1, QuietTypes
<1> QED BY <1>1, <1>2, <1>3 DEF Listener

LEMMA UseKeepsPlace ==
  ASSUME NEW stale, NEW effect, Use(stale, effect)
  PROVE  main' = main \/ main' = "undefined"
BY DEF Use

LEMMA GenKeepsStateType ==
  ASSUME StateType, CallType, PlaceType, Gen
  PROVE  StateType' /\ CallType'
<1>0. /\ "done" \in Fields /\ TypeOf("done") = BOOLEAN
      /\ "started" \in Fields /\ TypeOf("started") = BOOLEAN
  BY TypesOf
<1>1. CASE \/ GenLoop \/ GenStim \/ GenOnce \/ GenTrain \/ GenSelect
           \/ GenSpike
  <2>1. UNCHANGED <<state, call>>
    BY <1>1 DEF GenLoop, GenStim, GenOnce, GenTrain, GenSelect, GenSpike,
                nodeVars
  <2>2. main' = main \/ main' = "undefined"
    BY <1>1, UseKeepsPlace
       DEF GenLoop, GenStim, GenOnce, GenTrain, GenSelect, GenSpike, mainVars
  <2> QED BY <2>1, <2>2, QuietTypes
<1>2. CASE GenWrite
  <2> DEFINE c == Commands[at]
             v == state[c] /\ c \notin ClearCommands
  <2>1. /\ state' = [state EXCEPT ![c] = v] /\ call' = call
        /\ main' = main \/ main' = "undefined"
    BY <1>2, UseKeepsPlace DEF GenWrite
  <2>2. at \in DOMAIN Commands
    BY <1>2, SpikeGeneratorAssumption DEF GenWrite, PlaceType
  <2>3. c \in Fields /\ TypeOf(c) = BOOLEAN
    BY <2>2, TypesOf DEF CommandSet
  <2>4. v \in BOOLEAN
    BY Zenon
  <2> HIDE DEF v, c
  <2>5. StateType'
    BY <2>1, <2>3, <2>4, StateKeepsType
  <2> QED BY <2>1, <2>5 DEF CallType
<1>3. CASE GenCheck
  <2> DEFINE v == state["done"] \/ Expired
  <2>1. state' = [state EXCEPT !["done"] = v] /\ call' = call /\ main' = main
    BY <1>3 DEF GenCheck, mainVars
  <2>2. v \in BOOLEAN
    BY Zenon
  <2> HIDE DEF v
  <2>3. StateType'
    BY <1>0, <2>1, <2>2, StateKeepsType
  <2> QED BY <2>1, <2>3 DEF CallType
<1>4. CASE GenFinish
  <2>1. /\ state' = [state EXCEPT !["started"] = state["repeat"]]
        /\ call' = call /\ main' = main
    BY <1>4 DEF GenFinish, mainVars
  <2>2. state["repeat"] \in BOOLEAN
    BY FlagsAreBoolean, TypesOf
  <2>3. StateType'
    BY <1>0, <2>1, <2>2, StateKeepsType
  <2> QED BY <2>1, <2>3 DEF CallType
<1>5. CASE GenAgain
  <2>1. /\ state' = [state EXCEPT !["done"] = FALSE]
        /\ call' = call /\ main' = main
    BY <1>5 DEF GenAgain, mainVars
  <2>2. StateType'
    BY <1>0, <2>1, StateKeepsType
  <2> QED BY <2>1, <2>2 DEF CallType
<1> QED BY <1>1, <1>2, <1>3, <1>4, <1>5 DEF Gen

LEMMA PutKeepsNode ==
  ASSUME NodeType, NEW who, NEW k \in Keys, NEW v \in Values(k),
         Put(who, k, v), UNCHANGED <<reading, loaded>>,
         main' = main \/ main' # "store"
  PROVE  NodeType'
<1>1. attr' = [attr EXCEPT ![k] = v]
  BY DEF Put
<1>2. DOMAIN attr' = Keys
  BY <1>1 DEF NodeType
<1>3. ASSUME NEW j \in Keys PROVE attr'[j] \in Values(j)
  <2>1. CASE j = k
    <3>1. attr'[j] = v BY <1>1, <2>1 DEF NodeType
    <3> QED BY <2>1, <3>1
  <2>2. CASE j # k
    <3>1. attr'[j] = attr[j] BY <1>1, <2>2 DEF NodeType
    <3>2. attr[j] \in Values(j) BY DEF NodeType
    <3> QED BY <3>1, <3>2
  <2> QED BY <2>1, <2>2
<1> QED BY <1>2, <1>3 DEF NodeType

LEMMA NodeQuiet ==
  ASSUME NodeType, UNCHANGED <<attr, reading, loaded>>,
         main' = main \/ main' # "store"
  PROVE  NodeType'
BY DEF NodeType

LEMMA NodeTypeStep == TInv /\ [Next]_vars => NodeType'
<1> SUFFICES ASSUME TInv, [Next]_vars PROVE NodeType'
  OBVIOUS
<1> USE DEF mainVars, startVars, nodeVars
<1>0. NodeType /\ "doStim" \in Keys /\ FALSE \in Values("doStim")
  BY TypesOf DEF TInv
<1>1. CASE StartData \/ StopModule \/ StoreStarted \/ StoreDone \/ StartThread
  <2>1. UNCHANGED <<attr, reading, loaded>> /\ (main' # "store" \/ main' = main)
    BY <1>1 DEF StartData, StopModule, StoreStarted, StoreDone, StartThread
  <2> QED BY <1>0, <2>1, NodeQuiet
<1>2. CASE LoadAttribute
  <2>1. attr' = attr /\ reading' = reading /\ loaded' = attr[InitOrder[reading]]
    BY <1>2 DEF LoadAttribute
  <2>2. InitOrder[reading] \in Keys
    BY <1>0, InitKeys DEF NodeType
  <2> QED BY <1>0, <2>1, <2>2 DEF NodeType
<1>3. CASE StartModule \/ StoreAttribute
  <2>1. attr' = attr /\ main' # "store"
    BY <1>3 DEF StartModule, StoreAttribute
  <2>2. reading' \in 1 .. Len(InitOrder)
    <3>1. CASE StartModule
      BY <1>0, <3>1, InitKeys, SpikeGeneratorAssumption DEF StartModule, NodeType
    <3>2. CASE StoreAttribute
      BY <1>0, <3>2, InitKeys DEF StoreAttribute, NodeType
    <3> QED BY <1>3, <3>1, <3>2
  <2> QED BY <1>0, <2>1, <2>2 DEF NodeType
<1>4. CASE ExitPut
  <2>1. /\ Put("main", "doStim", FALSE) /\ UNCHANGED <<reading, loaded>>
        /\ main' # "store"
    BY <1>4 DEF ExitPut
  <2> QED BY <1>0, <2>1, PutKeepsNode
<1>5. CASE ExitListener \/ ExitRemove \/ ExitClose \/ ExitStim \/ ExitJoin
  <2>1. UNCHANGED <<attr, reading, loaded>> /\ main' # "store"
    BY <1>5 DEF ExitListener, ExitRemove, ExitClose, ExitStim, ExitJoin
  <2> QED BY <1>0, <2>1, NodeQuiet
<1>6. CASE ExitRunning
  <2>1. /\ attr' = [attr EXCEPT !["doStim"] = FALSE] /\ main' # "store"
        /\ reading' = reading
    BY <1>6 DEF ExitRunning
  <2>2. ASSUME NEW j \in Keys PROVE attr'[j] \in Values(j)
    <3>1. CASE j = "doStim"
      <4>1. attr'[j] = FALSE BY <1>0, <2>1, <3>1 DEF NodeType
      <4> QED BY <1>0, <3>1, <4>1
    <3>2. CASE j # "doStim"
      <4>1. attr'[j] = attr[j] BY <1>0, <2>1, <3>2 DEF NodeType
      <4>2. attr[j] \in Values(j) BY <1>0 DEF NodeType
      <4> QED BY <4>1, <4>2
    <3> QED BY <3>1, <3>2
  <2>3. DOMAIN attr' = Keys
    BY <1>0, <2>1 DEF NodeType
  <2> QED BY <1>0, <2>1, <2>2, <2>3 DEF NodeType
<1>7. CASE ServerPut
  <2>1. PICK k \in Keys : \E v \in Values(k) \ {attr[k]} : Put("server", k, v)
    BY <1>7 DEF ServerPut
  <2>2. PICK v \in Values(k) : Put("server", k, v)
    BY <2>1
  <2>3. main' = main /\ UNCHANGED <<reading, loaded>>
    BY <1>7 DEF ServerPut
  <2> QED BY <1>0, <2>2, <2>3, PutKeepsNode
<1>8. CASE ServerBias \/ Listener
  <2>1. UNCHANGED <<attr, reading, loaded, main>>
    BY <1>8 DEF ServerBias, Listener, ServerListener, ServerBiasSend
  <2> QED BY <1>0, <2>1, NodeQuiet
<1>9. CASE Gen
  <2>1. UNCHANGED <<attr, reading, loaded>>
    BY <1>9 DEF Gen, GenLoop, GenStim, GenOnce, GenWrite, GenTrain, GenCheck,
                GenFinish, GenAgain, GenSelect, GenSpike
  <2>2. main' = main \/ main' = "undefined"
    BY <1>9, UseKeepsPlace
       DEF Gen, GenLoop, GenStim, GenOnce, GenWrite, GenTrain, GenCheck,
           GenFinish, GenAgain, GenSelect, GenSpike
  <2> QED BY <1>0, <2>1, <2>2, NodeQuiet
<1>10. CASE Tick \/ UNCHANGED vars
  <2>1. UNCHANGED <<attr, reading, loaded, main>>
    BY <1>10 DEF Tick, vars
  <2> QED BY <1>0, <2>1, NodeQuiet
<1> QED
  BY <1>1, <1>2, <1>3, <1>4, <1>5, <1>6, <1>7, <1>8, <1>9, <1>10
     DEF Next, Start, Exit

LEMMA PlaceTypeStep == TInv /\ [Next]_vars => PlaceType'
<1> SUFFICES ASSUME TInv, [Next]_vars PROVE PlaceType'
  OBVIOUS
<1> USE DEF mainVars, startVars, serverVars, genVars, NoThreadYet
<1>0. /\ PlaceType /\ Len(Commands) \in Nat /\ Len(Commands) >= 1
      /\ MaxStarts \in Nat /\ MaxPuts \in Nat
  <2>1. Commands \in Seq(STRING) /\ Commands # <<>>
    BY SpikeGeneratorAssumption
  <2>2. Len(Commands) \in Nat /\ Len(Commands) >= 1
    BY <2>1
  <2> QED BY <2>2, SpikeGeneratorAssumption DEF TInv
<1>1. CASE Start
  <2>0. Len(InitOrder) \in Nat /\ Len(InitOrder) >= 1 /\ reading \in 1 .. Len(InitOrder)
    BY <1>0, InitKeys DEF TInv, NodeType
  <2>1. CASE StartModule
    BY <1>0, <2>1 DEF StartModule, PlaceType, MainPlaces
  <2>2. CASE LoadAttribute
    BY <1>0, <2>2 DEF LoadAttribute, PlaceType, MainPlaces
  <2>3. CASE StoreAttribute
    <3>1. /\ main = "store" /\ UNCHANGED <<gen, at, starts, puts>>
          /\ main' \in {"load", "started", "start"}
          /\ main' = "load" => Len(InitOrder) - reading > 1
          /\ main' = "started" => Len(InitOrder) - reading = 1
      BY <2>3 DEF StoreAttribute
    <3>2. NoThreadYet' => reading < Len(InitOrder)
      BY <2>0, <3>1
    <3>3. NoThreadYet' => gen' \in {"none", "ended"}
      BY <1>0, <3>1, <3>2 DEF PlaceType
    <3>4. main' \in {"started", "done", "thread"} => reading' = Len(InitOrder)
      BY <2>0, <2>3, <3>1 DEF StoreAttribute
    <3> HIDE DEF NoThreadYet
    <3> QED BY <1>0, <3>1, <3>3, <3>4 DEF PlaceType, MainPlaces
  <2>4. CASE StoreStarted \/ StoreDone
    BY <1>0, <2>4 DEF StoreStarted, StoreDone, PlaceType, MainPlaces
  <2>5. CASE StartThread
    <3>1. reading = Len(InitOrder)
      BY <1>0, <2>5 DEF StartThread, PlaceType
    <3> QED BY <1>0, <2>0, <2>5, <3>1 DEF StartThread, PlaceType, MainPlaces, GenPlaces
  <2>6. CASE StartData
    BY <1>0, <2>6 DEF StartData, PlaceType, MainPlaces
  <2> QED BY <1>1, <2>1, <2>2, <2>3, <2>4, <2>5, <2>6 DEF Start
<1>2. CASE Exit \/ StopModule
  <2>1. UNCHANGED <<gen, at, starts, puts>>
    BY <1>2 DEF Exit, StopModule, ExitPut, ExitListener, ExitRemove,
                ExitClose, ExitStim, ExitRunning, ExitJoin
  <2>2. /\ main' \in MainPlaces
        /\ main' \notin {"load", "store", "started", "done", "thread"}
        /\ main' = "stopped" => gen \in {"none", "ended"}
    BY <1>2 DEF Exit, StopModule, ExitPut, ExitListener, ExitRemove,
                ExitClose, ExitStim, ExitRunning, ExitJoin, Joinable,
                MainPlaces
  <2> QED BY <1>0, <2>1, <2>2 DEF PlaceType
<1>3. CASE ServerPut \/ ServerBias
  <2>1. UNCHANGED <<main, reading, gen, at, starts>> /\ puts < MaxPuts /\ puts' = puts + 1
    BY <1>3 DEF ServerPut, ServerBias
  <2> QED BY <1>0, <2>1 DEF PlaceType
<1>4. CASE Listener \/ Tick \/ UNCHANGED vars
  <2>1. UNCHANGED <<main, reading, gen, at, starts, puts>>
    BY <1>4 DEF Listener, ServerListener, ServerBiasSend, Tick, vars
  <2> QED BY <1>0, <2>1 DEF PlaceType
<1>5. CASE Gen
  <2>1. UNCHANGED <<starts, puts, reading>>
    BY <1>5 DEF Gen, GenLoop, GenStim, GenOnce, GenWrite, GenTrain, GenCheck,
                GenFinish, GenAgain, GenSelect, GenSpike
  <2>2. main' = main \/ main' = "undefined"
    BY <1>5, UseKeepsPlace
       DEF Gen, GenLoop, GenStim, GenOnce, GenWrite, GenTrain, GenCheck,
           GenFinish, GenAgain, GenSelect, GenSpike
  <2>3. gen \notin {"none", "ended"}
    BY <1>5
       DEF Gen, GenLoop, GenStim, GenOnce, GenWrite, GenTrain, GenCheck,
           GenFinish, GenAgain, GenSelect, GenSpike
  <2>4. main' \in MainPlaces /\ ~NoThreadYet'
    BY <1>0, <2>1, <2>2, <2>3 DEF PlaceType, MainPlaces
  <2>5. /\ gen' \in GenPlaces /\ at' \in 1 .. Len(Commands) + 1
        /\ gen' # "train" => at' <= Len(Commands)
    <3>1. CASE \/ GenLoop \/ GenStim \/ GenCheck \/ GenFinish \/ GenAgain
               \/ GenSelect \/ GenSpike
      <4>1. at' = at /\ gen # "train" /\ gen' \in GenPlaces /\ gen' # "train"
        BY <3>1 DEF GenLoop, GenStim, GenCheck, GenFinish, GenAgain,
                    GenSelect, GenSpike, Stimulate, GenPlaces
      <4> QED BY <1>0, <4>1 DEF PlaceType
    <3>2. CASE GenOnce
      <4>1. CASE at' = at /\ gen' = "write"
        BY <1>0, <3>2, <4>1 DEF PlaceType, GenOnce, GenPlaces
      <4>2. CASE NextCommand
        BY <1>0, <3>2, <4>2 DEF PlaceType, GenOnce, NextCommand, GenPlaces
      <4> QED BY <3>2, <4>1, <4>2 DEF GenOnce
    <3>3. CASE GenWrite
      BY <1>0, <3>3 DEF PlaceType, GenWrite, NextCommand, GenPlaces
    <3>4. CASE GenTrain
      BY <1>0, <3>4 DEF PlaceType, GenTrain, GenPlaces
    <3> QED BY <1>5, <3>1, <3>2, <3>3, <3>4 DEF Gen
  <2> QED BY <1>0, <2>1, <2>4, <2>5 DEF PlaceType
<1> QED BY <1>1, <1>2, <1>3, <1>4, <1>5 DEF Next

LEMMA FlagTypeStep == TInv /\ [Next]_vars => FlagType'
<1> SUFFICES ASSUME TInv, [Next]_vars PROVE FlagType'
  OBVIOUS
<1> USE DEF mainVars, serverVars, genVars, nodeVars, staticVars, history
<1>0. FlagType /\ BoardType
  BY Zenon DEF TInv
<1>1. board.open \in BOOLEAN
  BY <1>0 DEF BoardType
<1>2. listening' \in BOOLEAN
  <2>1. listening' \in {TRUE, FALSE, listening}
    BY DEF Next, Start, Exit, Listener, Gen, StartModule, LoadAttribute,
           StoreAttribute, StoreStarted, StoreDone, StartThread, StartData, StopModule, ExitPut, ExitListener,
           ExitRemove, ExitClose, ExitStim, ExitRunning, ExitJoin, ServerPut,
           ServerBias, ServerListener, ServerBiasSend, GenLoop, GenStim,
           GenOnce, GenWrite, GenTrain, GenCheck, GenFinish, GenAgain,
           GenSelect, GenSpike, Tick, vars
  <2> QED BY <1>0, <2>1, Zenon DEF FlagType
<1>3. handle' \in BOOLEAN
  <2>1. CASE Gen
    <3>1. CASE GenTrain
      BY <3>1, Zenon DEF GenTrain
    <3>2. CASE \/ GenLoop \/ GenStim \/ GenOnce \/ GenWrite \/ GenCheck
               \/ GenFinish \/ GenAgain \/ GenSelect \/ GenSpike
      <4>1. handle' \in {handle, FALSE, board.open}
        BY <3>2 DEF GenLoop, GenStim, GenOnce, GenWrite, GenCheck, GenFinish,
                    GenAgain, GenSelect, GenSpike
      <4> QED BY <1>0, <1>1, <4>1, Zenon DEF FlagType
    <3> QED BY <2>1, <3>1, <3>2 DEF Gen
  <2>2. CASE ~Gen
    <3>1. handle' = handle
      BY <2>2 DEF Next, Start, Exit, Listener, StartModule, LoadAttribute,
           StoreAttribute, StoreStarted, StoreDone, StartThread, StartData, StopModule, ExitPut, ExitListener,
           ExitRemove, ExitClose, ExitStim, ExitRunning, ExitJoin, ServerPut,
           ServerBias, ServerListener, ServerBiasSend, Tick, vars
    <3> QED BY <1>0, <3>1, Zenon DEF FlagType
  <2> QED BY <2>1, <2>2
<1>4. elapsed' \in BOOLEAN
  <2>1. CASE GenTrain
    BY <2>1, Zenon DEF GenTrain
  <2>2. CASE ~GenTrain
    <3>1. elapsed' \in {elapsed, TRUE, FALSE}
      BY <2>2
         DEF Next, Start, Exit, Listener, Gen, StartModule, LoadAttribute,
           StoreAttribute, StoreStarted, StoreDone, StartThread, StartData, StopModule, ExitPut, ExitListener,
           ExitRemove, ExitClose, ExitStim, ExitRunning, ExitJoin, ServerPut,
           ServerBias, ServerListener, ServerBiasSend, GenLoop, GenStim,
           GenOnce, GenWrite, GenCheck, GenFinish, GenAgain, GenSelect,
           GenSpike, Tick, vars
    <3> QED BY <1>0, <3>1, Zenon DEF FlagType
  <2> QED BY <2>1, <2>2
<1> QED BY <1>2, <1>3, <1>4, Zenon DEF FlagType

\* A chip is selected whose number was put, or comes with a bias.
LEMMA BoardTypeStep == TInv /\ [Next]_vars => BoardType'
<1> SUFFICES ASSUME TInv, [Next]_vars PROVE BoardType'
  OBVIOUS
<1> USE DEF mainVars, serverVars, genVars, nodeVars, staticVars, history
<1>0. BoardType /\ PlaceType /\ StateType
  BY Zenon DEF TInv
<1>1. board' \in [open : BOOLEAN, selected : Chips]
  <2> DEFINE Boards == [open : BOOLEAN, selected : Chips]
  <2> SUFFICES board' \in Boards
    OBVIOUS
  <2>0. board \in Boards
    BY <1>0 DEF BoardType
  <2>1. \A c \in Chips : [board EXCEPT !.selected = c] \in Boards
    BY <2>0
  <2>2. /\ [board EXCEPT !.open = TRUE] \in Boards
        /\ [board EXCEPT !.open = FALSE] \in Boards
    BY <2>0
  <2>3. state["chip_id"] \in Chips
    BY <1>0, ValuesOf, TypesOf DEF StateType, Keys
  <2>4. [open : {TRUE}, selected : Chips] \subseteq Boards
    OBVIOUS
  <2> HIDE DEF Boards
  <2>5. CASE Start
    BY <2>0, <2>2, <2>4, <2>5
       DEF Start, StartModule, LoadAttribute,
           StoreAttribute, StoreStarted, StoreDone, StartThread, StartData
  <2>6. CASE Exit \/ StopModule
    BY <2>0, <2>2, <2>6
       DEF Exit, StopModule, ExitPut, ExitListener, ExitRemove, ExitClose,
           ExitStim, ExitRunning, ExitJoin
  <2>7. CASE ServerBias
    <3>1. PICK c \in Chips : board' = [board EXCEPT !.selected = c]
      BY <2>7 DEF ServerBias
    <3> QED BY <2>1, <3>1
  <2>8. CASE ServerPut \/ Listener \/ Tick \/ UNCHANGED vars
    <3>1. board' = board
      BY <2>8 DEF ServerPut, Listener, ServerListener, ServerBiasSend, Tick,
                  vars
    <3> QED BY <2>0, <3>1
  <2>9. CASE Gen
    <3>1. Select \in Boards
      BY <2>1, <2>3 DEF Select
    <3>2. ASSUME NEW stale, NEW effect \in Boards, Use(stale, effect)
          PROVE  board' \in Boards
      BY <2>0, <3>2 DEF Use
    <3>3. CASE GenOnce
      BY <2>0, <3>1, <3>2, <3>3 DEF GenOnce
    <3>4. CASE GenWrite
      BY <2>0, <3>2, <3>4 DEF GenWrite
    <3>5. CASE GenSelect
      BY <2>0, <3>1, <3>2, <3>5 DEF GenSelect
    <3>6. CASE GenSpike
      BY <2>0, <3>2, <3>6 DEF GenSpike
    <3>7. CASE \/ GenLoop \/ GenStim \/ GenTrain \/ GenCheck \/ GenFinish
               \/ GenAgain
      <4>1. board' = board
        BY <3>7 DEF GenLoop, GenStim, GenTrain, GenCheck, GenFinish, GenAgain
      <4> QED BY <2>0, <4>1
    <3> QED BY <2>9, <3>3, <3>4, <3>5, <3>6, <3>7 DEF Gen
  <2> QED BY <2>5, <2>6, <2>7, <2>8, <2>9 DEF Next
<1>2. made' \in [CommandSet -> BOOLEAN]
  <2>0. made \in [CommandSet -> BOOLEAN]
    BY <1>0 DEF BoardType
  <2>1. CASE made' = made
    BY <2>0, <2>1
  <2>2. ASSUME NEW c \in CommandSet, NEW v \in BOOLEAN,
               made' = [made EXCEPT ![c] = v]
        PROVE  made' \in [CommandSet -> BOOLEAN]
    BY <2>0, <2>2
  <2>3. CASE GenOnce /\ made' # made
    <3> DEFINE v == made[Commands[at]] /\ state[Commands[at]]
    <3>1. made' = [made EXCEPT ![Commands[at]] = v]
      BY <2>3 DEF GenOnce
    <3>2. Commands[at] \in CommandSet
      BY <1>0, <2>3, SpikeGeneratorAssumption DEF GenOnce, PlaceType,
         CommandSet
    <3>3. v \in BOOLEAN
      BY Zenon
    <3> HIDE DEF v
    <3> QED BY <2>2, <3>1, <3>2, <3>3
  <2>4. CASE GenWrite
    <3>1. made' = [made EXCEPT ![Commands[at]] = TRUE]
      BY <2>4 DEF GenWrite
    <3>2. Commands[at] \in CommandSet
      BY <1>0, <2>4, SpikeGeneratorAssumption DEF GenWrite, PlaceType,
         CommandSet
    <3> QED BY <2>2, <3>1, <3>2
  <2>5. CASE ~GenOnce /\ ~GenWrite
    <3>1. made' = made
      BY <2>5
         DEF Next, Start, Exit, Listener, Gen, StartModule, LoadAttribute,
           StoreAttribute, StoreStarted, StoreDone, StartThread, StartData, StopModule, ExitPut, ExitListener,
           ExitRemove, ExitClose, ExitStim, ExitRunning, ExitJoin, ServerPut,
           ServerBias, ServerListener, ServerBiasSend, GenLoop, GenStim,
           GenTrain, GenCheck, GenFinish, GenAgain, GenSelect, GenSpike, Tick,
           vars
    <3> QED BY <2>1, <3>1
  <2> QED BY <2>1, <2>3, <2>4, <2>5
<1> QED BY <1>1, <1>2 DEF BoardType

LEMMA RestsAreNotEmpty == <<>> \notin Rests
<1>1. ASSUME NEW a, NEW b PROVE <<a, b>> # <<>> /\ <<a>> # <<>>
  OBVIOUS
<1> QED BY <1>1 DEF Rests, StopStores

LEMMA TypesInit == Init => TInv
<1> SUFFICES ASSUME Init PROVE TInv
  OBVIOUS
<1>1. PICK on \in SUBSET {"doStim", "repeat"}, type \in StimTypes,
           duration \in Durations :
        attr = [k \in Keys |-> CASE k \in Switches      -> k \in on
                                 [] k = "stim_type"     -> type
                                 [] k = "stim_duration" -> duration
                                 [] k = "chip_id"       -> DefaultChip]
  BY DEF Init
<1>2. Keys = Switches \cup {"stim_type", "stim_duration", "chip_id"}
  BY DEF Keys
<1>3. DefaultChip \in Chips /\ MaxStarts \in Nat /\ MaxPuts \in Nat
  BY SpikeGeneratorAssumption
<1>4. ASSUME NEW k \in Keys PROVE attr[k] \in Values(k)
  <2>1. CASE k \in Switches
    <3>1. k \notin {"stim_type", "stim_duration", "chip_id"}
      BY <2>1, SwitchesAreApart
    <3>2. attr[k] = (k \in on)
      BY <1>1, <2>1, <3>1
    <3>3. attr[k] \in BOOLEAN
      <4>1. CASE k \in on
        <5>1. attr[k] = TRUE BY <3>2, <4>1
        <5> QED BY <5>1
      <4>2. CASE k \notin on
        <5>1. (k \in on) = FALSE BY <4>2
        <5>2. attr[k] = FALSE BY ONLY <3>2, <5>1
        <5> QED BY <5>2
      <4> QED BY <4>1, <4>2
    <3> QED BY <2>1, <3>3, ValuesOf
  <2>2. CASE k \notin Switches
    <3>1. CASE k = "stim_type"
      <4>1. attr[k] = type BY <1>1, <2>2, <3>1
      <4> QED BY <3>1, <4>1, ValuesOf
    <3>2. CASE k = "stim_duration"
      <4>1. attr[k] = duration BY <1>1, <2>2, <3>2
      <4> QED BY <3>2, <4>1, ValuesOf
    <3>3. CASE k = "chip_id"
      <4>1. attr[k] = DefaultChip BY <1>1, <2>2, <3>3
      <4> QED BY <1>3, <3>3, <4>1, ValuesOf
    <3> QED BY <1>2, <2>2, <3>1, <3>2, <3>3
  <2> QED BY <2>1, <2>2
<1>5. DOMAIN attr = Keys /\ main = "stopped" /\ call = NoCall
  BY <1>1 DEF Init
<1>6. NodeType
  <2>1. reading = 1 BY DEF Init
  <2> QED BY <1>4, <1>5, <2>1, InitKeys DEF NodeType
<1>7. CallType
  BY <1>5 DEF CallType
<1>8. StateType
  <2>1. state = [k \in Fields |-> IF k \in {"stim_type", "stim_duration", "chip_id"}
                                  THEN attr[k] ELSE FALSE]
    BY DEF Init
  <2>2. DOMAIN state = Fields
    BY <2>1
  <2>3. ASSUME NEW f \in Fields PROVE state[f] \in TypeOf(f)
    <3>1. CASE f \in {"stim_type", "stim_duration", "chip_id"}
      <4>1. state[f] = attr[f] BY <2>1, <3>1
      <4>2. f \in Keys BY <1>2, <3>1
      <4> QED BY <1>4, <4>1, <4>2, TypesOf
    <3>2. CASE f \notin {"stim_type", "stim_duration", "chip_id"}
      <4>1. state[f] = FALSE BY <2>1, <3>2
      <4>2. TypeOf(f) = BOOLEAN BY <1>2, <3>2, TypesOf
      <4> QED BY <4>1, <4>2
    <3> QED BY <3>1, <3>2
  <2> QED BY <2>2, <2>3 DEF StateType
<1>9. PlaceType
  <2>1. Commands \in Seq(STRING) /\ Commands # <<>>
    BY SpikeGeneratorAssumption
  <2>2. Len(Commands) \in Nat /\ Len(Commands) >= 1
    BY <2>1
  <2> QED BY <1>3, <2>2 DEF Init, PlaceType, MainPlaces, GenPlaces
<1>10. FlagType
  BY DEF Init, FlagType
<1>11. BoardType
  BY <1>3 DEF Init, BoardType
<1> QED
  BY <1>6, <1>7, <1>8, <1>9, <1>10, <1>11 DEF TInv

\* The thread's copies of the settings, the node, the command it looks at
\* and what a listener has left to store keep their types, with the stores
\* of both interleaved: a command is one of those there are, and no listener
\* is left without stores (gen_spikes.c:127, :183).
THEOREM TypeCorrect == Spec => []TypeOK
<1>1. TInv /\ PromptInv => TypeOK
  <2> SUFFICES ASSUME TInv, PromptInv PROVE TypeOK
    OBVIOUS
  <2>1. /\ DOMAIN state = Fields /\ \A k \in Keys : state[k] \in Values(k)
        /\ \A k \in Fields \ Keys : state[k] \in BOOLEAN
    BY TypesOf DEF TInv, StateType
  <2>2. /\ call.by \in {"nobody", "main", "server"}
        /\ call.by = "nobody" <=> call.stores = <<>>
    BY RestsAreNotEmpty DEF TInv, CallType, NoCall
  <2>3. late \in 0 .. 2
    BY DEF PromptInv
  <2> QED
    BY <2>1, <2>2, <2>3, Zenon
       DEF TInv, NodeType, PlaceType, FlagType, BoardType, TypeOK
<1>2. TInv /\ [Next]_vars => TInv'
  <2> SUFFICES ASSUME TInv, [Next]_vars PROVE TInv'
    OBVIOUS
  <2>1. StateType' /\ CallType'
    <3>0. StateType /\ CallType /\ NodeType /\ PlaceType
      BY DEF TInv
    <3>1. CASE StopModule \/ Tick \/ UNCHANGED vars
      <4>1. UNCHANGED <<state, call>> /\ (main' = main \/ main' # "exitListener")
        BY <3>1 DEF StopModule, Tick, vars, nodeVars, mainVars
      <4> QED BY <3>0, <4>1, QuietTypes
    <3> QED
      BY <3>0, <3>1, StartKeepsStateType, ExitKeepsStateType,
         ServerKeepsStateType, GenKeepsStateType DEF Next
  <2> QED
    BY <2>1, NodeTypeStep, PlaceTypeStep, FlagTypeStep, BoardTypeStep DEF TInv
<1> QED
  BY <1>1, <1>2, TypesInit, PromptInit, NextKeepsPrompt, PTL DEF Spec
=============================================================================
