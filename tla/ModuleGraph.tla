---------------------------- MODULE ModuleGraph ----------------------------
(***************************************************************************)
(* How the mainloop makes a graph of its modules and passes packets along  *)
(* it (base/mainloop.cpp, caerMainloopRunner and runModules).              *)
(*                                                                         *)
(* A configuration says which streams, <source, type>, a module takes, and *)
(* after which of the modules that modify them. From it follow: the active *)
(* streams and their users, a dependency tree per stream, one tree merged  *)
(* from all of them, the order of execution by levels of that tree, and    *)
(* the slots that packets are kept in during a pass, with a copy wherever  *)
(* a module modifies what a later one wants unmodified.                    *)
(*                                                                         *)
(* The trees are relations: "tree" gives the link above each link, which   *)
(* determines nodes, parents and depths. Links are module IDs, or dummies, *)
(* which are negative. Hash maps have no order: what depends on theirs is  *)
(* left open, the rest goes through the modules in order of their IDs.     *)
(***************************************************************************)
EXTENDS Integers, Sequences, FiniteSets, Functions, SequencesExt

CONSTANTS
  Ids,            \* the modules' IDs
  Types,          \* type IDs of packets
  Libraries,      \* for each module, what its library may declare (caerModuleInfo)
  InputChoices,   \* for each module, the parsed values of 'moduleInput'
  OutputChoices   \* the parsed values of 'moduleOutput', sequences of types

AnyType  == -1        \* any type, any number
None == -1        \* no module to come after; no slot
Root == 0         \* the node at the top of a tree

ModuleTypes == {"INPUT", "OUTPUT", "PROCESSOR"}
StreamIn    == [type : Int, number : Int, readOnly : BOOLEAN]
ModuleInfo  == [type : ModuleTypes, in : Seq(StreamIn), out : Seq(Int)]
Stream      == [source : Int, type : Int]
OrderedInput == [source : Int, type : Int, after : Int]

ASSUME ModuleGraphAssumption ==
  /\ Ids \subseteq Nat \ {0} /\ IsFiniteSet(Ids)
  /\ Types \subseteq Nat /\ IsFiniteSet(Types)
  /\ \A id \in Ids : /\ Libraries[id] \subseteq ModuleInfo
                     /\ \A i \in InputChoices[id] : i \subseteq OrderedInput /\ IsFiniteSet(i)
  /\ OutputChoices \subseteq Seq(Int)

VARIABLES
  stage,       \* what the runner does next, see GraphPlaces
  waiting,     \* modules the current loop has not handled yet
  unmerged,    \* streams whose trees are not merged yet; the one of "links" still is
  links,       \* links of a stream's tree that are still to be merged, in order
  info,        \* libraryInfo of the loaded modules
  definition,  \* inputDefinition of the modules parsed so far
  outputs,     \* outputs of the modules parsed so far: their types
  streams,     \* glMainloopData.streams
  tree,        \* mergeResult of mergeActiveStreamDeps
  order,       \* glMainloopData.globalExecution, as IDs
  position,    \* the module in the order that a loop has come to
  indexes,     \* streamIndexes: the slot of <source, type, after>
  nextFreeSlot,
  outSlots,    \* the slots of each module's outputs
  inputs,      \* inputs of each module: pairs of slot and slot to copy from
  packets,     \* glMainloopData.eventPackets
  ran,         \* history: modules that ran in this pass
  produced     \* history: streams that got a packet in this pass

libs  == <<info, outputs>>
slots == <<indexes, nextFreeSlot, outSlots, inputs>>
pass  == <<position, packets, ran, produced>>
merge == <<unmerged, links>>

graphVars ==
  <<stage, waiting, merge, libs, definition, streams, tree, order, slots, pass>>

GraphPlaces ==
  {"load", "inputs", "merge", "connect", "run", "stopped", "failed", "crashed"}

Least(S)  == CHOOSE x \in S : \A y \in S : x <= y
Sorted(S) == [k \in 1 .. Cardinality(S) |->
                CHOOSE x \in S : Cardinality({y \in S : y < x}) = k - 1]
Empty    == [x \in {} |-> {}]

With(f, x, y) == [z \in DOMAIN f \cup {x} |-> IF z = x THEN y ELSE f[z]]

----------------------------------------------------------------------------
(* What a library declares                                                 *)

InputOutputStreamsOK(i) ==
  CASE i.type = "INPUT"  -> i.in = <<>> /\ i.out # <<>>
    [] i.type = "OUTPUT" -> /\ i.in # <<>> /\ i.out = <<>>
                            /\ \A d \in Range(i.in) : d.readOnly
    [] OTHER             -> /\ i.in # <<>>
                            /\ i.out = <<>> => \E d \in Range(i.in) : ~ d.readOnly

\* Types ascend strictly, so there is one definition of each.
Ascending(types) == \A k \in 2 .. Len(types) : types[k - 1] < types[k]

InputStreamsOK(in) ==
  /\ \A d \in Range(in) :
       /\ d.type >= AnyType /\ d.number >= AnyType /\ d.number # 0
       /\ d.type = AnyType => d.number \in {AnyType, 1} /\ Len(in) = 1
  /\ Ascending([k \in DOMAIN in |-> in[k].type])

OutputStreamsOK(out) ==
  out = <<AnyType>> \/ (Ascending(out) /\ \A t \in Range(out) : t >= 0)

\* Which of the two attributes of a module must be there, or must not be.
AttributesOK(i, hasInput, hasOutput) ==
  /\ hasInput <=> i.type # "INPUT"
  /\ i.type = "OUTPUT" => ~ hasOutput
  /\ i.out = <<AnyType>> => hasOutput

LibraryOK(i, hasInput, hasOutput) ==
  /\ InputOutputStreamsOK(i)
  /\ InputStreamsOK(i.in)
  /\ OutputStreamsOK(i.out)
  /\ AttributesOK(i, hasInput, hasOutput)

----------------------------------------------------------------------------
(* Input and output definitions                                            *)

StreamOf(in) == [source |-> in.source, type |-> in.type]

\* 'moduleOutput' lists types, each once.
OutputTypesOK(types) ==
  /\ types # <<>>
  /\ \A t \in Range(types) : t >= 0
  /\ IsInjective(types)

\* 'moduleInput' lists streams that exist, each once, and after which processor.
ModuleInputOK(def) ==
  /\ def # {}
  /\ \A in \in def :
       /\ in.after # None => in.after \in Ids /\ info[in.after].type = "PROCESSOR"
       /\ StreamOf(in) \in streams
  /\ \A in, other \in def : StreamOf(in) = StreamOf(other) => in = other

TypeCount(def, t) == Cardinality({in \in def : in.type = t})

\* The streams a module takes are those its library declares.
MatchesStreamIn(def, in) ==
  IF in[1].type = AnyType
  THEN in[1].number = 1 => Cardinality(def) = 1
  ELSE /\ Cardinality({d.type : d \in def}) = Len(in)
       /\ \A d \in Range(in) : IF d.number = AnyType THEN TypeCount(def, d.type) >= 1
                                                 ELSE TypeCount(def, d.type) = d.number

\* A module modifies what its library does not declare to be read-only.
CopyNeeded(id, in) ==
  \E d \in Range(info[id].in) : ~ d.readOnly /\ d.type \in {AnyType, in.type}

Users(st) == {id \in DOMAIN definition : \E in \in definition[id] : StreamOf(in) = st}

InputsFrom(id, st) == {in \in definition[id] : StreamOf(in) = st}

\* The module to come after is a user of the stream too, and modifies it.
AfterOK(st) ==
  \A id \in Users(st) : \A in \in InputsFrom(id, st) :
    in.after # None => /\ in.after \in Users(st)
                       /\ CopyNeeded(in.after, in)

----------------------------------------------------------------------------
(* Dependency trees                                                        *)

\* The users right below one in a stream's tree, whose root is the source.
UsersAfter(st, a) ==
  {id \in Users(st) : \E in \in InputsFrom(id, st) :
     in.after = IF a = st.source THEN None ELSE a}

\* All the users below one.
Below(st, id) ==
  LET below[n \in 0 .. Cardinality(Ids)] ==
        IF n = 0 THEN UsersAfter(st, id)
        ELSE below[n - 1] \cup UNION {UsersAfter(st, a) : a \in below[n - 1]}
  IN  below[Cardinality(Ids)]

\* What mergeDependencyTrees goes through: the root link, and those below a link.
RootLink(st) == [stream |-> st, parent |-> None, id |-> st.source]

LinksBelow(link) ==
  LET users == Sorted(UsersAfter(link.stream, link.id))
  IN  [k \in DOMAIN users |-> [stream |-> link.stream, parent |-> link.id, id |-> users[k]]]

Above(t, link) ==
  LET above[l \in DOMAIN t] == IF t[l] = Root THEN {} ELSE {t[l]} \cup above[t[l]]
  IN  above[link]

Depth(t, link) == Cardinality(Above(t, link))

\* What IDExistsInDependencyTree finds from the parent of a link's node upwards: the
\* links above it, and all others in their nodes.
FoundAbove(t, link) == {l \in DOMAIN t : \E a \in Above(t, link) : t[l] = t[a]}

NewDummy(t) == Least(DOMAIN t \cup {Root}) - 1

\* The link becomes a dummy and moves to a new node below it, with all that is below.
PushDown(t, link) ==
  LET dummy == NewDummy(t)
  IN  [l \in DOMAIN t \cup {dummy} |->
         IF l = dummy THEN t[link] ELSE IF l = link THEN dummy ELSE t[l]]

\* If it takes more dummies, each is made to point to itself, and the link is lost.
LoseLink(t, link) ==
  LET dummy == NewDummy(t)
      lost  == {link} \cup {l \in DOMAIN t : link \in Above(t, l)}
  IN  [l \in (DOMAIN t \ lost) \cup {dummy} |-> IF l = dummy THEN t[link] ELSE t[l]]

----------------------------------------------------------------------------
(* Slots                                                                   *)

Copies(id) == Cardinality({in \in definition[id] : CopyNeeded(id, in)})

Position(id) == CHOOSE k \in DOMAIN order : order[k] = id

\* The copy is left out although a later module takes the data: a possible bug.
UsedNext(source, type, after, id) ==
  Position(id) < Len(order) /\
    LET next == order[Position(id) + 1]
    IN  next \in DOMAIN definition /\
          [source |-> source, type |-> type, after |-> after] \in definition[next]

\* A module that comes later takes the very same data: isOutputBeingUsed.
UsedLater(source, type, after, id) ==
  \E k \in Position(id) + 1 .. Len(order) :
    order[k] \in DOMAIN definition /\
      [source |-> source, type |-> type, after |-> after] \in definition[order[k]]

\* What is in a slot: a stream as its source puts it out, or as a module has left it.
Output(id, t)  == [source |-> id, type |-> t, after |-> None]
Result(in, id) == [source |-> in.source, type |-> in.type, after |-> id]

DefinitionOf(id) == IF id \in DOMAIN definition THEN definition[id] ELSE {}

Taken(id)   == {t \in outputs[id] : [source |-> id, type |-> t] \in streams}
Changed(id) == {in \in DefinitionOf(id) : CopyNeeded(id, in)}
Copied(id)  == {in \in Changed(id) : UsedLater(in.source, in.type, in.after, id)}

\* The data of a module that gets slots of its own: its outputs, and its copies.
NewData(id) == {Output(id, t) : t \in Taken(id)} \cup {Result(in, id) : in \in Copied(id)}

\* The next free ones, in some order.
NewSlots(id) ==
  CHOOSE slot \in Bijection(NewData(id),
                            nextFreeSlot .. nextFreeSlot + Cardinality(NewData(id)) - 1) : TRUE

NoPacket == [source |-> None, type |-> None, writers |-> {}]

----------------------------------------------------------------------------

GraphInit ==
  /\ stage = "load" /\ waiting = Ids /\ unmerged = {} /\ links = <<>>
  /\ info = Empty /\ definition = Empty /\ outputs = Empty /\ streams = {}
  /\ tree = Empty /\ order = <<>> /\ position = 1
  /\ indexes = Empty /\ nextFreeSlot = 0 /\ outSlots = Empty /\ inputs = Empty
  /\ packets = <<>> /\ ran = {} /\ produced = {}

\* cleanupGlobals
Cleanup ==
  /\ info' = Empty /\ definition' = Empty /\ outputs' = Empty /\ streams' = {}
  /\ tree' = Empty /\ order' = <<>> /\ position' = 1
  /\ indexes' = Empty /\ nextFreeSlot' = 0 /\ outSlots' = Empty /\ inputs' = Empty
  /\ packets' = <<>> /\ ran' = {} /\ produced' = {}
  /\ waiting' = {} /\ unmerged' = {} /\ links' = <<>>

Fail(place) == stage' = place /\ Cleanup

\* One library is loaded and checked; "outputs" is parsed from its declaration or from
\* 'moduleOutput'. An error ends the start, whichever module has it.
LoadModule ==
  /\ stage = "load" /\ waiting # {}
  /\ LET id == Least(waiting) IN
     \E lib \in Libraries[id], hasInput \in BOOLEAN, given \in OutputChoices \cup {<<None>>} :
       LET hasOutput == given # <<None>>
           types     == IF lib.out = <<AnyType>> THEN given ELSE lib.out
           valid     == /\ LibraryOK(lib, hasInput, hasOutput)
                        /\ lib.out = <<AnyType>> => OutputTypesOK(given)
       IN  IF valid
           THEN /\ waiting' = waiting \ {id}
                /\ info' = With(info, id, lib)
                /\ outputs' = With(outputs, id, Range(types))
                /\ UNCHANGED <<merge, stage, definition, streams, tree, order, slots, pass>>
           ELSE Fail("failed")

\* With all of them loaded, there must be an INPUT and an OUTPUT; streams are what
\* INPUTs and PROCESSORs put out.
ParseOutputs ==
  /\ stage = "load" /\ waiting = {}
  /\ IF \A type \in {"INPUT", "OUTPUT"} : \E id \in Ids : info[id].type = type
     THEN /\ streams' = UNION {{[source |-> id, type |-> t] : t \in outputs[id]} : id \in Ids}
          /\ stage' = "inputs"
          /\ waiting' = {id \in Ids : info[id].type # "INPUT"}
          /\ UNCHANGED <<merge, libs, definition, tree, order, slots, pass>>
     ELSE Fail("failed")

ParseInput ==
  /\ stage = "inputs" /\ waiting # {}
  /\ LET id == Least(waiting) IN
     \E def \in InputChoices[id] :
       IF ModuleInputOK(def) /\ MatchesStreamIn(def, info[id].in)
       THEN /\ waiting' = waiting \ {id}
            /\ definition' = With(definition, id, def)
            /\ UNCHANGED <<merge, stage, libs, streams, tree, order, slots, pass>>
       ELSE Fail("failed")

\* Streams nobody takes are dropped. Every INPUT must be left with one, the modules to
\* come after must modify the stream, and no module may take what it puts out.
CheckStreams ==
  /\ stage = "inputs" /\ waiting = {}
  /\ LET active == {st \in streams : Users(st) # {}} IN
     IF /\ \A id \in Ids : info[id].type = "INPUT" => \E st \in active : st.source = id
        /\ \A st \in active : AfterOK(st) /\ st.source \notin Users(st)
     THEN /\ streams' = active /\ unmerged' = active /\ links' = <<>>
          /\ stage' = "merge"
          /\ UNCHANGED <<waiting, libs, definition, tree, order, slots, pass>>
     ELSE Fail("failed")

\* The streams of INPUTs come before those of PROCESSORs, and those of a module together.
NextStreams ==
  LET fromInputs == {st \in unmerged : info[st.source].type = "INPUT"}
      begun      == {st \in unmerged : \E other \in streams \ unmerged : other.source = st.source}
  IN  IF begun # {} THEN begun ELSE IF fromInputs # {} THEN fromInputs ELSE unmerged

\* orderActiveStreamDeps makes the stream's tree, and merging starts at its root.
MergeStream ==
  /\ stage = "merge" /\ links = <<>>
  /\ \E st \in NextStreams :
       /\ links' = <<RootLink(st)>>
       /\ unmerged' = unmerged \ {st}
  /\ UNCHANGED <<stage, waiting, libs, definition, streams, tree, order, slots, pass>>

\* One link is merged, and those below it take their places at the end of the queue.
MergeLink ==
  /\ stage = "merge" /\ links # <<>>
  /\ LET id == links[1].id
         up == links[1].parent
         Merged(t) ==
           /\ tree' = t
           /\ links' = Tail(links) \o LinksBelow(links[1])
           /\ UNCHANGED <<stage, waiting, unmerged, libs, definition, streams, order, slots, pass>>
     IN  IF id \notin DOMAIN tree
         THEN IF up = None THEN Merged(With(tree, id, Root))
              ELSE IF up \in DOMAIN tree THEN Merged(With(tree, id, up))
              ELSE Fail("crashed")
         ELSE IF Below(links[1].stream, id) \cap FoundAbove(tree, id) # {} THEN Fail("failed")
              ELSE IF up = None THEN Merged(tree)
              ELSE IF up \notin DOMAIN tree THEN Fail("crashed")
              ELSE IF Depth(tree, up) < Depth(tree, id) THEN Merged(tree)
              ELSE IF Depth(tree, up) = Depth(tree, id) THEN Merged(PushDown(tree, id))
              ELSE Merged(LoseLink(tree, id))

\* By levels of the tree; in a level, modules that need fewer copies first.
OrderModules ==
  /\ stage = "merge" /\ unmerged = {} /\ links = <<>>
  /\ LET ids     == DOMAIN tree \cap Ids
         rank    == [id \in ids |-> IF id \in DOMAIN definition THEN Copies(id) ELSE 0]
         depth   == [id \in ids |-> Depth(tree, id)]
     IN  \E seq \in SetToSeqs(ids) :
           /\ \A k \in 2 .. Len(seq) :
                \/ depth[seq[k - 1]] < depth[seq[k]]
                \/ depth[seq[k - 1]] = depth[seq[k]] /\ rank[seq[k - 1]] <= rank[seq[k]]
           /\ order' = seq
  /\ tree' = Empty
  /\ stage' = "connect"
  /\ UNCHANGED <<merge, waiting, libs, definition, streams, slots, pass>>

\* Slots for the outputs of the next module that somebody takes, and for its inputs: a
\* module that modifies data another one takes later gets a copy in a slot of its own.
ConnectModule ==
  /\ stage = "connect" /\ position <= Len(order)
  /\ LET id   == order[position]
         new  == NewSlots(id)
         Same(data) == CHOOSE in \in Changed(id) : StreamOf(in) = StreamOf(data)
         Input(in)  == IF in \in Copied(id) THEN <<new[Result(in, id)], indexes[in]>>
                                            ELSE <<indexes[in], None>>
     IN  IF DefinitionOf(id) \subseteq DOMAIN indexes
         THEN /\ outSlots' = With(outSlots, id,
                   [t \in outputs[id] |-> IF t \in Taken(id) THEN new[Output(id, t)] ELSE None])
              /\ inputs' = With(inputs, id, {Input(in) : in \in DefinitionOf(id)})
              /\ indexes' = [data \in DOMAIN indexes \cup NewData(id)
                                        \cup {Result(in, id) : in \in Changed(id)} |->
                               IF data \in NewData(id) THEN new[data]
                               ELSE IF data.after = id THEN indexes[Same(data)]
                               ELSE indexes[data]]
              /\ nextFreeSlot' = nextFreeSlot + Cardinality(NewData(id))
              /\ position' = position + 1
              /\ UNCHANGED <<merge, stage, waiting, libs, definition, streams, tree, order,
                             packets, ran, produced>>
         ELSE Fail("failed")

\* The check for users of the modified data is left out: a possible bug.
IsThere(id) == id \in Range(order)

\* isOutputBeingUsed throws for modules that are not executed, and for the others the
\* outputs or the modified data must have a user that is executed later.
IsUseful(id) ==
  /\ id \in Range(order)
  /\ \/ \E t \in outputs[id] : outSlots[id][t] # None
     \/ \E in \in definition[id] : CopyNeeded(id, in) /\ UsedLater(in.source, in.type, id, id)

CheckProcessors ==
  /\ stage = "connect" /\ position = Len(order) + 1
  /\ IF \A id \in Ids : info[id].type = "PROCESSOR" => IsUseful(id)
     THEN /\ stage' = "run" /\ position' = 1
          /\ packets' = [slot \in 0 .. nextFreeSlot - 1 |-> NoPacket]
          /\ UNCHANGED <<merge, waiting, libs, definition, streams, tree, order, slots, ran,
                         produced>>
     ELSE Fail("failed")

\* The packets a module is given, by slot: its own copies, or those in the slots themselves.
Given(id) == {<<in[1], packets[IF in[2] = None THEN in[1] ELSE in[2]]>> : in \in inputs[id]}

Modified(id, p) ==
  IF p # NoPacket /\ CopyNeeded(id, p) THEN [p EXCEPT !.writers = @ \cup {id}] ELSE p

Store(content, pairs) ==
  [slot \in DOMAIN content |->
     IF \E p \in pairs : p[1] = slot THEN (CHOOSE p \in pairs : p[1] = slot)[2] ELSE content[slot]]

\* A module that runs modifies what it may, and puts out packets of its own. Modules that
\* may put out anything can make packets nobody declared, which are freed.
PassPackets ==
  /\ stage = "run" /\ position <= Len(order)
  /\ LET id == order[position] IN
     \E runs \in BOOLEAN :
     \E made \in SUBSET (IF ~ runs \/ outputs[id] = {} THEN {}
                         ELSE IF info[id].out = <<AnyType>> THEN Types ELSE outputs[id]) :
       LET stored == {t \in made \cap outputs[id] : outSlots[id][t] # None}
           seen   == {<<g[1], IF runs THEN Modified(id, g[2]) ELSE g[2]>> : g \in Given(id)}
           own    == {<<outSlots[id][t], [source |-> id, type |-> t, writers |-> {}]>> :
                        t \in stored}
       IN  /\ packets' = Store(Store(packets, seen), own)
           /\ ran' = IF runs THEN ran \cup {id} ELSE ran
           /\ produced' = produced \cup {[source |-> id, type |-> t] : t \in stored}
  /\ position' = position + 1
  /\ UNCHANGED <<merge, stage, waiting, libs, definition, streams, tree, order, slots>>

\* The packets of the pass are freed.
FreePackets ==
  /\ stage = "run" /\ position = Len(order) + 1
  /\ packets' = [slot \in DOMAIN packets |-> NoPacket]
  /\ position' = 1 /\ ran' = {} /\ produced' = {}
  /\ UNCHANGED <<merge, stage, waiting, libs, definition, streams, tree, order, slots>>

Stop == stage = "run" /\ position = 1 /\ Fail("stopped")

\* The mainloop, or the program, is started again, maybe with another configuration.
Restart ==
  /\ stage \in {"stopped", "failed", "crashed"}
  /\ stage' = "load" /\ waiting' = Ids
  /\ UNCHANGED <<merge, libs, definition, streams, tree, order, slots, pass>>

GraphNext ==
  \/ LoadModule \/ ParseOutputs \/ ParseInput \/ CheckStreams
  \/ MergeStream \/ MergeLink \/ OrderModules
  \/ ConnectModule \/ CheckProcessors
  \/ PassPackets \/ FreePackets \/ Stop \/ Restart

GraphSpec == GraphInit /\ [][GraphNext]_graphVars

----------------------------------------------------------------------------
(* Properties                                                              *)

GraphTypeOK ==
  /\ stage \in GraphPlaces
  /\ waiting \subseteq Ids /\ unmerged \subseteq streams
  /\ DOMAIN info \subseteq Ids /\ DOMAIN definition \subseteq Ids
  /\ \A id \in DOMAIN info : info[id] \in Libraries[id]
  /\ \A id \in DOMAIN definition : definition[id] \in InputChoices[id]
  /\ streams \subseteq [source : Ids, type : Int]
  /\ order \in Seq(Ids) /\ position \in 1 .. Len(order) + 1
  /\ Range(indexes) = 0 .. nextFreeSlot - 1
  /\ DOMAIN packets \subseteq 0 .. nextFreeSlot - 1
  /\ ran \subseteq Ids /\ produced \subseteq streams

\* The modules whose changes are in the data a module takes after module a: the least set
\* with that module and the ones its modules come after.
Chain(st, a) ==
  {m \in DOMAIN definition :
     \A S \in SUBSET DOMAIN definition :
       /\ a \in S \cup {None}
       /\ \A id \in S : \A in \in InputsFrom(id, st) : in.after \in S \cup {None}
       => m \in S}

\* A module is given a packet of every stream of its definition that has one, changed by
\* all the modules before its tap that ran, and by no other: slots are shared and copied
\* so that nobody sees changes it did not ask for, or misses one.
DataAsDeclared ==
  stage = "run" /\ position <= Len(order) /\ order[position] \in DOMAIN definition =>
    LET id == order[position] IN
    {g[2] : g \in Given(id)} \ {NoPacket} =
      {[source |-> in.source, type |-> in.type,
        writers |-> Chain(StreamOf(in), in.after) \cap ran] :
         in \in {i \in definition[id] : StreamOf(i) \in produced}}

\* The modules that take what a module puts out or modifies, and come later.
Consumers(id) ==
  {user \in DOMAIN definition \cap Range(order) :
     /\ Position(user) > Position(id)
     /\ \E in \in definition[user] : in.source = id \/ in.after = id}

\* In a graph that runs, every module is executed at most once; and if no OUTPUT lost its
\* place (LoseLink), then every processor is executed and what it does gets to an OUTPUT
\* through modules that are executed after one another: it is in the least set with the
\* OUTPUTs and all that have a consumer in the set.
ProcessorsReachOutputs ==
  stage = "run" /\ position = 1 =>
    /\ IsInjective(order)
    /\ DOMAIN definition \subseteq Range(order) =>
         \A S \in SUBSET Range(order) :
           /\ \A id \in Range(order) :
                info[id].type = "OUTPUT" \/ Consumers(id) \cap S # {} => id \in S
           => \A id \in Ids : info[id].type = "PROCESSOR" => id \in S
=============================================================================
