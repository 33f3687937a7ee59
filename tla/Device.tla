------------------------------- MODULE Device -------------------------------
(***************************************************************************)
(* The camera modules (modules/ini/davis_common.c, dvs128.c, edvs.c):      *)
(* drivers that open a device through libcaer, send it the settings of the *)
(* configuration tree, start its data and from then on follow the tree     *)
(* with listeners, one per node.                                           *)
(*                                                                         *)
(* Actors: the mainloop (caerModuleSM with Init and Exit), the             *)
(* configuration server's thread (puts, and listeners under the lock of    *)
(* their node), the thread libcaer starts for the data, which also runs    *)
(* the automatic exposure, and whoever pulls the plug.                     *)
(*                                                                         *)
(* A setting is its node and its name. Settings do not depend on each      *)
(* other but for those the code itself relates; so clients touch a few of  *)
(* them only ("watched"), chosen in the initial state together with the    *)
(* driver, and every node has one setting for each way in which the code   *)
(* treats settings. Booleans are 0 and 1, as libcaer takes them.           *)
(*                                                                         *)
(* Attributes are there from the start (a configuration file), so that     *)
(* createDefaultConfiguration changes none of them. Those that only notify *)
(* (TimestampReset, TakeSnapShot) keep no value and are left out. What Run *)
(* does with data and resets is part of ModuleGraph and OutputPipeline.    *)
(***************************************************************************)
EXTENDS Integers, Sequences, FiniteSets

CONSTANTS
  Watched,    \* the choices of a driver and the settings clients put
  MaxPuts,    \* settings clients put
  MaxPulls    \* times the device is pulled

Drivers == {"DAVIS", "DVS128", "EDVS"}

-----------------------------------------------------------------------------
(* The settings each node sends, and what its listener makes of a put.     *)

CoarseFine     == {<<"bias", "coarseValue">>, <<"bias", "fineValue">>}
SSN            == <<"bias", "SSN">>      \* of a DAVIS240
BiasSettings   == CoarseFine \cup {SSN}
ChipSettings   == {<<"chip", "DigitalMux0">>}
MuxSettings    == {<<"mux", "Run">>}
DVSSettings    == {<<"dvs", "Run">>}
Exposure       == <<"aps", "Exposure">>
AutoExposure   == <<"aps", "AutoExposure">>
TransferTime   == <<"aps", "TransferTime">>
APSSettings    == {Exposure, AutoExposure, TransferTime}
Standby        == {<<"imu", "AccelXStandby">>, <<"imu", "AccelYStandby">>}
SampleRate     == <<"imu", "SampleRateDivider">>
IMUSettings    == Standby \cup {SampleRate}
RisingEdges2   == <<"ext", "DetectRisingEdges2">>
ExtSettings    == {<<"ext", "RunDetector">>, RisingEdges2}
USBSettings    == {<<"usb", "Run">>}
BufferSize     == <<"system", "DataExchangeBufferSize">>
SystemSettings == {<<"system", "PacketContainerInterval">>, BufferSize}
LogSettings    == {<<"log", "logLevel">>}

\* A DVS128 and an eDVS send, and hear, everything as it is.
DVS128Settings ==
  {<<"bias", "cas">>, <<"dvs", "Run">>, <<"usb", "BufferSize">>}
EDVSSettings ==
  {<<"bias", "cas">>, <<"dvs", "Run">>, <<"serial", "ReadSize">>}

SettingsOf(driver) ==
  SystemSettings \cup LogSettings \cup
  CASE driver = "DAVIS"  -> BiasSettings \cup ChipSettings \cup MuxSettings
                            \cup DVSSettings \cup APSSettings \cup IMUSettings
                            \cup ExtSettings \cup USBSettings
    [] driver = "DVS128" -> DVS128Settings
    [] driver = "EDVS"   -> EDVSSettings

ASSUME DeviceAssumption ==
  /\ \A w \in Watched : /\ w.driver \in Drivers
                        /\ w.settings \subseteq SettingsOf(w.driver)
                        /\ Exposure \in w.settings <=> AutoExposure \in w.settings
  /\ MaxPuts \in Nat /\ MaxPulls \in Nat

\* Two legal values, the second one too long for the type the listener reads.
Values(s) ==
  CASE s = TransferTime -> {1500, 40000}
    [] s = SampleRate   -> {0, 200}
    [] OTHER            -> {0, 1}

\* The members ishort and ibyte of a union that holds a longer value.
AsShort(v) == ((v + 32768) % 65536) - 32768
AsByte(v)  == ((v + 128) % 256) - 128

One(s, value) == [t \in {s} |-> value]

\* For attributes a and the setting s that was put: the settings a listener
\* sends, and their values. A bias and the axes of a sensor are sent whole.
biasConfigListener(a, s) ==
  IF s \in CoarseFine THEN [t \in CoarseFine \cap DOMAIN a |-> a[t]]
  ELSE IF s = SSN THEN <<>> ELSE One(s, a[s])
chipConfigListener(a, s)   == One(s, a[s])
muxConfigListener(a, s)    == One(s, a[s])
dvsConfigListener(a, s)    == One(s, a[s])
apsConfigListener(a, s)    ==
  One(s, IF s = TransferTime THEN AsShort(a[s]) ELSE a[s])
imuConfigListener(a, s)    ==
  IF s \in Standby THEN [t \in Standby \cap DOMAIN a |-> a[t]]
  ELSE One(s, IF s = SampleRate THEN AsByte(a[s]) ELSE a[s])
extInputConfigListener(a, s) ==
  IF s = RisingEdges2 THEN <<>> ELSE One(s, a[s])
usbConfigListener(a, s)    == One(s, a[s])
serialConfigListener(a, s) == One(s, a[s])
systemConfigListener(a, s) == IF s = BufferSize THEN <<>> ELSE One(s, a[s])
logLevelListener(a, s)     == One(s, a[s])

Listener(a, s) ==
  CASE s[1] = "bias"   -> biasConfigListener(a, s)
    [] s[1] = "chip"   -> chipConfigListener(a, s)
    [] s[1] = "mux"    -> muxConfigListener(a, s)
    [] s[1] = "dvs"    -> dvsConfigListener(a, s)
    [] s[1] = "aps"    -> apsConfigListener(a, s)
    [] s[1] = "imu"    -> imuConfigListener(a, s)
    [] s[1] = "ext"    -> extInputConfigListener(a, s)
    [] s[1] = "usb"    -> usbConfigListener(a, s)
    [] s[1] = "serial" -> serialConfigListener(a, s)
    [] s[1] = "system" -> systemConfigListener(a, s)
    [] s[1] = "log"    -> logLevelListener(a, s)

\* The order in which Init sends the settings, and that in which it listens
\* to their nodes. Exit stops listening to the module's own node first.
SendOrder ==
  [DAVIS  |-> <<<<"log", "logLevel">>, <<"bias", "coarseValue">>,
                <<"bias", "fineValue">>, SSN, <<"chip", "DigitalMux0">>,
                <<"system", "PacketContainerInterval">>, BufferSize,
                <<"usb", "Run">>, <<"mux", "Run">>, <<"dvs", "Run">>,
                Exposure, AutoExposure, TransferTime,
                <<"imu", "AccelXStandby">>, <<"imu", "AccelYStandby">>,
                SampleRate, <<"ext", "RunDetector">>, RisingEdges2>>,
   DVS128 |-> <<<<"log", "logLevel">>, <<"bias", "cas">>,
                <<"system", "PacketContainerInterval">>, BufferSize,
                <<"usb", "BufferSize">>, <<"dvs", "Run">>>>,
   EDVS   |-> <<<<"log", "logLevel">>, <<"bias", "cas">>,
                <<"system", "PacketContainerInterval">>, BufferSize,
                <<"serial", "ReadSize">>, <<"dvs", "Run">>>>]

ListenOrder ==
  [DAVIS  |-> <<"chip", "mux", "dvs", "aps", "imu", "ext", "usb", "system",
                "bias", "log">>,
   DVS128 |-> <<"bias", "dvs", "usb", "system", "log">>,
   EDVS   |-> <<"bias", "dvs", "serial", "system", "log">>]

RemoveOrder == [d \in Drivers |-> <<"log">> \o ListenOrder[d]]

-----------------------------------------------------------------------------
VARIABLES
  driver,      \* the module
  settings,    \* the settings clients put
  restarts,    \* the module's autoRestart attribute
  attribute,   \* the settings in the configuration tree
  runs,        \* the module's running attribute
  sourceInfo,  \* sourceInfo/ describes the device
  listening,   \* the nodes with a listener
  plugged,     \* a device can be opened
  handle,      \* libcaer's handle: "closed", "open", "dead" (device gone)
  device,      \* the settings of the device and of libcaer's handle
  thread,      \* libcaer's data thread: "off", "running", "ended"
  pc, todo,    \* the mainloop's step in Init or Exit, and what it has left
  serverPc,    \* the server, inside a listener of aps/ or not
  got,         \* the exposure the mainloop and the server have read
  puts, pulls, \* bounds
  late,        \* history: settings put after they were sent, not heard
  drifted,     \* history: the exposure changed since Exit read it
  overruled    \* history: the last client to put running stopped the module, or
               \* put the FALSE of a device that is gone back to TRUE

module   == <<driver, settings, restarts>>
tree     == <<attribute, runs, sourceInfo, listening>>
hardware == <<plugged, handle, device, thread>>
steps    == <<pc, todo, serverPc, got>>
history  == <<puts, pulls, late, drifted, overruled>>
deviceVars     == <<module, tree, hardware, steps, history>>

Nodes == {s[1] : s \in settings}

\* The first of what is left, in an order of the driver.
IsFirst(order, x) ==
  \E i \in DOMAIN order[driver] :
    /\ order[driver][i] = x
    /\ \A j \in 1 .. i - 1 : order[driver][j] \notin todo

DeviceInit ==
  /\ \E w \in Watched : driver = w.driver /\ settings = w.settings
  /\ restarts \in BOOLEAN /\ runs \in BOOLEAN
  /\ attribute \in {f \in [settings -> UNION {Values(s) : s \in settings}] :
                      \A s \in settings : f[s] \in Values(s)}
  /\ plugged \in BOOLEAN
  /\ device = attribute
  /\ sourceInfo = FALSE /\ listening = {}
  /\ handle = "closed" /\ thread = "off"
  /\ pc = "stopped" /\ todo = {} /\ serverPc = "idle"
  /\ got = [main |-> 0, server |-> 0]
  /\ puts = 0 /\ pulls = 0
  /\ late = {} /\ drifted = TRUE /\ overruled = ~runs

-----------------------------------------------------------------------------
(* The mainloop: caerModuleSM calls Init, and Exit, of the module.         *)

\* Init opens the device, whose settings may be any, and describes it.
OpenDevice ==
  /\ pc = "stopped" /\ runs /\ plugged
  /\ handle' = "open"
  /\ device' \in {f \in [settings -> UNION {Values(s) : s \in settings}] :
                    \A s \in settings : f[s] \in Values(s)}
  /\ sourceInfo' = TRUE
  /\ pc' = "send" /\ todo' = settings
  /\ drifted' = TRUE
  /\ UNCHANGED <<module, attribute, runs, listening, plugged, thread,
                 serverPc, got, puts, pulls, late, overruled>>

\* Mutant: an attribute is sent when Init has its default already.
SendUnlessDefault ==
  /\ pc = "send"
  /\ \E s \in todo :
       /\ IsFirst(SendOrder, s)
       /\ device' = IF attribute[s] = 0 THEN device
                    ELSE [device EXCEPT ![s] = attribute[s]]
       /\ late' = late \ {s}
       /\ todo' = todo \ {s}
  /\ UNCHANGED <<module, tree, plugged, handle, thread, pc, serverPc, got,
                 puts, pulls, drifted, overruled>>

\* sendDefaultConfiguration: one attribute after the other; a device that is
\* gone takes none.
SendSetting ==
  /\ pc = "send"
  /\ \E s \in todo :
       /\ IsFirst(SendOrder, s)
       /\ device' = [device EXCEPT ![s] = attribute[s]]
       /\ late' = late \ {s}
       /\ todo' = todo \ {s}
  /\ UNCHANGED <<module, tree, plugged, handle, thread, pc, serverPc, got,
                 puts, pulls, drifted, overruled>>

\* caerDeviceDataStart. If it fails the device is closed and caerModuleSM
\* tries again; sourceInfo/ stays.
StartData ==
  /\ pc = "send" /\ todo = {}
  /\ \/ /\ thread' = "running" /\ pc' = "listen" /\ todo' = Nodes
        /\ UNCHANGED handle
     \/ /\ handle = "dead"
        /\ handle' = "closed" /\ pc' = "stopped"
        /\ UNCHANGED <<thread, todo>>
  /\ UNCHANGED <<module, tree, plugged, device, serverPc, got, history>>

\* Listeners come last. Init ends after the last one.
Listen ==
  /\ pc = "listen"
  /\ \/ todo = {} /\ pc' = "run" /\ UNCHANGED <<listening, todo>>
     \/ /\ \E n \in todo :
             /\ IsFirst(ListenOrder, n)
             /\ listening' = listening \cup {n}
             /\ todo' = todo \ {n}
        /\ UNCHANGED pc
  /\ UNCHANGED <<module, attribute, runs, sourceInfo, hardware, serverPc,
                 got, history>>

\* caerModuleSM finds the module stopped and calls Exit.
Exit ==
  /\ pc = "run" /\ ~runs
  /\ pc' = "remove" /\ todo' = Nodes
  /\ UNCHANGED <<module, tree, hardware, serverPc, got, history>>

\* Removal waits for the lock of the node, which a listener runs under.
RemoveListener ==
  /\ pc = "remove"
  /\ \E n \in todo :
       /\ IsFirst(RemoveOrder, n)
       /\ n = "aps" => serverPc = "idle"
       /\ listening' = listening \ {n}
       /\ todo' = todo \ {n}
  /\ UNCHANGED <<module, attribute, runs, sourceInfo, hardware, pc,
                 serverPc, got, history>>

\* updateExposureValue reads the exposure (of a DAVIS only) ...
GetExposure ==
  /\ pc = "remove" /\ todo = {}
  /\ IF Exposure \in settings /\ handle = "open"
     THEN /\ got' = [got EXCEPT !.main = device[Exposure]]
          /\ drifted' = FALSE
          /\ pc' = "putExposure"
     ELSE pc' = "stopData" /\ UNCHANGED <<got, drifted>>
  /\ UNCHANGED <<module, tree, hardware, todo, serverPc, puts, pulls, late,
                 overruled>>

\* Mutant: the exposure is put if the tree has automatic exposure only.
PutAutoExposure ==
  /\ pc = "putExposure"
  /\ attribute' = IF attribute[AutoExposure] = 1
                  THEN [attribute EXCEPT ![Exposure] = got.main] ELSE attribute
  /\ got' = [got EXCEPT !.main = 0]
  /\ pc' = "stopData"
  /\ UNCHANGED <<module, runs, sourceInfo, listening, hardware, todo,
                 serverPc, history>>

\* ... and puts it.
PutExposure ==
  /\ pc = "putExposure"
  /\ attribute' = [attribute EXCEPT ![Exposure] = got.main]
  /\ got' = [got EXCEPT !.main = 0]
  /\ pc' = "stopData"
  /\ UNCHANGED <<module, runs, sourceInfo, listening, hardware, todo,
                 serverPc, history>>

\* caerDeviceDataStop joins the data thread.
StopData ==
  /\ pc = "stopData"
  /\ thread' = "off"
  /\ pc' = "close"
  /\ UNCHANGED <<module, tree, plugged, handle, device, todo, serverPc, got,
                 history>>

Close ==
  /\ pc = "close"
  /\ handle' = "closed" /\ sourceInfo' = FALSE
  /\ pc' = "restart"
  /\ UNCHANGED <<module, attribute, runs, listening, plugged, device,
                 thread, todo, serverPc, got, history>>

\* Mutant: a module that restarts leaves its attribute alone.
StayStopped ==
  /\ pc = "restart"
  /\ pc' = "stopped"
  /\ UNCHANGED <<module, tree, hardware, todo, serverPc, got, history>>

\* "Prime input module again so that it will try to restart".
Restart ==
  /\ pc = "restart"
  /\ runs' = (runs \/ restarts)
  /\ pc' = "stopped"
  /\ UNCHANGED <<module, attribute, sourceInfo, listening, hardware, todo,
                 serverPc, got, history>>

Mainloop ==
  OpenDevice \/ SendSetting \/ StartData \/ Listen \/ Exit \/ RemoveListener
  \/ GetExposure \/ PutExposure \/ StopData \/ Close \/ Restart

-----------------------------------------------------------------------------
(* The server's thread.                                                    *)

\* The settings of the device after some are sent.
After(sent) ==
  [s \in settings |-> IF s \in DOMAIN sent THEN sent[s] ELSE device[s]]

\* A put of another value calls the node's listener under the node's lock.
\* At the end of automatic exposure that listener goes on with
\* updateExposureValue.
Put(s, v) ==
  /\ puts < MaxPuts /\ serverPc = "idle"
  /\ attribute[s] # v
  /\ attribute' = [attribute EXCEPT ![s] = v]
  /\ IF s[1] \in listening
     THEN \E sent \in {Listener(attribute', s)} :
            /\ device' = After(sent)
            /\ late' = late \ DOMAIN sent
            /\ serverPc' = IF s = AutoExposure /\ v = 0 THEN "getExposure"
                           ELSE serverPc
     ELSE /\ late' = IF pc = "listen" \/ (pc = "send" /\ s \notin todo)
                     THEN late \cup {s} ELSE late
          /\ UNCHANGED <<device, serverPc>>
  /\ drifted' = (drifted \/ s = Exposure)
  /\ puts' = puts + 1
  /\ UNCHANGED <<module, runs, sourceInfo, listening, plugged, handle,
                 thread, pc, todo, got, pulls, overruled>>

PutRunning(b) ==
  /\ puts < MaxPuts /\ serverPc = "idle"
  /\ runs # b
  /\ runs' = b
  /\ overruled' = (~b \/ thread = "ended")
  /\ puts' = puts + 1
  /\ UNCHANGED <<module, attribute, sourceInfo, listening, hardware, steps,
                 pulls, late, drifted>>

ListenerGetExposure ==
  /\ serverPc = "getExposure"
  /\ IF handle = "open"
     THEN /\ got' = [got EXCEPT !.server = device[Exposure]]
          /\ serverPc' = "putExposure"
     ELSE serverPc' = "idle" /\ UNCHANGED got
  /\ UNCHANGED <<module, tree, hardware, pc, todo, history>>

\* The listener calls itself for the exposure it puts.
ListenerPutExposure ==
  /\ serverPc = "putExposure"
  /\ attribute' = [attribute EXCEPT ![Exposure] = got.server]
  /\ IF attribute[Exposure] # got.server
     THEN /\ device' = After(apsConfigListener(attribute', Exposure))
          /\ late' = late \ {Exposure}
          /\ drifted' = TRUE
     ELSE late' = late \ {Exposure} /\ UNCHANGED <<device, drifted>>
  /\ got' = [got EXCEPT !.server = 0]
  /\ serverPc' = "idle"
  /\ UNCHANGED <<module, runs, sourceInfo, listening, plugged, handle,
                 thread, pc, todo, puts, pulls, overruled>>

ServerListener == ListenerGetExposure \/ ListenerPutExposure

-----------------------------------------------------------------------------
(* libcaer's thread and the device.                                        *)

\* Automatic exposure adjusts the exposure.
Adjust(v) ==
  /\ Exposure \in settings
  /\ thread = "running" /\ handle = "open"
  /\ device[AutoExposure] = 1 /\ device[Exposure] # v
  /\ device' = [device EXCEPT ![Exposure] = v]
  /\ drifted' = TRUE
  /\ UNCHANGED <<module, tree, plugged, handle, thread, steps, puts, pulls,
                 late, overruled>>

\* The thread finds the device gone: moduleShutdownNotify.
Notice ==
  /\ thread = "running" /\ handle = "dead"
  /\ thread' = "ended"
  /\ runs' = FALSE
  /\ UNCHANGED <<module, attribute, sourceInfo, listening, plugged, handle,
                 device, steps, history>>

Pull ==
  /\ pulls < MaxPulls /\ plugged
  /\ plugged' = FALSE
  /\ handle' = IF handle = "open" THEN "dead" ELSE handle
  /\ pulls' = pulls + 1
  /\ UNCHANGED <<module, tree, device, thread, steps, puts, late, drifted,
                 overruled>>

PlugIn ==
  /\ ~plugged
  /\ plugged' = TRUE
  /\ UNCHANGED <<module, tree, handle, device, thread, steps, history>>

DeviceNext ==
  \/ Mainloop
  \/ \E s \in settings : \E v \in Values(s) : Put(s, v)
  \/ \E b \in BOOLEAN : PutRunning(b)
  \/ ServerListener
  \/ \E v \in Values(Exposure) : Adjust(v)
  \/ Notice \/ Pull \/ PlugIn

\* The mainloop runs, a put ends, and libcaer's thread finds out.
DeviceSpec ==
  /\ DeviceInit /\ [][DeviceNext]_deviceVars
  /\ WF_deviceVars(Mainloop) /\ WF_deviceVars(ServerListener)
  /\ WF_deviceVars(Notice)

-----------------------------------------------------------------------------
\* Types of the module's variables (davis_common.c, dvs128.c, edvs.c).
DeviceTypeOK ==
  /\ driver \in Drivers /\ settings \subseteq SettingsOf(driver)
  /\ restarts \in BOOLEAN
  /\ DOMAIN attribute = settings
  /\ \A s \in settings : attribute[s] \in Values(s)
  /\ runs \in BOOLEAN /\ sourceInfo \in BOOLEAN
  /\ listening \subseteq Nodes
  /\ plugged \in BOOLEAN /\ handle \in {"closed", "open", "dead"}
  /\ device \in [settings -> Int]
  /\ thread \in {"off", "running", "ended"}
  /\ pc \in {"stopped", "send", "listen", "run", "remove", "putExposure",
             "stopData", "close", "restart"}
  /\ serverPc \in {"idle", "getExposure", "putExposure"}
  /\ got \in [{"main", "server"} -> Values(Exposure)]
  /\ puts \in 0..MaxPuts /\ pulls \in 0..MaxPulls
  /\ late \subseteq settings
  /\ drifted \in BOOLEAN /\ overruled \in BOOLEAN

\* What the listener of their node does not make of a put: the bias SSN of a
\* DAVIS240 and the second detector's rising edges are compared with another
\* name, two settings are read with another width, and the size of the ring
\* buffer takes effect on start only.
Misheard == {SSN, RisingEdges2, TransferTime, SampleRate, BufferSize}

\* While the module runs, its device has the settings of the tree, whenever
\* and in which order clients put them: but for those put between Init's send
\* and its listener, and the exposure while the device adjusts it.
SettingsAreApplied ==
  pc = "run" /\ handle = "open" /\ serverPc = "idle" =>
    \A s \in settings \ (late \cup Misheard) :
      (s = Exposure => device[AutoExposure] = 0) => device[s] = attribute[s]

\* "Ensure Exposure value is coherent with libcaer": unless the exposure
\* changes after Exit has read it, the module that stops leaves in the tree
\* what the device had.
ExposureIsCoherent ==
  pc \in {"stopData", "close", "restart", "stopped"} /\ ~drifted =>
    attribute[Exposure] = device[Exposure]

\* With autoRestart a module nobody stopped, or told to go on without its
\* device, ends up running on its device, however often that is pulled and
\* plugged in.
DeviceComesBack ==
  restarts /\ <>[]~overruled /\ <>[]plugged =>
    <>[](pc = "run" /\ handle = "open")
=============================================================================
