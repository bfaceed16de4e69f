-------------------------------- MODULE Tools --------------------------------
(***************************************************************************)
(* The parts of the program that work by themselves, of the toolbox and    *)
(* the edited line of a terminal, in one specification: a behavior is one  *)
(* of a single part, chosen at the start, while the others stay as they    *)
(* begin. So a behavior is, for each part, one of the specification of     *)
(* that part, and one run checks them all.                                 *)
(***************************************************************************)
EXTENDS Toolbox

CONSTANTS LineLimit, DeviceUnit \* TextLine

VARIABLES textLine,
          which \* the part that the behavior is of

Line == INSTANCE TextLine WITH Limit <- LineLimit, Unit <- DeviceUnit, text <- textLine

ASSUME ToolsAssumption == Line!TextLineAssumption
-----------------------------------------------------------------------------
Parts == {"recorder", "network", "mqtt", "modbus", "ble", "can", "plugin", "sequences", "history",
          "line", "analyzer", "log"}
ToolsInit ==
    /\ which \in Parts
    /\ EditorInit /\ (which # "sequences" => editor.saved = <<>>)
    /\ Init /\ NetworkInit /\ MqttInit /\ Bus!Init /\ Bluez!Init /\ CanInit
    /\ Plugins!Init /\ HistoryInit /\ Line!Init /\ AnalyzerInit /\ Log!Init
Others ==
    /\ UNCHANGED which
    /\ which # "recorder" => UNCHANGED vars
    /\ which # "network" => UNCHANGED net
    /\ which # "mqtt" => UNCHANGED mqtt
    /\ which # "modbus" => UNCHANGED modbus
    /\ which # "ble" => UNCHANGED ble
    /\ which # "can" => UNCHANGED can
    /\ which # "plugin" => UNCHANGED plugin
    /\ which # "sequences" => UNCHANGED editor
    /\ which # "history" => UNCHANGED send
    /\ which # "line" => UNCHANGED textLine
    /\ which # "analyzer" => UNCHANGED analyzer
    /\ which # "log" => UNCHANGED log
ToolsNext ==
    \/ which = "recorder" /\ Others /\ Next
    \/ which = "network" /\ Others /\ NetworkNext
    \/ which = "mqtt" /\ Others /\ MqttNext
    \/ which = "modbus" /\ Others /\ Bus!Next
    \/ which = "ble" /\ Others /\ Bluez!Next
    \/ which = "can" /\ Others /\ CanNext
    \/ which = "plugin" /\ Others /\ Plugins!Next
    \/ which = "sequences" /\ Others /\ EditorNext
    \/ which = "history" /\ Others /\ HistoryNext
    \/ which = "line" /\ Others /\ Line!Next
    \/ which = "analyzer" /\ Others /\ AnalyzerNext
    \/ which = "log" /\ Others /\ Log!Next
toolVars == <<vars, net, mqtt, modbus, ble, can, plugin, editor, send, textLine, analyzer, log, which>>
(* The fairness that each part states, of the part that was chosen.            *)
Of(part, A) == which = part /\ A
Fair == /\ WF_cap(Of("recorder", Written(TRUE) \/ Written(FALSE)))
        /\ WF_mqtt(Of("mqtt", MqttTick))
        /\ WF_modbus(Of("modbus", Bus!Fails)) /\ WF_modbus(Of("modbus", Bus!GivesUp))
        /\ WF_modbus(Of("modbus", Bus!Completed))
        /\ WF_ble(Of("ble", Bluez!Refuse)) /\ WF_ble(Of("ble", Bluez!Completed))
        /\ WF_ble(Of("ble", Bluez!ScanTimer))
        /\ WF_plugin(Of("plugin", Plugins!Missing \/ Plugins!Start)) /\ WF_plugin(Of("plugin", Plugins!Polls))
        /\ WF_plugin(Of("plugin", Plugins!ForceExit)) /\ WF_plugin(Of("plugin", Plugins!Waits))
        /\ WF_plugin(Of("plugin", Plugins!CleanUp)) /\ WF_plugin(Of("plugin", Plugins!Completed))
        /\ WF_plugin(Of("plugin", Plugins!Late))
        /\ WF_analyzer(Of("analyzer", Passes)) /\ WF_analyzer(Of("analyzer", ReplayTick))
        /\ WF_analyzer(Of("analyzer", ViewTick)) /\ WF_analyzer(Of("analyzer", Loaded))
        /\ WF_log(Of("log", Log!Layout)) /\ WF_log(Of("log", Log!Frame))
ToolsSpec == ToolsInit /\ [][ToolsNext]_toolVars /\ Fair
-----------------------------------------------------------------------------
(* What is shown of bytes is what they say: a signal is decoded as the file     *)
(* defines it (dbc.c: tio_dbc_decode), a line is edited as a terminal would     *)
(* (text_line.h).                                                               *)
ResultsSound == DecodedRight /\ Line!Sound

(* Nothing moves by itself: neither the time of a replay when its speed changes *)
(* or it pauses (capture.c: tio_replay_speed), nor a log that its user paused   *)
(* (main.c: update_highlight_display).                                          *)
NothingJumps == [][(which = "analyzer" => NoJump) /\ (which = "log" => Log!PausedStays)]_toolVars

(* What was begun ends, though a peer does not answer or a process goes on: the *)
(* recording that was stopped (capture.c: pump), the handshake (mqtt.c: tick),  *)
(* the request (modbus_ui.c: completed), the call (ble.c: completed), the run   *)
(* (plugin.c: worker), the replay that is not paused (capture.c:                *)
(* replay_tick) and the movement of the log (main.c: animate_highlight_scroll). *)
Working == \/ Closing \/ LateHandshake \/ Bus!Running \/ Bluez!Calling
           \/ Plugins!Running \/ Playing \/ Log!Moving
WorkEnds == Working ~> ~Working

(* Nothing stays behind: packets that were received (mqtt.c: parse), a          *)
(* scan (ble.c: stop_scan), lines that a following list does not show yet       *)
(* (analyzer.c: tick).                                                          *)
Backlog == Unparsed \/ Bluez!Discovering \/ Of("analyzer", Behind)
BacklogEnds == Backlog ~> ~Backlog
=============================================================================
