------------------------------- MODULE Toolbox -------------------------------
(***************************************************************************)
(* The parts of the program that work by themselves and are proved about:  *)
(* the recorder of a session, the tools and the views. They share no       *)
(* state. Those with sequences are the modules that this one extends, and  *)
(* their definitions have names of their own; the others are instances.    *)
(* A constant that several parts have gets a name of its own here.         *)
(***************************************************************************)
EXTENDS Capture, Network, Mqtt, Can, SequenceEditor, SendHistory, Analyzer

CONSTANTS MaxAddress, MaxQuantity, SlaveUnit, MaxTransaction, Value, \* Modbus
          Device, Char, DeviceOf, Contested,                         \* Ble
          PluginText, OutputLimit,                                   \* Plugin
          MaxText, Page                                              \* LogView

VARIABLES modbus, ble, plugin, log

Bus == INSTANCE Modbus WITH Unit <- SlaveUnit
Bluez == INSTANCE Ble
Plugins == INSTANCE Plugin WITH Text <- PluginText, Limit <- OutputLimit
Log == INSTANCE LogView WITH view <- log

ASSUME ToolboxAssumption ==
    /\ NetworkAssumption /\ Bus!ModbusAssumption /\ Bluez!BleAssumption /\ Plugins!PluginAssumption
    /\ SequenceEditorAssumption /\ SendHistoryAssumption /\ Log!LogViewAssumption
    /\ DbcAssumption /\ CanAssumption /\ MqttAssumption /\ AnalyzerAssumption
-----------------------------------------------------------------------------
(* The peers of a bounded connection are told what happened, once, what is      *)
(* queued and who holds it is counted exactly (network.c: writable, stop), and  *)
(* a broker that answers what it was asked is served (mqtt.c: parse).           *)
ConnectionsSound == NetworkSound /\ MqttSound

(* What a tool began is undone when it ends, whichever of its calls or steps    *)
(* failed (ble.c: completed; plugin.c: worker; can.c: tio_can_free), and what a *)
(* bus tool shows was read for what was asked (modbus_ui.c: completed) or by a  *)
(* whole file (dbc.c: tio_dbc_parse).                                           *)
DevicesSound == /\ Bluez!Sound /\ Plugins!Sound
                /\ Bus!ShownIsAsked /\ BusExact /\ DbcValid

(* Also when the editors of other tabs change the shared lists, a name finds    *)
(* one saved sequence and a list that was not changed meanwhile is the one      *)
(* acted on (sequence_ui.h: sequence_action), and browsing the history keeps    *)
(* what was being typed (main.c: history_navigate). No step of an editor takes a *)
(* saved sequence away but as its user asked.                                   *)
EditorsSound == [](EditorSound /\ HistorySound) /\ SavedStay

(* A view moves, blinks and tells of news only as what it follows and what its  *)
(* user selected allow (main.c: on_highlight_scrolled, update_highlight_display),*)
(* and the log of a replay is of its recording, listed as the filter leaves it  *)
(* (analyzer.c: replay_loaded, tick; log_model.c: append).                      *)
ViewsSound == Log!Sound /\ AnalyzerSound
=============================================================================
