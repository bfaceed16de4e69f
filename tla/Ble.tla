----------------------------------- MODULE Ble -----------------------------------
(***************************************************************************)
(* The Bluetooth LE window of ble.c and the BlueZ service it talks to.     *)
(*                                                                         *)
(* The window makes one call at a time and learns the outcome later; calls *)
(* outlive it. What it switched on (notifications, a scan, a connection it *)
(* made itself) it has to switch off when it goes, also when the call is   *)
(* answered after that. Devices come and go, and other programs use them;  *)
(* each change rebuilds the lists the user selects from.                   *)
(* BlueZ is external; what it connected is not told from what others did,  *)
(* unless the window owns it. There is one adapter; a device shows what it *)
(* has while it is connected. Calls nobody waits for are done at once.     *)
(***************************************************************************)
EXTENDS Naturals, FiniteSets

CONSTANTS Device, Char, \* devices, and the characteristics of all of them
          DeviceOf,     \* of which device a characteristic is
          Contested     \* bound: devices that other programs connect and that drop

BleAssumption == DeviceOf \in [Char -> Device] /\ Contested \subseteq Device

VARIABLE ble

None == "none"
Methods == {"Connect", "Disconnect", "StartNotify", "StopNotify", "ReadValue",
            "SetDiscoveryFilter", "StartDiscovery"}
NoCall == [method |-> None]

\* window: loading, open or gone; call: the call under way, state is sent, ok or error;
\* notifications, owned, scanning: what it has to switch off again (scan_timer runs
\* while scanning); device, char: selected. Of BlueZ: known, connected (by whom),
\* notifying, discovering; late: a call that timed out may still be done (bound:
\* one does); stray: the path it was for.
Init == ble = [window |-> "loading", call |-> NoCall, notifications |-> {}, owned |-> {},
               scanning |-> FALSE, device |-> None, char |-> None,
               known |-> {}, connected |-> [d \in Device |-> None], notifying |-> {},
               discovering |-> FALSE, late |-> NoCall, stray |-> None]

Shown(b) == {c \in Char : b.connected[DeviceOf[c]] # None}

\* refresh(): what was selected stays so while it is there, or the first one is;
\* beside it, as beside others below, a wrong form
Kept(selected, present) == IF selected \in present THEN {selected}
                           ELSE IF present = {} THEN {None} ELSE present
RefreshAll(b) == {[b EXCEPT !.device = d, !.char = c] : d \in Kept(b.device, b.known),
                                                         c \in Kept(b.char, Shown(b))}
Refresh(b) ==
    IF b.window # "open" THEN {b}
    ELSE UNION {{[b EXCEPT !.device = d, !.char = c] :
                    c \in Kept(b.char, {x \in Shown(b) : DeviceOf[x] = d})} : d \in Kept(b.device, b.known)}
-----------------------------------------------------------------------------
(* BlueZ *)

\* A device that is not connected has no characteristics, and notifies of nothing.
Connects(b, d, who) == [b EXCEPT !.known = @ \cup {d}, !.connected[d] = who]
Disconnects(b, d) == [b EXCEPT !.connected[d] = None,
                               !.notifying = {c \in @ : DeviceOf[c] # d}]
\* What a call switches on or off when it succeeds
Done(b, call) ==
    CASE call.method = "Connect" -> Connects(b, call.path, IF call.owned THEN "us" ELSE "other")
      [] call.method = "Disconnect" -> Disconnects(b, call.path)
      [] call.method = "StartNotify" -> [b EXCEPT !.notifying = @ \cup {call.path}]
      [] call.method = "StopNotify" -> [b EXCEPT !.notifying = @ \ {call.path}]
      [] call.method = "StartDiscovery" -> [b EXCEPT !.discovering = TRUE]
      [] OTHER -> b
Possible(b, call) ==
    CASE call.method = "Connect" -> call.path \in b.known /\ b.connected[call.path] = None
      [] call.method = "StartNotify" -> call.path \in Shown(b) \ b.notifying
      [] call.method = "StopNotify" -> call.path \in b.notifying
      [] call.method = "ReadValue" -> call.path \in Shown(b)
      [] call.method = "StartDiscovery" -> ~b.discovering
      [] OTHER -> TRUE

Serve == /\ ble.call.method # None /\ ble.call.state = "sent" /\ Possible(ble, ble.call)
         /\ ble' \in Refresh(Done([ble EXCEPT !.call.state = "ok"], ble.call))
Refuse == /\ ble.call.method # None /\ ble.call.state = "sent"
          /\ ble' = [ble EXCEPT !.call.state = "error"]
\* Ten seconds are over; the service is still at it, which matters if it switches on.
TimesOut == /\ ble.call.method \in {"Connect", "StartNotify", "StartDiscovery"}
            /\ ble.call.state = "sent" /\ ble.stray = None
            /\ ble' = [ble EXCEPT !.call.state = "error", !.late = ble.call, !.stray = ble.call.path]
DoneLate == /\ ble.late # NoCall
            /\ ble' \in {[ble EXCEPT !.late = NoCall]} \cup
                   IF Possible(ble, ble.late)
                   THEN Refresh([Done(ble, ble.late) EXCEPT !.late = NoCall])
                   ELSE {}

\* objects_changed(), interface_changed(), properties_changed(): a device appears,
\* is connected by another program, drops, or is removed (while it matters here)
Matters == ble.window = "open" \/ ble.call # NoCall
Appears(d) == Matters /\ d \notin ble.known /\ ble' \in Refresh([ble EXCEPT !.known = @ \cup {d}])
TakenByOther(d) == /\ Matters /\ d \in ble.known \cap Contested /\ ble.connected[d] = None
                   /\ ble' \in Refresh(Connects(ble, d, "other"))
Drops(d) == /\ Matters /\ d \in Contested /\ ble.connected[d] # None
            /\ ble' \in UNION {Refresh([Disconnects(ble, d) EXCEPT !.known = k]) : k \in {ble.known, ble.known \ {d}}}
-----------------------------------------------------------------------------
(* The window *)

\* call(): one at a time, of an object that is there
Called(b, method, path) ==
    [b EXCEPT !.call = [method |-> method, path |-> path, state |-> "sent",
                        owned |-> method = "Connect" /\ b.connected[path] = None]]
MayCall(method, path) == /\ ble.window = "open" /\ ble.call = NoCall /\ path # None
                         /\ method = "StartNotify" => path \notin ble.notifications

\* manager_ready()
ManagerReady == ble.window = "loading" /\ ble' \in Refresh([ble EXCEPT !.window = "open"])

\* changed_selection(): another device or characteristic
Select(d, c) == /\ ble.window = "open" /\ ble.device # None /\ d \in ble.known /\ c \in Shown(ble)
                /\ ble' \in Refresh([ble EXCEPT !.device = d, !.char = c])

\* action() on the selected device or characteristic (a write is like a read)
Action(method) ==
    LET path == IF method \in {"Connect", "Disconnect"} THEN ble.device ELSE ble.char
    IN MayCall(method, path) /\ ble' = Called(ble, method, path)
\* The button Scan
Scan == /\ ~ble.scanning /\ MayCall("SetDiscoveryFilter", "adapter")
        /\ ble' = Called(ble, "SetDiscoveryFilter", "adapter")

\* completed(), while the window is there
Noted(b, call) ==
    LET ended == [b EXCEPT !.call = NoCall]
    IN IF call.state = "error" THEN ended
       ELSE CASE call.method = "StartNotify" -> [ended EXCEPT !.notifications = @ \cup {call.path}]
              [] call.method = "StopNotify" -> [ended EXCEPT !.notifications = @ \ {call.path}]
              [] call.method = "Connect" /\ call.owned -> [ended EXCEPT !.owned = @ \cup {call.path}]
              [] call.method = "Disconnect" -> [ended EXCEPT !.owned = @ \ {call.path}]
              [] call.method = "StartDiscovery" -> [ended EXCEPT !.scanning = TRUE]
              [] call.method = "SetDiscoveryFilter" -> Called(ended, "StartDiscovery", call.path)
              [] OTHER -> ended
UndoneScan(b, call) == [b EXCEPT !.call = NoCall, !.discovering = @ /\ call.method # "StartDiscovery"]
\* completed(), after it was closed: what succeeded is undone
Undone(b, call) ==
    LET ended == [b EXCEPT !.call = NoCall]
    IN IF call.state = "error" THEN ended
       ELSE CASE call.method = "StartNotify" -> [ended EXCEPT !.notifying = @ \ {call.path}]
              [] call.method = "Connect" /\ call.owned -> Disconnects(ended, call.path)
              [] call.method = "StartDiscovery" -> [ended EXCEPT !.discovering = FALSE]
              [] OTHER -> ended
Completed ==
    /\ ble.call.method # None /\ ble.call.state # "sent"
    /\ IF ble.window = "gone" THEN ble' = Undone(ble, ble.call)
       ELSE LET noted == Noted(ble, ble.call)
            IN ble' \in IF ble.call.state = "ok" THEN Refresh(noted) ELSE {noted}

StopScanLater(b) == [b EXCEPT !.scanning = FALSE]
\* stop_scan(), ten seconds after the scan began
StopScan(b) == [b EXCEPT !.scanning = FALSE, !.discovering = @ /\ ~b.scanning]
ScanTimer == ble.scanning /\ ble' = StopScan(ble)

\* free_view(): release_paths() of everything
ReleaseAll(b) ==
    LET quiet == [StopScan(b) EXCEPT !.notifying = @ \ b.notifications, !.notifications = {}, !.owned = {}]
    IN [quiet EXCEPT !.connected = [d \in Device |-> IF d \in b.owned THEN None ELSE @[d]],
                     !.notifying = {c \in @ : DeviceOf[c] \notin b.owned}]
CloseWindow == /\ ble.window # "gone"
               /\ ble' = [ReleaseAll(ble) EXCEPT !.window = "gone", !.device = None, !.char = None]

Next == \/ ManagerReady \/ Scan \/ Completed \/ ScanTimer \/ CloseWindow
        \/ \E method \in Methods \ {"SetDiscoveryFilter", "StartDiscovery"} : Action(method)
        \/ \E d \in Device, c \in Char : Select(d, c)
        \/ Serve \/ Refuse \/ TimesOut \/ DoneLate
        \/ \E d \in Device : Appears(d) \/ TakenByOther(d) \/ Drops(d)

Spec == Init /\ [][Next]_ble
\* A call is answered or times out, and the UI's loop and its timer run.
Fairness == WF_ble(Refuse) /\ WF_ble(Completed) /\ WF_ble(ScanTimer)
-----------------------------------------------------------------------------
\* After the window is gone and its last call answered, nothing it switched on stays
\* on: no scan, no notification and no connection of its own. What BlueZ does after
\* the call timed out for the window is beyond it, and so is a connection asked for
\* while another program still had one (ble.c:288).
CleanedUp == ble.window = "gone" /\ ble.call = NoCall =>
                 /\ ble.discovering => ble.stray = "adapter"
                 /\ ble.notifying \subseteq {ble.stray}
                 /\ \A d \in Device : ble.connected[d] = "us" => d = ble.stray
\* The characteristic that is read and written is one of the device that is selected.
SelectionHolds == ble.window = "open" /\ ble.char # None =>
                      ble.char \in Shown(ble) /\ DeviceOf[ble.char] = ble.device
Sound == CleanedUp /\ SelectionHolds

\* The next call is possible in the end, and a scan ends.
Calling == ble.call # NoCall
Discovering == ble.discovering /\ ble.stray # "adapter"
=============================================================================
