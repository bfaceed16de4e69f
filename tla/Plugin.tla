--------------------------------- MODULE Plugin ---------------------------------
(***************************************************************************)
(* A plugin that transforms the text of an entry: the worker of plugin.c,  *)
(* which runs it as a process in a sandbox, and its editor, plugin_ui.c.   *)
(*                                                                         *)
(* The worker leaves files for the process in a directory of its own, then *)
(* polls: the process may write, close its output and exit in any order,   *)
(* or never; the user may close the window, and two seconds pass.          *)
(* The sandbox is external: the process that is killed takes all it        *)
(* started along.                                                          *)
(***************************************************************************)
EXTENDS Naturals, FiniteSets

CONSTANTS Text,  \* texts of a plugin
          Limit  \* blocks of output that are taken (64 KiB)

PluginAssumption == Limit \in Nat \ {0}

VARIABLE plugin

None == "none"
Files == {"source", "input", "wrapper", "filter"}
\* stage: of the worker; source: the text it was given; error, exited, eof, output: its
\* variables; directory, files: on the disk. process: none, running, success or
\* failure, with what it wrote, not valid text perhaps; closed: its output.
NoRun == [stage |-> None, source |-> None, cancelled |-> FALSE, late |-> FALSE, error |-> FALSE,
          exited |-> FALSE, eof |-> FALSE, output |-> 0, directory |-> FALSE, files |-> {},
          process |-> None, written |-> 0, valid |-> TRUE, closed |-> FALSE]
NoRequest == [save |-> FALSE, text |-> None]
Outcome(kind, r) == [kind |-> kind, process |-> r.process, valid |-> r.valid,
                     output |-> r.output, written |-> r.written]
Nothing == Outcome(None, NoRun)
\* window: open or gone; text: in the editor; busy: a run is under way; request: of the
\* file dialog that is open; shown: what the output is of
Init == plugin = [window |-> "open", text |-> CHOOSE t \in Text : TRUE, busy |-> FALSE,
                  request |-> NoRequest, saved |-> None, shown |-> Nothing, run |-> NoRun]

Work(r) == plugin' = [plugin EXCEPT !.run = r]
-----------------------------------------------------------------------------
(* The worker *)

\* What it does not find, or cannot make, ends it at once.
Missing == plugin.run.stage = "start" /\ Work([plugin.run EXCEPT !.stage = "over", !.error = TRUE])
\* The directory and all files are there and the process is started, or whatever was
\* made is left to the end; beside it, as beside definitions below, a wrong form
PrepareOrLeave(r) ==
    {[r EXCEPT !.stage = "poll", !.directory = TRUE, !.files = Files, !.process = "running"]}
        \cup {[r EXCEPT !.stage = "over", !.error = TRUE, !.directory = TRUE, !.files = f] : f \in SUBSET Files}
Prepare(r) ==
    {[r EXCEPT !.stage = "poll", !.directory = TRUE, !.files = Files, !.process = "running"]}
        \cup {[r EXCEPT !.stage = "done", !.error = TRUE, !.directory = TRUE, !.files = f] : f \in SUBSET Files}
Start == plugin.run.stage = "start" /\ \E r \in Prepare(plugin.run) : Work(r)

\* One round of the loop: it reaps the process, ends, gives up or reads what is there
Read(r) ==
    IF r.output = r.written THEN [r EXCEPT !.eof = r.closed]
    ELSE IF r.output = Limit THEN [r EXCEPT !.stage = "kill", !.error = TRUE]
    ELSE [r EXCEPT !.output = @ + 1]
GivesUp(r) == [r EXCEPT !.stage = "kill", !.error = TRUE]
PollUntilClosed(r) ==
    LET noticed == [r EXCEPT !.exited = r.process # "running"]
    IN IF r.eof THEN IF noticed.exited THEN [noticed EXCEPT !.stage = "wait"] ELSE noticed
       ELSE IF r.cancelled \/ r.late THEN GivesUp(noticed) ELSE Read(noticed)
Poll(r) ==
    LET noticed == [r EXCEPT !.exited = r.process # "running"]
    IN IF r.eof /\ noticed.exited THEN [noticed EXCEPT !.stage = "wait"]
       ELSE IF r.cancelled \/ r.late THEN GivesUp(noticed)
       ELSE IF r.eof THEN noticed ELSE Read(noticed)
Polls == plugin.run.stage = "poll" /\ Work(Poll(plugin.run))
ReadFails == /\ plugin.run.stage = "poll" /\ ~plugin.run.eof
             /\ Work([plugin.run EXCEPT !.stage = "kill", !.error = TRUE])
\* g_subprocess_force_exit() of a process that may be gone
ForceExit ==
    /\ plugin.run.stage = "kill"
    /\ Work([plugin.run EXCEPT !.stage = "wait", !.closed = TRUE,
                               !.process = IF @ = "running" THEN "failure" ELSE @])
\* It is waited for, and what it wrote is only taken if all went well.
Waits == /\ plugin.run.stage = "wait" /\ plugin.run.process # "running"
         /\ Work([plugin.run EXCEPT !.stage = "done", !.exited = TRUE,
                                    !.error = @ \/ plugin.run.process = "failure" \/ ~plugin.run.valid])
CleanUp == plugin.run.stage = "done" /\ Work([plugin.run EXCEPT !.stage = "over", !.files = {}, !.directory = FALSE])
-----------------------------------------------------------------------------
(* The process *)

Writes == /\ plugin.run.process = "running" /\ ~plugin.run.closed /\ plugin.run.written <= Limit
          /\ \E valid \in BOOLEAN : Work([plugin.run EXCEPT !.written = @ + 1, !.valid = @ /\ valid])
Closes == plugin.run.process = "running" /\ Work([plugin.run EXCEPT !.closed = TRUE])
Exits == /\ plugin.run.process = "running"
         /\ \E how \in {"success", "failure"} : Work([plugin.run EXCEPT !.process = how, !.closed = TRUE])
Late == plugin.run.stage = "poll" /\ Work([plugin.run EXCEPT !.late = TRUE])
-----------------------------------------------------------------------------
(* The editor *)

Edit(t) == plugin.window = "open" /\ plugin' = [plugin EXCEPT !.text = t]
\* run(): a text or an input that is not accepted is as soon over
RunClicked(accepted) ==
    /\ plugin.window = "open" /\ ~plugin.busy
    /\ plugin' = [plugin EXCEPT !.busy = TRUE, !.shown = Nothing,
                                !.run = [NoRun EXCEPT !.stage = IF accepted THEN "start" ELSE "over",
                                                      !.error = ~accepted, !.source = plugin.text]]
\* completed(), also when the window is gone
Completed ==
    /\ plugin.run.stage = "over"
    /\ plugin' = IF plugin.window = "gone" THEN [plugin EXCEPT !.run = NoRun]
                 ELSE [plugin EXCEPT !.run = NoRun, !.busy = FALSE,
                           !.shown = IF plugin.run.error THEN Outcome("error", NoRun)
                                     ELSE Outcome("output", plugin.run)]
\* choose(): what will be saved is copied now
Choose(save) == /\ plugin.window = "open" /\ plugin.request = NoRequest
                /\ plugin' = [plugin EXCEPT !.request = [save |-> save, text |-> plugin.text]]
\* file_selected(): a file that is not such a text, or no file, changes nothing
FileSelected ==
    /\ plugin.request # NoRequest
    /\ LET closed == [plugin EXCEPT !.request = NoRequest]
           told == [closed EXCEPT !.shown = Outcome("message", NoRun)]
       IN plugin' \in {closed} \cup
              IF plugin.window = "gone" THEN {}
              ELSE IF plugin.request.save THEN {told, [told EXCEPT !.saved = plugin.request.text]}
              ELSE {told} \cup {[told EXCEPT !.text = t] : t \in Text}
\* editor_free()
CloseWindow == /\ plugin.window = "open"
               /\ plugin' = [plugin EXCEPT !.window = "gone", !.busy = FALSE, !.shown = Nothing,
                                           !.run.cancelled = @ \/ plugin.busy]

Next == \/ Missing \/ Start \/ Polls \/ ReadFails \/ ForceExit \/ Waits \/ CleanUp
        \/ Writes \/ Closes \/ Exits \/ Late \/ Completed \/ FileSelected \/ CloseWindow
        \/ \E t \in Text : Edit(t)
        \/ \E b \in BOOLEAN : RunClicked(b) \/ Choose(b)

Spec == Init /\ [][Next]_plugin
\* The thread and the UI's loop run, and time passes; of the process nothing is assumed.
Fairness == /\ WF_plugin(Missing \/ Start) /\ WF_plugin(Polls) /\ WF_plugin(ForceExit) /\ WF_plugin(Waits)
            /\ WF_plugin(CleanUp) /\ WF_plugin(Completed) /\ WF_plugin(Late)
-----------------------------------------------------------------------------
\* When the worker is over nothing of the run is left: no process, directory or file,
\* whatever step failed.
NothingLeft == plugin.run.stage \in {None, "over"} =>
                   plugin.run.process # "running" /\ ~plugin.run.directory /\ plugin.run.files = {}
\* The output shown is all that a process wrote which then succeeded.
OutputWhole == LET o == plugin.shown
               IN o.kind = "output" => o.process = "success" /\ o.valid /\ o.output = o.written
Sound == NothingLeft /\ OutputWhole

\* Every run ends, whatever the process does.
Running == plugin.run.stage # None
=============================================================================
