-------------------------------- MODULE Analyzer --------------------------------
(***************************************************************************)
(* The recording playback of analyzer.c: a recording is loaded by a worker *)
(* (the last one chosen counts), replayed by a timer of capture.c into a   *)
(* log model (log_model.c), which the window lists through a filter on a   *)
(* timer of its own, while the user pauses, changes the speed, clears the  *)
(* log, filters, and clicks on lines to see their fields.                  *)
(*                                                                         *)
(* An event of a recording has a time, whether it ends the line, and the   *)
(* level of its words, that of a command if it was not received; a line of *)
(* the log is the sequence of the events it came from. The window's        *)
(* revision is kept as whether it is behind the model's. A window on the   *)
(* log of a session has no replay.                                         *)
(***************************************************************************)
EXTENDS Naturals, Sequences, FiniteSets, SequencesExt

CONSTANTS Recording, \* the files, each a sequence of events: [time, ends, level]
          MaxLines,  \* entries kept (10000)
          MaxBytes,  \* their size (8 MiB): an entry counts its events and one
          MaxShown,  \* lines listed (1000)
          ReplayBudget, \* events a tick of the replay takes (256)
          Speed,     \* speeds the user may choose
          Mask,      \* sets of levels the user may filter by
          EndTime,   \* bound: no event is later
          MaxLoads,  \* bound: recordings chosen
          MaxClears  \* bound: clicks on Clear analysis

CommandLevel == 5 \* TIO_LOG_COMMAND
DataLevel == 6    \* TIO_LOG_DATA
Level == 0..6     \* TioLogLevel
Event == [time : 0..EndTime, ends : BOOLEAN, level : Level]

AnalyzerAssumption ==
    /\ {MaxLines, MaxBytes, MaxShown, ReplayBudget} \subseteq Nat \ {0} /\ {EndTime, MaxLoads, MaxClears} \subseteq Nat
    /\ Speed \subseteq Nat \ {0} /\ Mask \subseteq SUBSET Level
    /\ "" \notin DOMAIN Recording /\ Recording \in [DOMAIN Recording -> Seq(Event)]
    /\ \A f \in DOMAIN Recording : \A i \in 2..Len(Recording[f]) : Recording[f][i - 1].time <= Recording[f][i].time

VARIABLE analyzer

NoReplay == [file |-> "", serial |-> 0, index |-> 0, virtual |-> 0, elapsed |-> 0, speed |-> 1,
             paused |-> TRUE, timer |-> FALSE]
Cleared(v) == [v EXCEPT !.entries = <<>>, !.line = <<>>, !.behind = TRUE]
\* loads: those of the worker, by serial; done: (history) those that ended well
AnalyzerInit ==
    analyzer = [entries |-> <<>>, line |-> <<>>, nextId |-> 0, behind |-> TRUE,
                replay |-> NoReplay, loads |-> {}, loadSerial |-> 0, done |-> {}, clears |-> 0,
                pauseBox |-> TRUE, speedBox |-> 1, follow |-> TRUE, rebuild |-> TRUE,
                filter |-> Level, rows |-> <<>>, window |-> TRUE]
-----------------------------------------------------------------------------
(* The log model *)

EntrySize(entry) == Len(entry.text) + 1
LogBytes(entries) ==
    FoldLeft(LAMBDA sum, size : sum + size, 0, [i \in 1..Len(entries) |-> EntrySize(entries[i])])
\* append(): the oldest entries leave until both limits are kept; of several appended
\* in a row this leaves what is left by doing it after each.
LastEntries(entries, n) == SubSeq(entries, Len(entries) - n + 1, Len(entries))
WithinLimits(entries, n) == n <= MaxLines /\ LogBytes(LastEntries(entries, n)) <= MaxBytes
AsMany(entries, n) == /\ WithinLimits(entries, n)
                      /\ n < Len(entries) => ~WithinLimits(entries, n + 1)
Retained(entries) == LastEntries(entries, CHOOSE n \in 0..Len(entries) : AsMany(entries, n))
AddEntry(v, text, hex) ==
    [v EXCEPT !.nextId = @ + 1, !.behind = TRUE,
              !.entries = Append(@, [id |-> v.nextId + 1, text |-> text, hex |-> hex])]
\* classify(): the gravest level of its words; others have CommandLevel. What was shown
\* as HEX, the end of its line, has no words.
LevelOf(entry) ==
    LET words == {i \in DOMAIN entry.text : ~entry.hex \/ i # Len(entry.text)}
    IN Min({DataLevel} \cup {Recording[entry.text[i][1]][entry.text[i][2]].level : i \in words})
\* replay_event(): bytes received extend the line and may end it, shown as HEX they
\* always do; others are an entry of their own
Fed(v, ref, hex) ==
    LET event == Recording[ref[1]][ref[2]]
        line == Append(v.line, ref)
    IN IF event.level = CommandLevel THEN AddEntry(v, <<ref>>, FALSE)
       ELSE IF event.ends \/ hex THEN [AddEntry(v, line, hex) EXCEPT !.line = <<>>]
       ELSE [v EXCEPT !.line = line]
-----------------------------------------------------------------------------
(* The replay *)

ReplayTime(r) == Min({EndTime, r.virtual + (IF r.paused THEN 0 ELSE r.elapsed * r.speed)})
Anchored(r) == [r EXCEPT !.virtual = ReplayTime(r), !.elapsed = 0]
Events(r) == IF r.file = "" THEN <<>> ELSE Recording[r.file]
ReplayFinished(r) == r.index >= Len(Events(r))
FasterAtOnce(r, speed) == [r EXCEPT !.speed = speed]
Faster(r, speed) == IF r.file = "" THEN r ELSE [Anchored(r) EXCEPT !.speed = speed]
Paused(r, paused) ==
    IF r.file = "" \/ r.paused = paused THEN r
    ELSE [Anchored(r) EXCEPT !.paused = paused, !.timer = @ \/ (~paused /\ ~ReplayFinished(r))]

Passes == /\ ~analyzer.replay.paused /\ ReplayTime(analyzer.replay) < EndTime
          /\ analyzer' = [analyzer EXCEPT !.replay.elapsed = @ + 1]
\* n events from the position on, one after the other
FedUpTo(v, n, hex) ==
    LET fed[i \in 0..n] == IF i = 0 THEN v ELSE Fed(fed[i - 1], <<v.replay.file, v.replay.index + i>>, hex)
    IN fed[n]
GoesOnAfterSome(r, last) == r.index < last /\ last < Len(Events(r))
GoesOn(r, last) == last < Len(Events(r))
\* Events whose time has come are fed, at most ReplayBudget, as the HEX box is just then;
\* past the last the timer ends.
ReplayTick ==
    LET r == analyzer.replay
        Due(i) == i <= Len(Events(r)) /\ Events(r)[i].time <= ReplayTime(r)
    IN \E last \in r.index..(r.index + ReplayBudget), hex \in BOOLEAN :
        LET fed == FedUpTo(analyzer, last - r.index, hex)
        IN /\ r.timer /\ ~r.paused
           /\ \A i \in (r.index + 1)..last : Due(i)
           /\ last = r.index + ReplayBudget \/ ~Due(last + 1)
           /\ analyzer' = [fed EXCEPT !.entries = Retained(@), !.replay.index = last, !.replay.timer = GoesOn(r, last)]

\* replay_controls_changed()
Controls(v) == [v EXCEPT !.replay = Faster(Paused(@, v.pauseBox), v.speedBox)]
TogglePause == analyzer.window /\ analyzer' = Controls([analyzer EXCEPT !.pauseBox = ~@])
ChangeSpeed == \E s \in Speed \ {analyzer.speedBox} : analyzer.window /\ analyzer' = Controls([analyzer EXCEPT !.speedBox = s])

\* replay_file_finished(), of any dialog that was opened
FileChosen == \E f \in DOMAIN Recording :
    /\ analyzer.window /\ analyzer.loadSerial < MaxLoads
    /\ analyzer' = [analyzer EXCEPT !.loadSerial = @ + 1,
                                   !.loads = @ \cup {[serial |-> analyzer.loadSerial + 1, file |-> f]}]
\* replay_loaded(): of a window that is left, the last load asked for replaces the
\* replay and the log
TakesAny(load) == analyzer.window
Takes(load) == analyzer.window /\ load.serial = analyzer.loadSerial
Loaded ==
    \E load \in analyzer.loads : LET rest == [analyzer EXCEPT !.loads = @ \ {load}] IN
        \/ ~Takes(load) /\ analyzer' = rest
        \/ Takes(load) /\ analyzer' = rest \* a file that is not valid
        \/ /\ Takes(load)
           /\ LET fresh == [NoReplay EXCEPT !.file = load.file, !.serial = load.serial,
                                            !.virtual = IF Recording[load.file] = <<>> THEN 0 ELSE Recording[load.file][1].time]
              IN analyzer' = [Cleared(rest) EXCEPT !.replay = Paused(Faster(fresh, analyzer.speedBox), analyzer.pauseBox),
                                               !.rebuild = TRUE, !.done = @ \cup {load.serial}]
-----------------------------------------------------------------------------
(* The window *)

Matching(entries, filter) ==
    LET shown[i \in 0..Len(entries)] ==
            IF i = 0 THEN <<>>
            ELSE IF LevelOf(entries[i]) \in filter THEN Append(shown[i - 1], entries[i])
            ELSE shown[i - 1]
    IN shown[Len(entries)]
Listed(v) == LET m == Matching(v.entries, v.filter) IN LastEntries(m, Min({Len(m), MaxShown}))
\* tick() and rebuild()
ViewTick == /\ analyzer.window /\ (analyzer.rebuild \/ (analyzer.follow /\ analyzer.behind))
            /\ analyzer' = [analyzer EXCEPT !.rows = Listed(analyzer), !.behind = FALSE, !.rebuild = FALSE]
\* apply_filter() of a valid pattern; an error leaves the filter
ApplyFilter == \E m \in Mask : analyzer.window /\ analyzer' = [analyzer EXCEPT !.filter = m, !.rebuild = TRUE]
ToggleFollow == analyzer.window /\ analyzer' = [analyzer EXCEPT !.follow = ~@]
\* select_entry() and selection_changed(): a row is looked up among the entries by its
\* id, what is found is shown beside the list
SelectLine == analyzer.window /\ analyzer.rows # <<>> /\ analyzer' = [analyzer EXCEPT !.follow = FALSE]
IdsAgain(v) == [Cleared(v) EXCEPT !.nextId = 0, !.rebuild = TRUE]
ClearLog(v) == [Cleared(v) EXCEPT !.rebuild = TRUE]
ClearAnalysis == /\ analyzer.window /\ analyzer.clears < MaxClears
                 /\ analyzer' = [ClearLog(analyzer) EXCEPT !.clears = @ + 1]
\* free_analyzer()
CloseAnalyzer == /\ analyzer.window
                 /\ analyzer' = [Cleared(analyzer) EXCEPT !.window = FALSE, !.replay = NoReplay, !.rows = <<>>]

AnalyzerNext ==
    \/ Passes \/ ReplayTick \/ TogglePause \/ ChangeSpeed \/ FileChosen \/ Loaded \/ ViewTick
    \/ ApplyFilter \/ ToggleFollow \/ SelectLine \/ ClearAnalysis \/ CloseAnalyzer

AnalyzerFairness == WF_analyzer(Passes) /\ WF_analyzer(ReplayTick) /\ WF_analyzer(ViewTick) /\ WF_analyzer(Loaded)
AnalyzerSpec == AnalyzerInit /\ [][AnalyzerNext]_analyzer /\ AnalyzerFairness
-----------------------------------------------------------------------------
\* The log is of the replay alone: what was received and what was not are, each, the
\* latest of its events up to the position, in order, none missing between (a clear
\* or the limits take the older ones); the worker's result of a recording chosen
\* before another is not what is played (analyzer.c: replay_loaded).
Texts(v) == Append([i \in 1..Len(v.entries) |-> v.entries[i].text], v.line)
Received(ref) == Recording[ref[1]][ref[2]].level # CommandLevel
LatestOf(texts, file, index) ==
    /\ \A t \in DOMAIN texts : \A p \in DOMAIN texts[t] : \E i \in 1..index : texts[t][p] = <<file, i>>
    /\ \A t, u \in DOMAIN texts : \A p \in DOMAIN texts[t], q \in DOMAIN texts[u] :
           Received(texts[t][p]) = Received(texts[u][q]) /\ (t < u \/ (t = u /\ p < q)) =>
               texts[t][p][2] < texts[u][q][2]
    /\ \A t \in DOMAIN texts : \A p \in DOMAIN texts[t] : \A i \in texts[t][p][2]..index :
           Received(<<file, i>>) = Received(texts[t][p]) =>
               \E u \in DOMAIN texts : \E q \in DOMAIN texts[u] : texts[u][q] = <<file, i>>
LogIsReplay ==
    /\ analyzer.replay.file = "" => analyzer.entries = <<>> /\ analyzer.line = <<>>
    /\ analyzer.replay.file # "" => LatestOf(Texts(analyzer), analyzer.replay.file, analyzer.replay.index)
    /\ analyzer.window /\ analyzer.loadSerial \in analyzer.done => analyzer.replay.serial = analyzer.loadSerial
\* The limits hold, ids run without a gap, and a line listed is found by its
\* id as what it is, or not any more,
\* so that a click shows the line it is on
\* (log_model.c: append, clear; analyzer.c: select_entry).
LinesKept ==
    /\ Len(analyzer.entries) <= MaxLines /\ LogBytes(analyzer.entries) <= MaxBytes
    /\ \A i \in DOMAIN analyzer.entries : analyzer.entries[i].id = analyzer.nextId - Len(analyzer.entries) + i
    /\ \A i \in DOMAIN analyzer.rows, j \in DOMAIN analyzer.entries :
           analyzer.rows[i].id = analyzer.entries[j].id => analyzer.rows[i] = analyzer.entries[j]
\* tick() has something to rebuild
Behind == analyzer.window /\ (analyzer.rebuild \/ (analyzer.follow /\ analyzer.behind))
\* The list is what the filter leaves of the log whenever nothing is left to rebuild
\* (analyzer.c: tick).
ListCurrent == analyzer.window /\ analyzer.follow /\ ~Behind => analyzer.rows = Listed(analyzer)
AnalyzerSound == LogIsReplay /\ LinesKept /\ ListCurrent

\* Pausing or changing the speed never moves the position of the playback: only time
\* and a new recording do (capture.c: tio_replay_pause, tio_replay_speed).
NoJump == ReplayTime(analyzer'.replay) # ReplayTime(analyzer.replay) =>
              analyzer'.replay.serial # analyzer.replay.serial \/ analyzer'.replay.elapsed = analyzer.replay.elapsed + 1
\* A recording that is left playing plays to its end, and a list that follows comes to
\* show the latest lines (capture.c: replay_tick; analyzer.c: tick).
Playing == analyzer.window /\ analyzer.replay.file # "" /\ ~analyzer.pauseBox /\ ~ReplayFinished(analyzer.replay)
=============================================================================
