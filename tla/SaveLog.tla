------------------------------- MODULE SaveLog -------------------------------
(***************************************************************************)
(* The save file of one game as libnethack/src/log.c keeps it: a header    *)
(* and an append-only sequence of lines that any number of processes play, *)
(* watch, replay or recover at the same time.                              *)
(*                                                                         *)
(* A line is an event: a command, an answer to a prompt, a "+" time line,  *)
(* a "~" save diff, a "*" save backup or the "Q" that ends the game.  The  *)
(* game engine is a deterministic function of the events it has consumed,  *)
(* so the history of those events stands for the gamestate and Engine(h)   *)
(* is the kind of line the engine wants after the history h.               *)
(*                                                                         *)
(* Offsets are counted in lines after the header.  The lock calls of       *)
(* files.c are taken as granted here (module FdLock models them): every    *)
(* step that touches the file happens while no process writes.             *)
(*                                                                         *)
(* Names that end in "_bug" are no part of the model: each is a plausible  *)
(* mistake in the definition after it, for trying the properties against.  *)
(***************************************************************************)
EXTENDS Naturals, Sequences, FiniteSets

CONSTANTS
  Procs,         \* the processes that open the save file
  Nobody,        \* no process
  Want,          \* Want[p]: the follow mode the user of p asks for
  Vals,          \* what a command or an answer may say
  NoVal,         \* the contents of a line that carries no choice of the user
  Engine(_),     \* Engine(h): "cmd", "input", "time", "save" or "over"
  Server,        \* TRUE: opened by nethack_server, with its table of games
  RecoverRatio,  \* the 9 of log_recover_core's sanity check
  MaxRecover,    \* bound on the recovery count
  MaxCrash       \* bound on crashes and failed writes

WantModes == {"PLAY", "WATCH", "REPLAY"}
Modes     == WantModes \cup {"RECOVERQUIT"}
SaveKinds == {"diff", "backup"}
Kinds     == {"cmd", "input", "time", "over"} \cup SaveKinds
PCs       == {"idle", "launch", "status", "undo", "header", "sync", "run",
              "replay", "savereplay", "ask", "record", "write", "over",
              "closing", "check", "offer", "trunc"}

ASSUME NobodyAssumption == Nobody \notin Procs
ASSUME WantAssumption == Want \in [Procs -> WantModes]
ASSUME BoundsAssumption ==
  /\ RecoverRatio \in Nat \ {0}
  /\ MaxRecover \in Nat
  /\ MaxCrash \in Nat
ASSUME ServerAssumption == Server \in BOOLEAN

Event   == [kind : Kinds, val : Vals \cup {NoVal}]
History == Seq(Event)
Ev(k, v) == [kind |-> k, val |-> v]
NoEvent == Ev("time", NoVal)

VARIABLES
  lines,     \* the complete lines after the header
  saved,     \* saved[i]: what save line i holds, and what it is a diff against
  partial,   \* the file ends with an incomplete line
  status,    \* the status field of the header
  count,     \* the recovery count in the header
  writer,    \* the process that holds the write lock
  pc,        \* where each process is in nh_play_game
  mode,      \* program_state.followmode
  view,      \* the log part of program_state
  ask,       \* the event a process is about to write
  off,       \* the offset a process is about to recover to
  listed,    \* the server's table of games has the game as done
  ended,     \* how many times the end of the game was reported
  crashes    \* crashes and failed writes so far

fileVars  == <<lines, saved, partial, status, count>>
worldVars == <<listed, ended, crashes>>
vars == <<lines, saved, partial, status, count, writer, pc, mode, view, ask,
          off, listed, ended, crashes>>

Content == [state : History, base : History]
NoContent == [state |-> << >>, base |-> << >>]

\* expected: expected_recovery_count; eog: end_of_gamestate_location;
\* state: the gamestate; bsl, bsave: binary_save_location and binary_save;
\* gap: the save line that should come next was not there ("eof") or was
\* some other line ("skip").
View == [expected : Nat, eog : Nat, state : History,
         bsl : Nat, bsave : History, gap : {"no", "eof", "skip"}]
NoView == [expected |-> 0, eog |-> 0, state |-> << >>,
           bsl |-> 0, bsave |-> << >>, gap |-> "no"]

-----------------------------------------------------------------------------
\* State formulae

Free == writer = Nobody

\* lgetline_malloc at the end of the gamestate: a line, nothing, or half a line.
HasLine_bug(p) == view[p].eog + 1 < Len(lines)
HasLine(p)  == view[p].eog < Len(lines)
NextLine(p) == lines[view[p].eog + 1]
TornAt(p)   == partial /\ view[p].eog = Len(lines)

Matches(need, kind) == IF need = "save" THEN kind \in SaveKinds ELSE kind = need

\* What the engine of p does next; a gap means that it went on to its main
\* loop without a save line.
Needs(p) == IF view[p].gap # "no" THEN "cmd" ELSE Engine(view[p].state)

\* p is in the engine and is about to read input from the log.
WantsLine(p) == pc[p] = "run" /\ Needs(p) \in {"cmd", "input", "time"}

SaveLines == {i \in 1 .. Len(lines) : lines[i].kind \in SaveKinds}
LastSave  == CHOOSE i \in SaveLines : \A j \in SaveLines : j <= i

\* The three checks of start_updating_logfile.
CountMatches_bug(p) == TRUE
CountMatches(p) == view[p].expected = count
AtEof_bug(p) == TRUE
AtEof(p)        == view[p].eog = Len(lines) /\ ~partial
CanUpdate_bug(p) == status # "done" /\ AtEof(p)
CanUpdate(p)    == CountMatches(p) /\ status # "done" /\ AtEof(p)

Consumed_bug(v, e, n) == [v EXCEPT !.state = Append(@, e), !.eog = n, !.gap = "no"]

\* The view v once the line e, number n in the file, has been consumed.
Consumed(v, e, n) ==
  LET s == Append(v.state, e)
  IN  IF e.kind \in SaveKinds
      THEN [v EXCEPT !.state = s, !.eog = n, !.bsl = n, !.bsave = s, !.gap = "no"]
      ELSE [v EXCEPT !.state = s, !.eog = n, !.gap = "no"]

-----------------------------------------------------------------------------
\* Leaving nh_play_game: normal_exit runs log_uninit; RESTART_PLAY makes the
\* client give the same call again.

Goto(p, to) == pc' = [pc EXCEPT ![p] = to]

Leave(p, to) ==
  /\ Goto(p, to)
  /\ view' = [view EXCEPT ![p] = NoView]
  /\ ask' = [ask EXCEPT ![p] = NoEvent]
  /\ off' = [off EXCEPT ![p] = 0]
  /\ mode' = [mode EXCEPT ![p] = Want[p]]

Exit(p)    == Leave(p, "idle")
Restart(p) == Leave(p, "launch")

\* What start_updating_logfile does when the file may not be updated.
Refused(p) == IF CountMatches(p) /\ status = "done" THEN Exit(p) ELSE Restart(p)

\* log_recover_core up to its first question: a process that may not write
\* offers to reload or to leave, a player goes on to check the offset.
BeginRecover(p, o) ==
  \/ mode[p] # "PLAY" /\ (Restart(p) \/ Exit(p))
  \/ /\ mode[p] = "PLAY"
     /\ Goto(p, "check")
     /\ off' = [off EXCEPT ![p] = o]
     /\ ask' = [ask EXCEPT ![p] = NoEvent]
     /\ UNCHANGED <<mode, view>>

\* get_log_start_of_turn_offset: just past the current save line, or past the
\* last complete line when there is no line at binary_save_location.
StartOfTurn(p) == IF view[p].bsl <= Len(lines) THEN view[p].bsl ELSE Len(lines)

\* log_desync: skip ahead by restarting when a later save line exists, give
\* up the turn otherwise.
Desync(p, from) ==
  IF \E i \in SaveLines : i > from
  THEN Restart(p)
  ELSE BeginRecover(p, IF partial THEN Len(lines) ELSE StartOfTurn(p))

-----------------------------------------------------------------------------
\* Loading the game

\* The user starts the client on this game.
Open(p) ==
  /\ pc[p] = "idle"
  /\ Goto(p, "launch")
  /\ UNCHANGED <<fileVars, writer, mode, view, ask, off, worldVars>>

NeedsUndo_bug == FALSE
NeedsUndo == Server /\ status = "done" /\ ~listed

\* ccmd_play_game: done for the engine but not in the table means that the
\* end of the game has to be run again.
ChooseMode(p) ==
  /\ pc[p] = "launch" /\ Free
  /\ Goto(p, "status")
  /\ mode' = [mode EXCEPT ![p] =
       IF NeedsUndo THEN "RECOVERQUIT" ELSE Want[p]]
  /\ UNCHANGED <<fileVars, writer, view, ask, off, worldVars>>

\* The status switch at the start of nh_play_game, then log_init.
CheckStatus(p) ==
  /\ pc[p] = "status" /\ Free
  /\ mode' = [mode EXCEPT ![p] =
       IF status = "done" /\ @ \in {"PLAY", "WATCH"} THEN "REPLAY" ELSE @]
  /\ Goto(p, IF mode[p] = "RECOVERQUIT" THEN "undo" ELSE "header")
  /\ UNCHANGED <<fileVars, writer, view, ask, off, worldVars>>

\* log_maybe_undo_quit: recover to just before a final "Q".
UndoQuit(p) ==
  /\ pc[p] = "undo" /\ Free
  /\ view' = [view EXCEPT ![p].expected = count]
  /\ IF lines[Len(lines)].kind = "over"
     THEN Goto(p, "check") /\ off' = [off EXCEPT ![p] = Len(lines) - 1]
     ELSE Goto(p, "header") /\ UNCHANGED off
  /\ UNCHANGED <<fileVars, writer, mode, ask, worldVars>>

\* log_sync on a newly loaded file: read the header.
ReadHeader(p) ==
  /\ pc[p] = "header" /\ Free
  /\ view' = [view EXCEPT ![p].expected = count]
  /\ Goto(p, "sync")
  /\ UNCHANGED <<fileVars, writer, mode, ask, off, worldVars>>

\* The gamestate that save line k holds, loaded by a process whose recovery
\* count is c.
Loaded(c, k) ==
  LET s == Append(saved[k].state, lines[k])
  IN  [expected |-> c, eog |-> k, state |-> s, bsl |-> k, bsave |-> s, gap |-> "no"]

\* log_sync: walk to the last save line of the file, where half a line would
\* be found; a replay may go to any save line (LogSync has the details).
Sync(p) ==
  /\ pc[p] = "sync" /\ Free
  /\ \/ /\ ~partial \/ mode[p] = "REPLAY"
        /\ \E k \in SaveLines :
             /\ mode[p] = "REPLAY" \/ k = LastSave
             /\ view' = [view EXCEPT ![p] = Loaded(@.expected, k)]
        /\ Goto(p, "run")
        /\ UNCHANGED <<mode, ask, off>>
     \/ partial /\ BeginRecover(p, Len(lines))
  /\ UNCHANGED <<fileVars, writer, worldVars>>

\* The seek commands of a replay (nh_play_game calls log_sync again).
Seek(p) ==
  /\ WantsLine(p) /\ mode[p] = "REPLAY" /\ Needs(p) = "cmd"
  /\ Goto(p, "sync")
  /\ UNCHANGED <<fileVars, writer, mode, view, ask, off, worldVars>>

-----------------------------------------------------------------------------
\* Reading input from the log

\* Any read of the log that finds half a line at its end.
ReadTorn(p) ==
  /\ WantsLine(p) \/ pc[p] \in {"replay", "savereplay"}
  /\ Free /\ TornAt(p)
  /\ BeginRecover(p, Len(lines))
  /\ UNCHANGED <<fileVars, writer, worldVars>>

\* "Q" where input was expected: the game is already over.
ReadOver(p) ==
  /\ WantsLine(p) \/ pc[p] \in {"replay", "savereplay"}
  /\ Free /\ HasLine(p) /\ NextLine(p).kind = "over"
  /\ Exit(p)
  /\ UNCHANGED <<fileVars, writer, worldVars>>

\* log_want_replay: the line the engine wants is in the log.  The lock is
\* released before the line is read again and used.
SeeLine(p) ==
  /\ WantsLine(p) /\ Needs(p) # "cmd"
  /\ Free /\ HasLine(p) /\ NextLine(p).kind = Needs(p)
  /\ Goto(p, "replay")
  /\ UNCHANGED <<fileVars, writer, mode, view, ask, off, worldVars>>

\* log_replay_input and its variants; log_replay_command reads only once.
ReplayLine(p) ==
  /\ pc[p] = "replay" \/ (WantsLine(p) /\ Needs(p) = "cmd")
  /\ Free /\ HasLine(p) /\ NextLine(p).kind = Needs(p)
  /\ view' = [view EXCEPT ![p] = Consumed(@, NextLine(p), @.eog + 1)]
  /\ Goto(p, "run")
  /\ UNCHANGED <<fileVars, writer, mode, ask, off, worldVars>>

\* The line that was seen is gone: log_replay_no_more_options.
LineVanished(p) ==
  /\ pc[p] = "replay" /\ Free /\ ~HasLine(p) /\ ~TornAt(p)
  /\ Desync(p, Len(lines))
  /\ UNCHANGED <<fileVars, writer, worldVars>>

\* The log holds some other kind of line.
Mismatch(p) ==
  /\ WantsLine(p) \/ pc[p] = "replay"
  /\ Free /\ HasLine(p)
  /\ NextLine(p).kind \notin {Needs(p), "over"}
  /\ ~(view[p].gap = "eof" /\ NextLine(p).kind \in SaveKinds)
  /\ Desync(p, view[p].eog + 1)
  /\ UNCHANGED <<fileVars, writer, worldVars>>

\* The log ends here.  A player asks the user (or writes the time line), a
\* replay is finished, a recovered quit cannot go on except at a y/n prompt,
\* where it answers "q".  A watcher waits for the line; it waits for a time
\* line only so long.
NoLine(p) ==
  /\ WantsLine(p) /\ Free /\ ~HasLine(p) /\ ~TornAt(p)
  /\ \/ /\ mode[p] = "PLAY"
        /\ IF Needs(p) = "time"
           THEN Goto(p, "record") /\ ask' = [ask EXCEPT ![p] = Ev("time", NoVal)]
           ELSE Goto(p, "ask") /\ UNCHANGED ask
        /\ UNCHANGED <<mode, view, off>>
     \/ mode[p] = "REPLAY" /\ Exit(p)
     \/ mode[p] = "RECOVERQUIT" /\ Exit(p)
     \/ /\ mode[p] = "RECOVERQUIT" /\ Needs(p) = "input"
        /\ Goto(p, "record")
        /\ ask' = [ask EXCEPT ![p] = Ev("input", NoVal)]
        /\ UNCHANGED <<mode, view, off>>
     \/ mode[p] = "WATCH" /\ Needs(p) = "time" /\ BeginRecover(p, StartOfTurn(p))
  /\ UNCHANGED <<fileVars, writer, worldVars>>

-----------------------------------------------------------------------------
\* The user of a player process at a prompt

Answer(p) ==
  /\ pc[p] = "ask"
  /\ \E v \in Vals : ask' = [ask EXCEPT ![p] = Ev(Needs(p), v)]
  /\ Goto(p, "record")
  /\ UNCHANGED <<fileVars, writer, mode, view, off, worldVars>>

\* nh_exit_game(EXIT_QUIT): straight into done_noreturn.
Quit(p) ==
  /\ pc[p] = "ask"
  /\ ask' = [ask EXCEPT ![p] = Ev("over", NoVal)]
  /\ Goto(p, "record")
  /\ UNCHANGED <<fileVars, writer, mode, view, off, worldVars>>

\* The server cancel that follows another process's write: back to the log.
ServerCancel(p) ==
  /\ pc[p] = "ask" /\ (~AtEof(p) \/ ~CountMatches(p))
  /\ Goto(p, "run")
  /\ UNCHANGED <<fileVars, writer, mode, view, ask, off, worldVars>>

\* nh_exit_game(EXIT_SAVE): a player first updates the header.
Detach(p) ==
  /\ \/ pc[p] = "ask" /\ Free /\ (IF CanUpdate(p) THEN Exit(p) ELSE Refused(p))
     \/ WantsLine(p) /\ mode[p] \in {"WATCH", "REPLAY"} /\ Exit(p)
  /\ UNCHANGED <<fileVars, writer, worldVars>>

-----------------------------------------------------------------------------
\* Writing to the log

\* Input that was not read from the log is written to it before it is used:
\* start_updating_logfile, then the first bytes of the line.
BeginWrite(p) ==
  /\ pc[p] = "record" /\ Free
  /\ \/ /\ CanUpdate(p)
        /\ writer' = p /\ partial' = TRUE
        /\ Goto(p, "write")
        /\ UNCHANGED <<lines, saved, status, count, mode, view, ask, off>>
     \/ ~CanUpdate(p) /\ Refused(p) /\ UNCHANGED <<fileVars, writer>>
  /\ UNCHANGED worldVars

\* log_neutral_turnstate: a diff or a backup if this process can write one,
\* else whatever line another process has put there.
SaveTurn(p) ==
  /\ pc[p] = "run" /\ Needs(p) = "save" /\ Free
  /\ \/ /\ mode[p] = "PLAY" /\ CanUpdate(p)
        /\ \E k \in SaveKinds : ask' = [ask EXCEPT ![p] = Ev(k, NoVal)]
        /\ writer' = p /\ partial' = TRUE
        /\ Goto(p, "write")
        /\ UNCHANGED <<lines, saved, status, count, mode, view, off>>
     \/ /\ mode[p] = "PLAY" /\ (~CountMatches(p) \/ status = "done")
        /\ Refused(p) /\ UNCHANGED <<fileVars, writer>>
     \/ /\ \/ mode[p] # "PLAY"
           \/ CountMatches(p) /\ status # "done" /\ ~AtEof(p)
        /\ Goto(p, "savereplay")
        /\ UNCHANGED <<fileVars, writer, mode, view, ask, off>>
  /\ UNCHANGED worldVars

\* What the line that p writes holds.
Written(p) ==
  CASE ask[p].kind = "diff"   -> [state |-> view[p].state, base |-> view[p].bsave]
    [] ask[p].kind = "backup" -> [state |-> view[p].state, base |-> << >>]
    [] OTHER                  -> NoContent

\* The newline, then stop_updating_logfile(1).
EndWrite(p) ==
  /\ pc[p] = "write"
  /\ lines' = Append(lines, ask[p])
  /\ saved' = Append(saved, Written(p))
  /\ partial' = FALSE /\ writer' = Nobody
  /\ view' = [view EXCEPT ![p] = Consumed(@, ask[p], Len(lines) + 1)]
  /\ ask' = [ask EXCEPT ![p] = NoEvent]
  /\ Goto(p, IF ask[p].kind = "over" THEN "over" ELSE "run")
  /\ UNCHANGED <<status, count, mode, off, worldVars>>

\* A write fails: panic with half a line in the file.  log_backup_save clears
\* binary_save_location before it writes, so the offset may be useless.
WriteFails(p) ==
  /\ pc[p] = "write" /\ crashes < MaxCrash
  /\ crashes' = crashes + 1
  /\ writer' = Nobody
  /\ \E o \in IF ask[p].kind = "backup" THEN {0, Len(lines)} ELSE {StartOfTurn(p)} :
       BeginRecover(p, o)
  /\ UNCHANGED <<fileVars, listed, ended>>

\* log_replay_save_line, also called when a save line turns up after a gap.
ReplaySave(p) ==
  /\ \/ pc[p] = "savereplay"
     \/ WantsLine(p) /\ view[p].gap = "eof"
  /\ Free /\ HasLine(p) /\ NextLine(p).kind \in SaveKinds
  /\ LET n == view[p].eog + 1
         base == IF lines[n].kind = "backup" THEN << >> ELSE view[p].bsave
     IN  \/ /\ base = saved[n].base
            /\ view' = [view EXCEPT ![p] = Loaded(@.expected, n)]
            /\ Goto(p, "run") /\ UNCHANGED <<mode, ask, off>>
         \/ /\ base # saved[n].base   \* a diff against some other save
            /\ view' = [view EXCEPT ![p] =
                 [@ EXCEPT !.state = Append(base, lines[n]), !.eog = n, !.bsl = n,
                           !.bsave = Append(base, lines[n]), !.gap = "no"]]
            /\ Goto(p, "run") /\ UNCHANGED <<mode, ask, off>>
         \/ base # saved[n].base /\ Exit(p)
  /\ UNCHANGED <<fileVars, writer, worldVars>>

\* log_replay_save_line finds nothing in three seconds, or some other line.
NoSaveLine(p) ==
  /\ pc[p] = "savereplay" /\ Free /\ ~TornAt(p)
  /\ HasLine(p) => NextLine(p).kind \notin SaveKinds \cup {"over"}
  /\ view' = [view EXCEPT ![p].gap = IF HasLine(p) THEN "skip" ELSE "eof"]
  /\ Goto(p, "run")
  /\ UNCHANGED <<fileVars, writer, mode, ask, off, worldVars>>

-----------------------------------------------------------------------------
\* The end of the game

\* done_noreturn: "Q" first, if this process may write at all.
Die(p) ==
  /\ pc[p] = "run" /\ Needs(p) = "over"
  /\ IF mode[p] \in {"PLAY", "RECOVERQUIT"}
     THEN /\ ask' = [ask EXCEPT ![p] = Ev("over", NoVal)]
          /\ Goto(p, "record")
          /\ UNCHANGED <<mode, view, off>>
     ELSE Exit(p)
  /\ UNCHANGED <<fileVars, writer, worldVars>>

\* log_game_over: the header says "done".
LogGameOver(p) ==
  /\ pc[p] = "over" /\ Free
  /\ \/ /\ CanUpdate(p)
        /\ status' = "done" /\ Goto(p, "closing")
        /\ UNCHANGED <<mode, view, ask, off>>
     \/ ~CanUpdate(p) /\ Refused(p) /\ UNCHANGED status
  /\ UNCHANGED <<lines, saved, partial, count, writer, worldVars>>

\* Disclosure, bones, top ten, GAME_OVER; the server marks the game as done.
Close(p) ==
  /\ pc[p] = "closing"
  /\ ended' = ended + 1 /\ listed' = TRUE
  /\ Exit(p)
  /\ UNCHANGED <<fileVars, writer, crashes>>

-----------------------------------------------------------------------------
\* Failure and recovery

\* panic() in the engine.
Panic(p) ==
  /\ pc[p] = "run" /\ Free /\ crashes < MaxCrash
  /\ crashes' = crashes + 1
  /\ BeginRecover(p, StartOfTurn(p))
  /\ UNCHANGED <<fileVars, writer, listed, ended>>

\* log_recover_core checks the offset under a read lock ...
FileSize == Len(lines) + (IF partial THEN 1 ELSE 0)
OffsetSane_bug(o) == TRUE
OffsetSane(o) == o \in 1 .. Len(lines) /\ o * RecoverRatio >= FileSize
CheckOffset(p) ==
  /\ pc[p] = "check" /\ Free
  /\ IF OffsetSane(off[p])
     THEN Goto(p, "offer") /\ UNCHANGED <<mode, view, ask, off>>
     ELSE Exit(p)
  /\ UNCHANGED <<fileVars, writer, worldVars>>

\* ... and lets the user decide, unless it only undoes a "Q".
Decline(p) ==
  /\ pc[p] = "offer" /\ (mode[p] = "PLAY" \/ count = MaxRecover)
  /\ Exit(p)
  /\ UNCHANGED <<fileVars, writer, worldVars>>

\* The header that log_recover_core writes.
NextCount_bug == count
NextCount == count + 1
RecoveredStatus_bug == status
RecoveredStatus == "save"

\* The recovery count goes up first ...
LockToRecover(p) ==
  /\ pc[p] = "offer" /\ Free
  /\ \/ /\ CountMatches(p) /\ count < MaxRecover
        /\ count' = NextCount /\ status' = RecoveredStatus
        /\ view' = [view EXCEPT ![p].expected = @ + 1]
        /\ writer' = p
        /\ Goto(p, "trunc")
        /\ UNCHANGED <<mode, ask, off>>
     \/ /\ ~CountMatches(p)
        /\ Restart(p) /\ UNCHANGED <<count, status, writer>>
  /\ UNCHANGED <<lines, saved, partial, worldVars>>

\* ... then the end of the file goes.
Truncate(p) ==
  /\ pc[p] = "trunc"
  /\ lines' = SubSeq(lines, 1, off[p])
  /\ saved' = SubSeq(saved, 1, off[p])
  /\ partial' = FALSE /\ writer' = Nobody
  /\ IF mode[p] = "PLAY"
     THEN Restart(p)
     ELSE /\ Goto(p, "header")
          /\ off' = [off EXCEPT ![p] = 0]
          /\ UNCHANGED <<mode, view, ask>>
  /\ UNCHANGED <<status, count, worldVars>>

\* kill -9.  The kernel drops the lock; a line that was being written may be
\* there in part or not at all.
Crash(p) ==
  /\ pc[p] # "idle" /\ crashes < MaxCrash
  /\ crashes' = crashes + 1
  /\ partial' \in IF pc[p] = "write" THEN BOOLEAN ELSE {partial}
  /\ writer' = IF writer = p THEN Nobody ELSE writer
  /\ Exit(p)
  /\ UNCHANGED <<lines, saved, status, count, listed, ended>>

-----------------------------------------------------------------------------
Init ==
  /\ lines = <<Ev("backup", NoVal)>>
  /\ saved = <<NoContent>>
  /\ partial = FALSE /\ status = "save" /\ count = 1
  /\ writer = Nobody
  /\ pc = [p \in Procs |-> "idle"]
  /\ mode = Want
  /\ view = [p \in Procs |-> NoView]
  /\ ask = [p \in Procs |-> NoEvent]
  /\ off = [p \in Procs |-> 0]
  /\ listed = FALSE /\ ended = 0 /\ crashes = 0

Load(p) == ChooseMode(p) \/ CheckStatus(p) \/ UndoQuit(p) \/ ReadHeader(p) \/ Sync(p)
Read(p) == \/ ReadTorn(p) \/ ReadOver(p) \/ SeeLine(p) \/ ReplayLine(p)
           \/ LineVanished(p) \/ Mismatch(p) \/ NoLine(p)
           \/ ReplaySave(p) \/ NoSaveLine(p)
Write(p) == BeginWrite(p) \/ SaveTurn(p) \/ EndWrite(p)
Finish(p) == Die(p) \/ LogGameOver(p) \/ Close(p)
Recover(p) == CheckOffset(p) \/ LockToRecover(p) \/ Truncate(p)
User(p) == \/ Open(p) \/ Answer(p) \/ Quit(p) \/ ServerCancel(p) \/ Detach(p)
           \/ Seek(p) \/ Decline(p)
Fault(p) == Panic(p) \/ WriteFails(p) \/ Crash(p)

Next == \E p \in Procs :
          \/ Load(p) \/ Read(p) \/ Write(p) \/ Finish(p) \/ Recover(p)
          \/ User(p) \/ Fault(p)

Spec == Init /\ [][Next]_vars

\* A process that runs is scheduled, and the user of a game comes back to it;
\* nobody is bound to answer a prompt or the menu of a recovery, or to quit.
System(p) == \/ Load(p) \/ Read(p) \/ Write(p) \/ Finish(p)
             \/ CheckOffset(p) \/ Truncate(p)
             \/ mode[p] # "PLAY" /\ LockToRecover(p)
Fairness == \A p \in Procs : WF_vars(System(p)) /\ WF_vars(Open(p))
FairSpec == Spec /\ Fairness

-----------------------------------------------------------------------------
(***************************************************************************)
(* Properties                                                              *)
(***************************************************************************)

\* Every variable keeps its type.
TypeOK ==
  /\ lines \in Seq(Event) /\ Len(lines) >= 1
  /\ saved \in Seq(Content) /\ Len(saved) = Len(lines)
  /\ partial \in BOOLEAN /\ status \in {"save", "done"} /\ count \in Nat
  /\ writer \in Procs \cup {Nobody}
  /\ pc \in [Procs -> PCs] /\ mode \in [Procs -> Modes]
  /\ view \in [Procs -> View] /\ ask \in [Procs -> Event]
  /\ off \in [Procs -> Nat]
  /\ listed \in BOOLEAN /\ ended \in Nat /\ crashes \in Nat

\* What the engine accepts after the history h: the line it wants, or the
\* user quitting at a prompt.
Legal(h, k) ==
  \/ Matches(Engine(h), k)
  \/ k = "over" /\ Engine(h) \in {"cmd", "input", "over"}

\* The file can be replayed: each line is what the engine wanted after the
\* lines before it, whoever wrote it and whatever was truncated in between
\* (start_updating_logfile, log_recover_core).
Replayable ==
  /\ lines[1].kind = "backup"
  /\ \A i \in 2 .. Len(lines) : Legal(SubSeq(lines, 1, i - 1), lines[i].kind)

\* A save line holds the gamestate of the lines before it, and a diff was
\* taken against the save line before it (log_neutral_turnstate).
SavesTruthful ==
  \A i \in SaveLines :
    /\ saved[i].state = SubSeq(lines, 1, i - 1)
    /\ lines[i].kind = "diff" =>
         \E j \in SaveLines :
           /\ j < i /\ \A k \in SaveLines : k < i => k <= j
           /\ saved[i].base = SubSeq(lines, 1, j)

\* Processes that have loaded the game.
Playing == {"run", "replay", "savereplay", "ask", "record", "write", "over"}

\* A process whose recovery count is current has the gamestate of a prefix of
\* the file, and a binary save that is in the file.
CurrentViews ==
  \A p \in Procs :
    pc[p] \in Playing /\ view[p].expected = count =>
      /\ view[p].eog <= Len(lines)
      /\ view[p].state = SubSeq(lines, 1, view[p].eog)
      /\ view[p].bsl \in SaveLines /\ view[p].bsl <= view[p].eog
      /\ view[p].bsave = SubSeq(lines, 1, view[p].bsl)

\* The header says "done" only when the log ends in "Q" (log_game_over after
\* done_noreturn), and nothing follows a "Q".
DoneMeansOver ==
  /\ status = "done" => lines[Len(lines)].kind = "over" /\ ~partial
  /\ \A i \in 1 .. Len(lines) - 1 : lines[i].kind # "over"

\* ftruncate in log_recover_core never lengthens the file and never cuts into
\* its first save, although the offset was computed before the user was asked.
TruncationInside ==
  \A p \in Procs : pc[p] = "trunc" =>
    /\ writer = p
    /\ off[p] \in 1 .. Len(lines)

\* doc/saves.txt:234 "to prevent two processes trying to handle a game over
\* at once": of the processes whose game has not been recovered away under them,
\* at most one is in a game over, since the "Q" that log_record_input managed to
\* add is the only one of its count.
InGameOver == {p \in Procs : pc[p] \in {"over", "closing"}}
OneEndPerCount == Cardinality({p \in InGameOver : view[p].expected = count}) <= 1

\* The save file implements a shared game (SharedGame): what a process relies
\* on is the gamestate it has, as long as its recovery count is current.
Relied(p) == IF pc[p] \in Playing /\ view[p].expected = count
             THEN view[p].state ELSE Nobody

Shared == INSTANCE SharedGame WITH
  Vals <- Vals \cup {NoVal}, Unknown <- Nobody,
  hist <- lines, known <- [p \in Procs |-> Relied(p)], epoch <- count,
  cutting <- \E p \in Procs : pc[p] = "trunc", over <- status = "done"

\* A line is added only by a process that has the gamestate of the whole file,
\* the file is cut only under a new recovery count, and nobody who has the old
\* count keeps relying on what it read (the rules of doc/saves.txt:290-326).
SharesOneGame == Shared!Spec

\* The end of the game is in the file and in the header, but the server's
\* table does not have it yet: if the character died, the death is reported in
\* the end, whoever crashes, as long as the file can still be recovered.
Unreported == status = "done" /\ ~listed
Stuck == \/ count = MaxRecover
         \/ /\ status = "save" /\ lines[Len(lines)].kind = "over"
            /\ \A p \in Procs : pc[p] \notin {"over", "trunc"}
DeathReported ==
  (Unreported /\ Engine(SubSeq(lines, 1, Len(lines) - 1)) = "over")
    ~> (listed \/ Stuck)

=============================================================================
