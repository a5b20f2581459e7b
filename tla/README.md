# A verification of NetHack Fourk

NetHack Fourk keeps each game in one append-only text file. The file is at once
the save file, the replay, and the channel by which several processes share a
live game: the one that is played, others that watch it, a second connection of
the same player, a replay. No process is in charge. What makes this work is a
protocol of file locks and signals (`libnethack/src/files.c`), a set of rules for
writing and recovering the file (`libnethack/src/log.c`, `doc/saves.txt`), and a
main loop that can be restarted from the file at any moment
(`libnethack/src/allmain.c`). Over the network the same game is played through a
client library that reconnects and jumps back to the main loop
(`libnethack_client`) and one server process for each connection
(`nethack_server`). Inside a turn, a few bookkeepers keep the gamestate whole over
sequences of commands that nobody wrote down: the shared action counter, the
timers and lights of objects, the shopkeeper's bill.

This directory holds TLA+ models of these parts, TLC runs over them, and TLAPS
proofs about the save file (that it implements one shared game, whatever is
recovered or crashes), about its lock, about seeking in it, about the network
protocol, about the turn, about objects with their timers and about the bill.

## 1. Inventory

| Component | State | Operations | Hard because |
|---|---|---|---|
| Save log, `log.c` | header (status, recovery count, version), lines, per-process `program_state`: expected recovery count, end-of-gamestate offset, binary save and its offset | record a command, an answer, a time line, a save diff or backup, `Q`; replay each of them; recover; redo a game over; restart | several processes; crashes in mid-line; offsets and diffs that go stale in a recovery |
| Seeking, `log_sync` in `log.c` | binary save location, backup location, the hint in the first save line, the chain of backups | go to a byte, a turn, the end | runs while others write; hint may be wrong; first and last line; targets before, inside and after turns |
| File locks, `files.c` | fcntl lock, lock type, watcher list, two counters, signal masks | `change_fd_lock`, handlers for SIGRTMIN+0 to +4 | asynchronous signals, timeouts, upgrade deadlocks |
| Play loop and exits, `allmain.c`, `end.c` | follow mode | load, play a turn, seek, quit, die, exit codes | every exit may be followed by a restart from a file that changed |
| Prompts, `windows.c` | whether a server cancel is pending | ask the log, then the user | the answer may come from another process |
| Server's game command, `clientcmd.c`, `db_pgsql.c` | table of games (done or not) | choose a follow mode, report the end | table and file disagree for a while |
| Binary saves and diffs, `memfile.c`, `save.c`, `restore.c` | byte buffer, diff buffer, hash tables | `mwrite`, `mdiffflush`, `mdiffapply` | limits of operand widths |
| Network client, `libnethack_client` | socket, buffer of unread messages, two jump buffers with their valid flags, nested requests | connect, disconnect, request, answer, receive, reconnect, check the socket at a prompt | lines break at any byte; answers and cancels cross; a request is sent again |
| Server connection, `nethack_server` | stage (auth, commands, game, prompt), whose turn it is to send | read one message, run a command, ask the client, cancel, terminate | a cancel is asynchronous; some commands may run at a prompt |
| Who acts in a turn, `allmain.c`, `mon.c`, `worn.c`, `makemon.c` | turn counter, one action counter, speed and offset of each actor | act, pass, turn boundary, change of speed, birth, death | points are never stored: they follow from four numbers modulo 12 |
| Timers and lights, `timeout.c`, `light.c` | per level a queue of timers and a list of lights that point at objects | start, stop, run, burn, split, transfer | found through the level that the object points at |
| Objects, `mkobj.c`, `invent.c`, `pickup.c`, `do.c`, `dog.c` | the chain an object is on, its level, stacks | split, merge, move, free, carry to another level | the chains are many and each caller does its part |
| Shops, `shk.c` | bill of object ids, chain of used up goods, credit, debit, loan, robbed, mood | add, split, give back, use up, alter, steal, sell, pay, leave | conservation over long sequences |
| Occupations, regions, worms, vault guard, steed | small machines on the map | | |
| Level generation, game rules, display, interface, tools | | | data, not protocol |

How they interact: the play loop calls the log to load (`log_init`, `log_sync`),
asks it for each command and each answer (`log_replay_*`, `log_record_*`), and
calls `log_neutral_turnstate` after each turn. The log takes and gives up locks
for each of these. A lock that another process wants arrives as a signal; when
the other has written, the handler raises a server cancel, which makes a waiting
prompt look at the log again. Errors do not return: `panic`, a desync and a
refused append all end in `terminate`, and the play loop starts over from the
file. The server runs one process per connection and compares the file's header
with its own table of games. Messages alternate: a request of the client, then
callbacks of the game and the client's answers, then the response; a server
cancel alone may come at any time. Within the gamestate the parts call each
other directly: splitting an object splits its timers, lights and bill entry,
merging joins them, and freeing it must find all of them.

What makes each modelled component correct:

* Save log: at all times the file is a legal game; what a process holds is a
  prefix of the file unless the file was recovered in between; a save line holds
  what it claims, against the right base; the header says "done" only after the
  `Q`; a recovery cuts inside the file; a watcher reads everything; an end that
  is in the file is reported.
* Seeking: ends at the last save before its target; backups form one chain.
* Locks: a lock is kept until given up; no process relies on a file that was
  written behind its back; what is waited for comes; nobody starves.
* Network: the server never gets a message that its state does not expect; a
  message that the client takes is for the request that waits; the two never
  wait for each other; a jump out of nested calls lands; every call ends.
* Turn: everybody gets the actions that its speed promises, and the hero's turn
  comes.
* Objects: each timer and light is where its object says, once, and is gone with
  it; fuel is neither won nor wasted; no piece is made or lost.
* Shops: the bill and the objects agree; what is on the bill is what was taken
  and not paid for; prices follow the mood; paying ends.

## 2. Modules

| Module | Models | Kind |
|---|---|---|
| `SaveLog` | `log.c`, with the parts of `allmain.c`, `end.c`, `windows.c`, `clientcmd.c` and `db_pgsql.c` that touch the save file | state machine |
| `SharedGame` | what the save file promises, without a file: one history, extended only by who knows all of it, taken back only in a new epoch | abstract specification |
| `MCSaveLog` | two small game engines and the process sets for TLC | instance |
| `SaveLogProofs` | type correctness and the recovery protocol of `SaveLog`, what processes with the current recovery count have of the file, what the save lines hold, that the file can be replayed, the end of the game, and that `SaveLog` implements `SharedGame`, for all values of its constants | proofs |
| `FdLock` | `change_fd_lock` and its signal handlers | state machine |
| `LogSync` | `log_sync` and the backup chain | state machine |
| `LogSyncProofs` | that seeking finds the right save line, for files of any length | proofs |
| `NetPlay` | the client library and one server process for each connection, composed over a line that breaks | state machine |
| `NetPlayProofs` | types and the safety of `NetPlay`, for all values of its constants | proofs |
| `Objects`, `MCObjects` | timed and lit objects, their timers and lights, and the levels | state machine, its small worlds |
| `ShopBill`, `MCShopBill` | a shopkeeper's books | state machine, its small shop |
| `Turn` | who acts in a turn | state machine |
| `TurnProofs` | types and fair shares of `Turn`, for all values of its constants | proofs |
| `FdLockProofs` | types, kept locks, news of writes and the count of signals in `FdLock`, for all values of its constants | proofs |
| `ObjectsProofs` | types, and that timers and lights stay with their objects, for all values of the constants of `Objects` | proofs |
| `ShopBillProofs` | types and the agreement of bill, objects, pieces and prices in `ShopBill`, for all values of its constants | proofs |
| `SumTheorems` | sums of a function over a finite set: how they change with the function and the set | proofs of lemmas |

### SaveLog

*The file.* `lines` is the sequence of complete lines after the header, `partial`
says that half a line follows them, `status` and `count` are the header's two
changing fields. `saved[i]` is what save line `i` really holds: the state that was
saved and the base that the diff was taken against. That is kept apart from what
the line should hold, so that a diff against a stale base is a possible error.
A line is an event with a kind and a value. `writer` is the process with the write
lock.

*The game.* The engine is deterministic in what it reads from the log (the rule
the whole design stands on), so a gamestate is represented by the history of the
events it has consumed, and `Engine(h)` is what kind of line the engine wants
after `h`: a command, an answer, a `+` time line, a save line, or the end of the
game. `Engine` is a constant: the proofs hold for every engine.

*A process.* `pc` follows `nh_play_game`: `launch` and `status` (the server's and
the library's choice of follow mode), `undo` (`log_maybe_undo_quit`), `header` and
`sync` (loading), `run`, `replay` (a line was seen and the lock given up before it
is replayed), `savereplay`, `ask` (at a prompt), `record`, `write`, `over`,
`closing`, and `check`, `offer`, `trunc` for `log_recover_core`. `view` is the log's
part of `program_state`.

| Actions | Code |
|---|---|
| `Open`, `ChooseMode`, `CheckStatus`, `UndoQuit`, `ReadHeader`, `Sync` | `ccmd_play_game`, `nh_play_game`, `log_init`, `log_maybe_undo_quit`, `log_sync` |
| `SeeLine`, `ReplayLine`, `LineVanished`, `Mismatch`, `ReadTorn`, `ReadOver`, `NoLine` | `log_want_replay`, `start_replaying_logfile`, `log_replay_*`, `log_replay_no_more_options`, `log_time_line` |
| `Answer`, `Quit`, `ServerCancel`, `Detach`, `Seek` | the prompt template, `nh_exit_game`, the replay keys |
| `BeginWrite`, `EndWrite`, `WriteFails`, `SaveTurn` | `start_updating_logfile` to `stop_updating_logfile`, `log_record_*`, `log_neutral_turnstate`, `log_backup_save` |
| `ReplaySave`, `NoSaveLine` | `log_replay_save_line` |
| `Die`, `LogGameOver`, `Close` | `done_noreturn`, `log_game_over`, the end of `ccmd_play_game` |
| `Panic`, `CheckOffset`, `Decline`, `LockToRecover`, `Truncate` | `panic`, `log_recover_core` |
| `Crash` | `kill -9`, leaving half a line or none |

Abstractions: offsets are line numbers. Lock calls succeed (their protocol is
`FdLock`), so that every step on the file happens while nobody writes.
`CheckOffset` puts the sanity checks of `log_recover_core` on the offset into one
step, as the code makes them under one lock. A watcher never recovers a torn
file: `log_recover_core` gives it a different menu. The bound `MaxRecover` makes
`Decline` possible in the recovery of a game over, where the code has no menu.

### FdLock

`fl` is the kernel's lock, `pend[p][s][q]` the queued real-time signals, `lt` what
the process believes, `inc` and `out` the two counters, `watch` the watcher list,
`hand` where the handler is (waiting in `pselect`, or in the blocking `F_SETLKW`),
`shut` the masks with which `change_fd_lock` was left. `Call`, `Lock`, `Refuse`,
`Ask`, `Return` are the phases of `change_fd_lock`; `HandleRequest`,
`HandleAnother`, `HandleRelease`, `HandleAnswer`, `SelectEnds`, `Relock` those of
the handlers; `SelectTimeout`, `Alarm`, `Die` the faults. This is the Linux variant
with `sigqueue`. Which of several senders' signals comes first is left open,
which allows more than a kernel does.

### LogSync

A player appends, recovers and reloads; a viewer seeks. `bsl` and `sbl` are
`binary_save_location` and `save_backup_location`, `hint` the field of the first save
line. `Load`, `Ahead`, `Back`, `Walk` are the four phases of `log_sync`, with a step
for each time it gives up its lock; the six replay keys are its callers. The
check on `last_sloc` is not modelled: the chain leads strictly back
(`ChainWhole`, which is proved), so it never fires.

### NetPlay

`cl.stack` is the client's C stack, one frame for each nested `send_receive_msg`
(with what it sends, what it waits for and how many retries are left), under one
frame for the user interface. `ex` and `play` are the frames that `ex_jmp_buf` and
`playgame_jmp_buf` lead to, `exs` and `playok` their valid flags: a frame may be
gone while its flag is still set, and then a jump sets `crashed` and the client stops. `unread` and
`torn` are the buffer of unread messages, which outlives the connection. Each
connection has two queues, `up`, and its server process: `st` is where it is,
`can` is `can_send_msg`. A message carries the number of the API call it belongs
to, which the code does not have and no guard reads.

| Actions | Code |
|---|---|
| `Connect`, `Disconnect`, `Call` | `nhnet_connect`, `nhnet_disconnect`, `api_entry` of the API functions |
| `Send`, `Retry`, `Recv`, `EndOfFile`, `Timeout`, `Receive` | `send_json_msg`, the loop of `send_receive_msg`, `receive_json_msg` |
| `Restart`, `Restarted`, `NotRestarted` in these | `restart_connection`, `do_connect` and who called them |
| `Answer`, `TakeCancel`, `Check`, `Checked` | `handle_netcmd` and its callbacks, `nh_wgetch`, `nhnet_check_socket_fd` |
| `ReadInput`, `Game`, `Cancel`, `Lost`, `Terminate` | `read_input` with `client_main_loop` and `client_request`, `client_msg`, `client_server_cancel_msg`, `exit_client`, `signal_quit` |
| `Break` | the network; each side still gets a prefix of what was sent, the client perhaps half a message |

Abstractions: `load_progress` (read and skipped), commands that take no time,
what messages carry, display data. The test of the connection before a request
is there as what it does: it calls `select` with 1 where the socket's number plus
one was meant, and so never finds anything. Likewise the test for broken JSON
compares a position with a length that is always 0.

### Objects

The world is one record, so that the operators for the code's helpers compose:
objects with their chain (`where`), level (`lev`, the code's `olev`), quantity,
remaining fuel (`age`), number of timers (`timed`) and `lit`; the set of timers,
each on a level; and for each level and object the number of its lights. Places
on one level, containers inside containers and weights are left out; the magic
chest's contents are on one chain for all levels, as in the code. Goods that fall
down a hole arrive at once. `strayed` is history: a companion, a migrating monster
or the magic chest has carried the object to another level without
`set_obj_level`.

`PickUp`, `Drop`, `PutIn`, `TakeOut`, `Light`, `UseUp` are the hero's commands, `Bury`,
`Unearth` and `Fall` what happens on the floor, `MonPick`, `MonDrop`, `MonLeaves`,
`MonDies` the monster's, `Leave` is `goto_level` with `keepdogs` and `losedogs`, `Fire`
is one turn of the loop of `run_timers`. `PickUp`, `Drop`, `PutIn` and `TakeOut` take
any part of a stack. `Light` is `use_lamp` with all that follows: what is put out is
taken from the inventory and joins each stack that it fits (`Restack`), and the
merged stack goes on from there. `Merge` gives the new stack the mean age only of
stacks that do not burn (`NewAge`); of two that burn, one keeps its timer and the
other's is stopped.

### ShopBill

`w.bill` is the shopkeeper's array with ids, quantities, `useup` and prices; an
entry struck off is replaced by the last one, as in the code. `w.obj` has where an
object is and its two flags; `onbill` is the chain of used up goods. `owed` is
history: pieces taken and neither brought back, nor paid for, nor let off, and it
is counted where the goods move, not where the bill changes. `at` is where `dopay`
is in its two passes over the bill: it asks for each entry and pays it in a step
of its own. Prices depend on the object's id only; charisma, hats and level do
not change a bill that stands.

The shopkeeper's mood has two halves, as in the code: `angry`, which fighting
(`Attack`, `setmangry`) and music (`Calm`, `tamedog`) change, and `surcharge`, which
`rile_shk` and `pacify_shk` keep in step with the prices. `ShopKeeper` is
`shop_keeper()`, which every use of the shop goes through and which makes the second
follow the first; it is part of the actions after which the code calls it before
anything else looks at the bill. `Tame` is `make_happy_shk` from a scroll. So he is
riled and calmed with goods on the bill as often as one likes. `inactive` is
`bill_inactive`: `Enter` sets it when the shopkeeper is out (teleported away, `SendAway`,
or following the hero, `Pursue`), `Home` clears it when he is back, and meanwhile
`rile_shk`, `pacify_shk` and `dopay` do nothing. Gold that is picked up with a full bill
is free, as goods are.

### Turn

`act[a]` has an actor's speed (`mmove`, `mspeed`, web, nitro) and `moveoffset`; `actions`
is the shared `flags.actions`; `pc` says whether the hero acts, `movemon` is at work
(`todo` is the part of the list it has not reached) or the turn ends. The turn
counter is kept modulo 12, which is all that the computations see. `due` and `deal`
are history: points given less points spent, and whether the speed was changed
this turn. An action may bring about one effect: a change of a monster's speed, its
death or the birth of another one. A galloping steed and the offsets of old saves
are left out.

## 3. Runs

| Run | Shows | Distinct states |
|---|---|---|
| `SaveLog_local` | two players of one local game: `TypeOK`, `Replayable`, `DoneMeansOver`, `TruncationInside`, `CurrentViews`, `SavesTruthful`, `OneEndPerCount` | 952 006 |
| `SaveLog_watch` | player, watcher, replay: `CurrentViews`, `WatcherCatchesUp` | 47 398 |
| `SaveLog_server` | two connections to a server: the refinement `SharesOneGame`, and `DeathReported` | 302 048 |
| `FdLock_three` | three processes, no faults: `AnswersComing`, `ReleasesComing`, `LockGranted` | 88 000 |
| `FdLock_faults` | two processes with timeouts, deaths and leaving: `TypeOK`, `LockKept`, `Informed` | 168 000 |
| `LogSync_seek` | `TypeOK`, `BackupBehind`, `ChainWhole`, `SyncReachesTarget`, `SyncEnds` | 307 000 |
| `NetPlay_line` | `TypeOK`, `Served`, `InStep`, `NoMutualWait`, `CallsEnd` | 556 011 |
| `Objects_tracked` | `TypeOK`, `Owned`, `FuelHonest`, `Conserved` | 909 420 |
| `ShopBill_books` | `TypeOK`, `BillAgrees`, `PiecesBilled`, `PricesMatchMood`, `LoanInDebit`, `PayEnds` | 871 799 |
| `Turn_turns` | `TypeOK`, `FairShare`, `HeroGetsTurn` | 591 090 |
| `LogSync_back` | violates `BackKeysStop` | |
| `Objects_strays` | violates `NoGhosts` | |

### What the violations mean

* `BackKeysStop`: `min(x, 1)` where `max(x, 1)` was meant, in both keys.
* `NoGhosts`: the timers of what companions carry follow the hero to a new level,
  but the objects keep pointing at the old one (`mon_arrive` repairs `olev` only where
  it is NULL). When such an object is freed, its timers are looked for on the old
  level, stay in the queue, and later run on freed memory.

### Where the code does less than its documents say

These were found while the models were written; the passing properties state what
does hold, and except what does not.

* A reader goes on at its old offset without looking at the recovery count
  (`log.c:1462`). If the file was cut below that offset and has grown past it again,
  a watcher plays the new lines on its old gamestate until the next save line,
  although `doc/saves.txt:323` says that all processes have the same opinion.
  `CurrentViews` holds: processes with the current count agree.
* A second connection to a server may redo a game over while the first is still in
  it (`clientcmd.c:325`, `doc/saves.txt:233`). `OneEndPerCount` holds.
* A crash between `Q` and the header's "done" leaves a game that nobody can finish
  (`end.c:1207`, `doc/saves.txt:267`). `DeathReported` excepts it.
* `FM_RECOVERQUIT` redoes a death but not a quit: the game is open again
  (`allmain.c:517`, `log.c:162`). `DeathReported` speaks of deaths only.
* Setting a signal to `SIG_IGN` discards a pending request to unlock, so that the
  other side waits for its alarm (`files.c:730`, `files.c:792`). `AnswersComing` is
  checked of processes that stay with the file.
* Both jump buffers of the client can lead to a function that has returned.
  `api_entry` counts the API functions on the stack (`nhclient.h:41`); a longjmp out of
  them (`connection.c:356`, `netcmd.c:801`, and the jump to play_game over the calls
  above it) does not count down, and from then on `ex_jmp_buf` is never set again.
  With `~cl.crashed` as an invariant TLC finds a way there in 12 steps: a call is left
  because the line is down and does not come back, the user connects again, and the
  next error jumps to where that call was. And `cmd_server_error` leaves
  `nhnet_play_game` through `ex_jmp_buf` with `playgame_jmp_buf_valid` still set
  (`netcmd.c:801`), against `connection.c:313` ("only set while `playgame_jmp_buf` is
  actually on the call stack"). `CallsEnd` excepts jumps
  that go astray so (`Astray`), and says that there is no other way: while the count
  of `api_entry` is that of the API functions on the stack, that is until the first of
  them has been left by a longjmp, every longjmp lands, through either buffer.
* A new monster's offset has the wrong sign (`makemon.c:1179`), so that it may act
  in the turn it comes in. `newcham`, webs and the burst of a thief change speeds
  without `adjust_move_offset`, and `mcalcmove`, which "needs to be deterministic"
  (`mon.c:645`), counts a web down at each call. `FairShare` takes such monsters in at
  the next turn boundary.
* `mergable` compares `age / 25` to "allow candle merging only if their ages are close"
  (`invent.c:2257`), but the age of a lit candle is the stage at which its timer ends,
  with the rest of its fuel in the timer: lit candles merge whatever they have left, and
  `merged` stops one of the timers (`invent.c:265`). `FuelHonest` says that the stack
  that is left burns on as it did, and lets only unlit stacks of close age take the
  mean.
* A shopkeeper who is out when the hero comes (back) into the shop has an inactive bill
  (`shk.c:495`), and cannot be paid for what was stolen (`shk.c:1260`). `rile_shk` and
  `pacify_shk` return with an `impossible()` too (`shk.c:969`, `shk.c:993`), so that an
  attack on him changes his mood and not his prices. `PricesMatchMood` excepts this,
  and says that the bill is empty then.
* The shopkeeper's `robbed` is cleared by any contribution (`shk.c:2727` subtracts a
  comparison); `make_angry_shk` counts a loan twice; `setpaid` does not look into the
  magic chest.

### Bounds

`MaxLen` (3 or 4) ends the small games: the character dies at the first save after
so many lines, so that a log holds up to three save lines, which is what a diff
against a stale base needs, plus the end of the game. Two values for commands and
answers tell two histories of one length apart. `MaxRecover` 3 allows two
recoveries, and two of them are needed for an offset to go stale; `MaxCrash` 2
in the local run counts panics, failed writes and kills, so that each of two
processes can be in a recovery at once. `RecoverRatio` is 2 where the code has 9,
so that the check of the offset can fail in a short file. Each fault is possible
at any step. In `FdLock`, three processes are needed for a request that crosses a
third one's; `MaxOps` bounds the calls of each, `MaxFaults` the timeouts and deaths.
In `LogSync`, `Steps` are the turns a command may take (none, one, more than
`Fifty`, which is 2 for the code's 50); `MaxLines` 4 gives two backups with a diff
between them.

In `NetPlay`, one retry (3 in the code) separates the first failure from the last;
two connections are one reconnection; three nested calls are a game, a query at
its prompt and one more; one cancel can cross any of them. In `Objects`, the three
worlds are a stack of candles (split, merge, burn), a candle and a lamp (nothing
merges), and corpses with a bag (rotting in and out of it); `MaxTime` 2 lets a
candle of age 2 change and burn out; two levels are what `olev` can be wrong about.
Struct 3 is the only spare one, so that one split is possible at a time. In
`ShopBill`, a stack of two in a shop whose bill has room for two entries can be
split, partly used and overfull; four ids allow the dummies and remainders. The hero
owns nothing at the start: what he alters or pays for becomes his.
`MaxSum` 2 bounds what is owed. In `Turn`, speeds 9 and 18 have a fraction of an
action over in most turns, 0 and 16 are a hero that cannot act and one that acts
once or twice; one effect per behaviour, at any point of it. Larger instances of
`Turn` (two effects for speed 9, three for one monster) were run once and hold.

`SaveLog_local` uses symmetry of the two players; no temporal property is checked
there. Deadlock is checked in `Turn_turns`, and off elsewhere: there the system may
stop (all users have left, all bounds are reached).

### Fairness

`SaveLog!Fairness`: a process that has something to do without its user is
scheduled, and the user of a game comes back to it at some time (`Open`), which on
a server is what makes a lost game over visible at all. Nobody has to answer a
prompt or the menu of a recovery, to quit or to decline. `FdLock!Fairness`: handlers
and the loop of `change_fd_lock` run, and every read or write lock is given up
again, as the code's callers all do (`start_updating_logfile` and
`stop_updating_logfile`, and the pairs of `LT_READ` and `LT_MONITOR`).
`LogSync!FairSpec`: `log_sync`, once begun, goes on. `NetPlay!FairSpec`: the library's
code and each server process run on; users may leave a prompt alone and lines may
never break. `ShopBill!FairSpec`: a user who is asked about the entries of a bill
answers. `Turn!FairSpec`: `you_moved` runs on; the player may take his time. All
fairness is weak.

## 4. Proofs

### SaveLogProofs

For every set of processes, every engine and every bound:

* `RecoveryProtocol`: `Spec => []CutInv`
* `TypeCorrect`: `Spec => []TypeOK`
* `TruncationSafe`: `Spec => []TruncationInside`

The assumptions are those of `SaveLog`: `Nobody` is no process, `Want` is a function
to the three modes, the bounds are numbers, `Server` is a Boolean. Nothing is
assumed of the engine.

Even type correctness needs an invariant. `TypeOK` says that the file is never
empty (`log_newgame` writes the first save before anybody else opens it), and
`Truncate` cuts the file at an offset that was computed and checked several steps
earlier, before a menu, with no lock in between. The offset is still good because:

1. (`Offers`) it lies in the file as long as the process's recovery count is the
   header's, because appends only lengthen the file, and
2. every cut is preceded by a new count, after which only the process that cuts
   has the current count (`Cutter`), as nobody expects a count that was not yet
   given out (`Counts`), and
3. a cut happens only under the write lock, which nobody else has then (`Writers`).

`CutInv` is the conjunction, with `Prompts` (a user is asked only for a command or
an answer, which gives the type of what is then written). The proof has one lemma
for each group of actions: `Type...` that it keeps the types, `Cut...` that it keeps
the rest. `PlainStep` covers the many actions that change nothing but one process's
local state. `CutNext` joins them, and the theorems add the temporal step.

### SaveLogProofs, second part: views and the game

From the same assumptions, again for every engine, any number of processes and any
bounds:

* `ViewsAreGood`: `Spec => []ViewInv`, and from it `ViewsAreCurrent`
  (`Spec => []CurrentViews`) and `SavesAreTrue` (`Spec => []SavesTruthful`)
* `LegalSteps`: `Spec => []LegalInv`, and from it `FileIsReplayable`
  (`Spec => []Replayable`)
* `EndsOnce`: `Spec => []OverInv`, and from it `DoneIsOver` (`Spec => []DoneMeansOver`)
  and `OneProcessEnds` (`Spec => []OneEndPerCount`)
* `FileIsShared`: `Spec => SharesOneGame`, that is `Spec => Shared!Spec`

The invariants build on each other, `CutInv` first. Each has one lemma for each group
of actions, and the hazard that each is about sits in one of them.

1. `ViewInv`. A process may read a line, be overtaken, and go on with what it has. Its
   gamestate is nevertheless that of a prefix (`GoodView`) for as long as its count is
   current, because the file only grows then. The delicate step is the replay of a
   diff: `DiffFits` shows that the diff that comes next in the file was taken against
   the very save that the process holds, so the alternative in `ReplaySave` that decodes
   a diff against another save is never taken by a process that is current. It is why
   `GoodSaves` has to speak of the *last* save line before a diff. `WriterAtEnd` (between
   the two halves of a write the writer has consumed the whole file, and the header does
   not say "done") is what `start_updating_logfile` checks for.
2. `LegalInv`. The line to be written was asked for earlier, by an engine that may have
   been left behind since. `Acceptable` says that it is what the engine wants after
   what its process has consumed; `WriterAtEnd` turns that into the lines of the file.
   The hard case is a player that waits for the save line of another process and goes
   on without it after three seconds (`NoSaveLine`), as its engine then has a command
   where the file wants a save: `SaveComes` and `SaveFound` show that a player with the
   current count always finds the line, and `NoGap` that it has no gap. Processes in
   the other modes may have one, and none of them writes as long as it does.
3. `OverInv`. Whoever plays on has not consumed a "Q" (`PlaysOn`), so a writer, who has
   consumed everything, writes to a file without one (`LastOver`), and who has written
   the "Q" is the only one with the current count to end the game (`EndsAlone`,
   `OverEndWrite`). A recovery takes back "done" before it cuts (`CutsPlayed`), so that a
   crash between the two leaves the header right (`HeaderDone`).
4. The step simulation `GameNext`. `EndWrite` is `Extend`, `LogGameOver` is `End`,
   `LockToRecover` is `Begin`, `Truncate` is `Settle`, and so is the death of the process
   that cuts. All other steps are `Learn` or a stutter (`QuietKeepsFile`,
   `QuietKeepsCut`, `QuietLearns`). It needs all four invariants.

### TurnProofs

For every finite set of monsters, every set of speeds, offsets and amounts, and
any number of effects:

* `Bookkeeping`: `Spec => []FairInv`
* `TurnTypes`: `Spec => []TypeOK`
* `SharesAreFair`: `Spec => []FairShare`

The assumption is `TurnAssumption`: speeds and amounts are natural numbers, offsets
are below 12. `FairShare` speaks of points that nobody stores, and of two moments
only. The inductive invariant `FairInv` says what holds in between: `AllFair` relates
each actor's `due` to its position modulo 12 and to the action counter, with one
action of difference between actors that `movemon` has and has not reached;
`HeroKept` (the hero's amount changes at the boundary only), `HeroCan` (at the
player's prompt he can act), `BoundaryDue` (the boundary comes only when nobody can
act any more) and `Unmoved` (in a pass in which nobody has moved, nobody can) carry
it over the loop. Three arithmetical lemmas do the work: `NextPosition`, that a turn
adds the speed to the position modulo 12; `Balance` and `PointsNext`, that what is left over
and the speed make the points of the next turn; `AdjustedFacts`, that
`adjust_move_offset` keeps the position. Then one lemma for each way a record
changes: `ActFair`, `SkipFair`, `ChangesFair`, `NextTurnFair`.

### FdLockProofs

For every set of processes, with or without processes that leave the file, and any
number of timeouts and kills:

* `LockProtocol`: `Spec => []IInv`
* `LockTypes`: `Spec => []TypeOK`
* `LocksAreKept`: `Spec => []LockKept`
* `WritesAreHeard`: `Spec => []Informed`
* `SignalsBalance`: `Spec => []Balanced`, and from it, if `~Uninit`, `AnswersAreComing`
  (`Spec => [](faults = 0 => AnswersComing)`) and `ReleasesAreComing`
  (`Spec => [](faults = 0 => ReleasesComing)`)

The assumptions are `ProcsAssumption` (process IDs are finitely many numbers; the
finiteness is used for the sums only) and `LimitsAssumption` (the bounds are numbers).
`Informed` relates who knows of a write to who may lock the file, over calls, handlers
and faults, and the signals that `change_fd_lock` counts so carefully play no part in
it: they serve progress (`AnswersComing`, `ReleasesComing`, `LockGranted`). Safety follows
from the locks themselves. A process that holds any lock has heard of every write
(`HoldersKnow`), because a write ends, or its writer dies, while the writer still
excludes everybody else (`Exclusive`, `WritersUndisturbed`), and because a process that
uses the file is without a lock only in the handler, which locks it again and then
looks at it (`NeverEmptyHanded`). `WritersUndisturbed` is the part that needs the
masks: `RequestsMasked` shows from `Believed` and `Counted` that a writer takes no
request, neither outside `change_fd_lock`, where 0 to 3 are masked, nor in it, where it
would have to wait first and nobody can make it wait. `Alarm` leaves a process with
the lock it had, and `Die` with none.

The second invariant, `Balance`, counts the signals. The conditions `~Uninit` and
`faults = 0` are those of the run `FdLock_three`, and they are needed: a process that
leaves the file throws signals away, and a timeout or a death ends a wait whose signal
then comes late (`FdLock_faults` has such states, and locks stay sound in them). The
counters of a process are totals over the others, while the code's steps are between
two processes, so `Counts` says for each pair what of a total belongs to it
(`AnswersTo`, and `Due`: releases pending and owed, less requests that are pending),
and the lemmas of `SumTheorems` take the change of one summand to the change of the
total. `Due` may never be negative, or a release would be counted that nobody waits
for; `KindsMatch` (two processes use one of each pair of signal numbers, by the order
of their IDs) is why a request and the release for it can be told apart; `Stays` and
`Unopened` say that a signal is sent only to who takes it.

### LogSyncProofs

For a file of any length, any number of recoveries and every set of turns that a command
may take:

* `SyncIsRight`: `Spec => []SyncInv`
* `SyncTypeOK`: `Spec => []TypeOK`
* `ChainIsWhole`: `Spec => []ChainWhole`
* `BackupIsBehind`: `Spec => []BackupBehind`
* `SyncIsExact`: `Spec => SyncReachesTarget`

The assumption is `StepsAssumption`: the player is not the viewer, turns and bounds are
natural numbers, and a file may have at least one line. `SyncInv` has two halves. Of the
file, `FileInv` says that it begins with a backup, that the backups form one chain, and
that turns do not run backwards (`Ordered`); nothing is said of the hint but its type,
as a recovery leaves it wrong (`BackupLeads`: a hint that is no backup is noticed). Of
each process, `ReadInv` says that it is at a save line with the last backup up to there
(`Placed`) and, in `Approach`, what going back has achieved: at the end of the second
loop of `log_sync` the process is at or before its target, or at the first save.
`SyncIsExact` follows because the walk stops only when the next save line is beyond the
target, and distances grow along the file (`RelativeGrows`, where `Ordered` is needed for
targets in turns). The delicate part is that the file grows between two steps:
`ReaderStays` shows that a process that is not beyond its target, which is the end of a
file that now lies farther away, still is not.

### NetPlayProofs

For any numbers of connections, API calls, retries and server cancels:

* `NetProtocol`: `Spec => []NetInv`
* `NetPlayTypes`: `Spec => []TypeOK`
* `NetPlayServed`: `Spec => []Served`
* `NetPlayInStep`: `Spec => []InStep`
* `NetPlayNoMutualWait`: `Spec => []NoMutualWait`

The assumption is `NetAssumption`: the bounds are natural numbers. None of the three
properties is inductive: each relates two or three places that messages pass through
at different times, and the client's stack. `NetInv` joins four parts.

1. `ServerOK`, of each connection: at most one request is on its way to the server
   process, and it is one that the process takes in its state; an error message is the
   last of its connection, which is then down. The process of an old connection
   keeps this after the client has left it.
2. `Shape` and `Gaming`, of the client's stack: under each activation of
   `send_receive_msg` there is one that is `Suspended` for it, in a prompt, after a failed
   request (`cont` is "loop") or on a server error. Only play, create and shutdown
   start from the menu and the other requests at a prompt of a game, so the stack is
   never higher than a game, one request and one "auth". Whoever works in a game that
   the server has begun (`Playing`) has `playgame_jmp_buf` valid and leading to the
   play_game request: this is why `restart_connection` never sends an answer or a query
   to a process that has just started, and with it `Served`.
3. `BufferOK`: the buffer of unread messages outlives connections, so it needs a part of
   its own. It holds a reply only while `send_receive_msg` waits for one, and then one
   only; each of its messages fits the request that waits (`FitsIn`, which is `InStep` for
   every message of the buffer, not only for the first).
4. `LineOK`, of the client and the process of its connection: when it is the client's
   turn (`Rest`), nothing but asynchronous messages is under way and the process is
   where the next request finds it (`Due`); when the client waits (`Waits`), there is one
   place where the request or its reply is, and the process is where the reply leaves
   it (`After`). `NoMutualWait` is the last line of it.

There is one lemma for each action (`SendGood`, `RecvGood`, `ReceiveGood` and so on), on
lemmas about what they are made of: the ways out of functions (`ErrorLands`,
`JumpExLands`, `JumpPlayLands`: each ends in the menu, or in undefined behaviour),
`RestartGood` and `RestartedGood` for the two halves of a reconnection, `Prefix` and
`Suffix` for a queue that a break or a `recv` cuts anywhere, `ServerStep` for everything
that leaves the client alone. The hazard that `cmd_server_error` leaves behind (a jump
buffer with its flag set whose function has returned), and the count that `api_entry`
never gets back, appear as `crashed`: from there only `ServerOK` and the types are
claimed.

### ShopBillProofs

For any goods, quantities, prices, size of the bill and sums of gold:

* `ShopInvariant`: `Spec => []ShopInv`
* `ShopTypes`: `Spec => []TypeOK`
* `BillAgreesAlways`: `Spec => []BillAgrees`
* `PiecesBilledAlways`: `Spec => []PiecesBilled`
* `PricesMatchMoodAlways`: `Spec => []PricesMatchMood`
* `LoanInDebitAlways`: `Spec => []LoanInDebit`

The assumption is `ShopAssumption`: finitely many ids, none of them 0, positive prices and
quantities, a bill with room for at least one entry. The bounds in `Bounded` are not used.

The properties hold together or not at all, so the inductive invariant `ShopInv` is
near their conjunction, in a form that survives the middle of a function:

* `Fit` relates objects, bill, pieces owed and the mood, without the rest of the world;
  `Good` adds the shopkeeper's sums, and that the books are closed unless hero and
  shopkeeper are in the shop. What there is has at least one piece: else a split or a
  partly used stack could leave an entry of nothing.
* `LoopOK` is of `dopay`. If the hero is not asked for each entry, the second pass pays
  for what is left of a stack and strikes the whole entry off. That is right only if
  the first pass has paid for the used part of each stack (`Whole`), and `Strike` moves
  entries about while it runs: `AllWhole` says for which entries it holds.

The proof goes from the bill outwards. Four lemmas say what the code can do to a
bill: `FitAppend` (one entry more), `FitEntry` (another entry in its place, perhaps for
another object), `FitStruck` (the last entry takes the place of one that is struck off)
and `FitGoods` (objects change and the bill does not); `FitPrices` is for the mood. Their
sums are those of `SumTheorems`. Upon them, one lemma for each function of `shk.c` says
that it takes good books to good books and what it leaves alone (`AddToBillIs`,
`SplitBillIs`, `SubFromBillIs`, `FreeIs`, `MergeIs`, `PayIs` and so on), and upon these one for
each action. `LoweredIs` is why prices come back to what they were: a quarter of the
raised price, rounded up, is the third, rounded up, that was added. It is used for
standing entries, as `Calm` and `Tame` happen with goods on the bill. Where other code
has changed the mood and `shop_keeper` has not yet looked, `Moody` says of the books
that all is well but the mood, with a bill that is empty if it is inactive;
`RileMood` and `PacifyMood` lead back from it to good books, and `ShopKeeperIs` joins
them. `MergeIs` is the
delicate one: the pieces of a merged stack wander from one entry to another, and the
entry of the merged stack is struck off, which may move the one that has just grown.

### ObjectsProofs

For any finite set of objects, any levels, stacks, burning stages and times:

* `ObjectsInvariant`: `Spec => []ObjInv`
* `ObjectsTypes`: `Spec => []TypeOK`
* `OwnedAlways`: `Spec => []Owned`

The assumption is `ObjectsAssumption`: finitely many objects, at least one level, one bag
at most, stacks of one or more, age 0 among the stages at which a burning object
changes. `MaxTime` is not used to bound anything but the type of `now`.

`Owned` counts an object's timers and lights and is not inductive: what is stopped, split
or freed is looked for by the kind of a timer and by a level. `ObjInv` adds three things.

1. `Fine`, of each object alone with its timers and its `Rays` (how many lights it has on
   each level). `Tracked` says more than `Owned`: exactly one timer to burn and one light
   if the object is lit, no second timer of one kind except for rotting, as the timers
   of corpses are copied by `splitobj`. Of an object that has strayed nearly nothing is
   said: it has no more timers, all levels together, than it counts.
2. `BagOK`: there is one bag, in no container, and what is in it is on its level, so
   that `set_obj_level` of a bag and of what is in it is one move.
3. `Placed`: what the hero carries is on his level, the chest's contents too unless
   they have strayed, and what a monster carries is where the monster is, or, on its
   way to another level, with the hero. This is where the hazard sits. `begin_burn`
   and `splitobj` put the light on the hero's level and the timer on the object's, and
   both are right only because what is lit or split lies here or is carried (`InHand`). `goto_level` calls
   `set_obj_level` after `transfer_timers` has already moved what is not local, and
   `TwiceMoved` shows that nothing is moved twice or missed.
   `Clean` says that what is organic rots only while it is buried: else a buried
   candle, dug out and buried again, could have two such timers.

The proof goes from the timers outwards. For each function of `timeout.c`, `light.c` and
`mkobj.c` a lemma says what it does to the object it is about, and that everything
else stays the `Same` (`DeallocIs`, `SetLevelsIs`, `StopTimerIs`, `BeginBurnIs`, `SplitIs`,
`MergeIs`); for each way to move an object one says that it keeps `Good` (`AddToGood`,
`LandGood`, `BurnGood`); then one for each action. `StopTimerIs` has a moment in between
at which the object has no timer to burn and is still lit (`Loose`), and so has
`BurnGood`, as the timer that runs has already been taken out. The delicate one is
`SplitIs`, where the copies of timers and light are counted afresh. `MonDiesGood` is
about a loop over what the monster has, of which each turn may merge away what a
later turn would look at; its induction is over subsets, with `SubsetInduction`.

### Model-checked only

Every liveness property (out of the proof system's reach), and of the action
properties `FuelHonest` and `Conserved`: each is about the quantities and ages of a step
that `ObjInv` says nothing of, so they need lemmas of their own for each operator.

## 5. Not modelled

The reasons are in `PROJECT.json`, per component. Most of the repository is the rules
of the game: about 100 000 lines of sequential code over one large gamestate, whose
operations are data (damage, messages, random tables) and not protocol. They
appear as a constant engine in `SaveLog` and as the effects of an action in `Turn`.
Level generation, display, interface, terminal and build tools are left out for
the same reason.

Within the modelled components: the creation of a game (`log_newgame` up to the first
save; `Init` is its result), `log_revert_command` and commands that take no time
(they leave no line), bones and RNG data inside lines, version changes, the Windows
and Darwin variants of the locks, locks on other files, wrap-around of the recovery
count (2^32 recoveries of a file), the diff coder of `memfile.c`; registration and
display data of the network; saving and restoring timers, level timers, worn masks,
nested containers; containers on a bill, several shops at once, a customer of another
name, damage to a shop (`pay_for_damage`), gold thrown at a shopkeeper, inheritance;
galloping, the offsets of old saves.

## 6. Plan

What would come next, most important first.

1. Proofs of `Conserved` and `FuelHonest`, on the lemmas of `ObjectsProofs`: `Count` is
   a sum, and the fuel of a lit object is its age and what its one timer has to run.
2. A proof that no jump goes astray but as in `Astray`, with the count of `api_entry` in
   `Shape`.
3. `ShopBill` with a container, and with two shops; worn objects in `Objects`.
