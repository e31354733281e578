# swtorla in TLA+

swtorla is a Windows program that reads the combat log of the game SWTOR while
the game writes it, shows statistics of the current fight, and can join several
players into a raid: one program is the server, the others send it the events of
their player.  This directory models the parts of it that carry its logic,
model-checks them with TLC and proves the most important results with TLAPS.
Line numbers are those of the sources; `PROJECT.json` maps every definition to
its lines.

## The system

| Part | State it keeps | Operations | Talks to |
|---|---|---|---|
| raid server (`combat_server.h`) | `_players` (socket, receive buffer, id), `_next_id`, names, strings, events | accept, four packets, close | sockets, by window messages through `app` |
| packet stream (`combat_server.h`) | `_recive_buffer` | `try_recive`, `parse_next_packet` | `recv` below, `on_packet` above |
| combat client (`combat_client.h`) | names, strings, encounters, `_name_send`, `_update_ui` | an event of the log, a new log, update of the display | log reader, databases, socket of the server |
| databases (`player_db`, `string_db`, `combat_db`, `encounter.h`) | names by id, strings by id, encounters | set, remove, find; sort an event into an encounter | client and server, one copy each |
| log reader (`log_processor`) | open file, buffer, `_from` | `start`, `stop`, read what is there | file, parser, main loop |
| log parser (`swtor_log_parser.cpp`) | none; it registers names and strings | `parse_combat_log_line` | databases |
| entry codec (`int_compress.h`, `compress`, `uncompress`) | none | | client and server |
| directory watcher (`active.h`, `dir_watcher.cpp`, `handle_wrap.h`) | `_state`, two events, the directory handle and its deleter | `watch`, `stop`, destructor; a thread | system, `app::on_new_log_file` |
| main loop (`app.cpp`, `main_ui.cpp`) | tracking or not, the display | window messages, then the log, then the display | all of the above |
| self-update (`app.cpp`, `updater.cpp`, two dialogs) | `update_info::_state`, the task, the server found | `run_update`, `run_update_tick` (an APC that queues itself), downloads in tasks | web servers, message loops |
| main window (`main_ui.cpp`, `ui_element_manager.h`) | display and history, rows, which buttons are enabled | commands, start, stop, click on a row, Back | displays, `app`, dialogs |
| displays (`data_display_mode.cpp`, `query_set.h`) | what a display is about | select, group, sort, write rows and info text | combat database, rows |
| dialogs and message loops (`common_window_base.h`, `dialog.h`, `raid_sync_dialog.cpp`) | windows, the thread's WM_QUIT | loops inside loops, destructors that destroy windows | all windows of the thread |
| event queues and threads (`win32_event_queue.h` ...) | slots of posted events | post, dispatch | no user in this commit |
| UPnP, zip, paths, socket wrappers | | | operating system |

What is hard in it:

* **order of window messages** (server): messages of several sockets interleave,
  one may be handled after its socket was closed, ids and socket handles are
  given out again;
* **pieces** (stream, log): `recv` and `ReadFile` return parts of packets and
  lines, and the game keeps writing;
* **shared state without a lock** (watcher): the main thread and the background
  thread read and write `_state`, two events, one handle and its deleter, and both
  reset that handle;
* **state that outlives its log** (client): the tail of a line, the names of
  earlier logs, rows stored under ids, the name that was announced;
* **counting** (encounters): begins and ends of fights are counted, and a log
  need not begin at the beginning;
* **loops inside loops** (windows): a handler that opens a dialog runs a message
  loop of its own; all loops take the messages of all windows and there is one
  WM_QUIT for all of them; the update runs in APCs of whatever loop waits;
* **callbacks that outlive their object** (displays): a row calls back into the
  display that wrote it, which may have been deleted;
* **text that ends anywhere** (parser): blocks end with brackets, names may contain
  brackets, and the line may not be complete.

What makes each part correct, in a sentence: ids are unique and names follow
them, nothing is counted twice (server); bytes in, packets out, none lost or
invented (stream, log, codec); the entry says what the line says (parser); the
owner of the log is the local player and only his events are sent (client); one
encounter for each fight, with all its hits (database); rows are the sums over
the last encounter, belong to the present display, and Back leads where the user
came from (displays); no loop waits for a WM_QUIT that another one has eaten, the
program ends when it is told to, the update returns and its tick finds its frame
(loops, update); what main stores is not slept over unread, nothing is reported
twice, no handle stays open, calls return (watcher).  Some of these the code keeps
only in part; "What the passing runs do not say" and "Divergences" tell where.

## Modules

| Module | Models | Correspondence |
|---|---|---|
| `PlayerDb` | `player_db` | the vector is a function on `0..n-1`, the operations are operators; used by server and client |
| `CombatServer` | raid server | one action per socket message; a packet is one of its four handlers with its sends |
| `PacketStream` | `try_recive` and the loop around it | bytes are numbers below `Base`; one action per `recv`; the loop over `parse_next_packet` is a fold over as many turns as there are bytes, since each packet takes some |
| `DirWatcher` | `active`, `dir_watcher`, `handle_wrap` | one action per access to something shared; `main` and `thread` say where the threads are, `in_reset` where each is within `handle_wrap::reset`; the system closes handles, ends reads and gives out values of handles again |
| `LineFeed` | nothing of the code: what a reader of lines promises | abstract specification |
| `LogReader` | `log_processor` | one action per `ReadFile`, which may fail, the game's writes in between |
| `CombatDb` | `combat_db`, `encounter` | one action per event; entries are told apart as the code does |
| `CombatClient` | `combat_client` in the main loop, on top of `CombatDb` and `PlayerDb` | one action per window message, line of the log, and update |
| `EntryCodec` | `compress`, `uncompress`, `pack_int`, `unpack_int` | the array is the sequence of bytes written to it; a byte is its digit, and `Digit` more when another follows; `compress` and `uncompress` are folds over the fields in their order, `value_ >>= 7` a recursive function |
| `LogParser` | `parse_combat_log_line` and its helpers, in front of `EntryCodec` and on `PlayerDb` | an operator for each helper and each block of the line; `from_` is a count of characters; the loops over digits and brackets are recursive functions (`Products`, `Level`); the other half of the module is what the game writes, after the formats in the source's comments |
| `Display` | displays, query, rows, history, on top of `CombatDb`, in the main loop | one action per command, click, line of the log, and update; the eight classes are instances of one `Update` |
| `UiLoops` | `run_update`, its tick and dialogs, the main window's dialogs, the raid dialog, WM_QUIT | `stack` is the call stack of loops; one action per tick, message, loop that ends |
| `CombatServerProofs`, `DirWatcherProofs`, `DisplayProofs` (with `CombatDb`), `CombatClientProofs`, `UiLoopsProofs` | | proofs about the module of that name |
| `LogProofs` | | proofs about `LogReader` and `LogParser` |
| `WireProofs` | | proofs about `PacketStream`, `EntryCodec` and both together |
| `DataFacts` | | what the proofs know of numbers, sequences, folds, counts and sums |
| `MC...` | | constants for TLC |

`CombatServer` and `CombatClient` are built on `PlayerDb`, `CombatClient` and
`Display` on `CombatDb`, `LogParser` on `EntryCodec` and `PlayerDb`.  `CombatClient`
abstracts what `LogParser` reads to who stands in the line, and what `Display`
shows to the rows of an encounter.

In `Display` an entity is a name with a number: mobs of one name differ in their
number, a companion is a name of its own.  The eight `update_display` functions
differ in what they count, on which side of an event the entity stands, and whether
they are about one ability; the healing displays also differ in the text.  The total
is counted apart from the groups, as the transform of the query does it.  In
`UiLoops` what the user does is handled when no WM_QUIT is pending, because
PeekMessage and GetMessage return posted messages and WM_QUIT before input.

A definition whose comment begins with "Slip" is a plausible mistake in the
definition after it.  No specification uses it; `PROJECT.json` lists, for every
property, the slip that must break it.

Some properties say "the same things in the same order" of two sequences that are
filtered differently.  They say it by counting (`Rank`): there are as many of one as
of the other, and the n-th is the n-th (`RelayExact`, `SendsOwnEvents`).
`LinesAreWhole` says where in a file a line begins and ends (`IsLineUpTo`).  This is
what the code promises, and it is what an invariant can be made of.

Variables marked *history* are not in the code; they remember what a property
needs and no guard reads them, with one exception: in `CombatClient` the lines
of the first owner (`begun`, `owner`) restrict what the game writes.

## Runs

| Run | Question | Bounds, and why they are enough |
|---|---|---|
| `Server` | ids and names while players come, go and come back (who joins late is not told the names already there); relaying; translations | 3 sockets, 2 names and the empty one, 1 string with 2 answers, sources 0 and 2 (an id of a player, or of none yet), 7 messages: enough for an id to be used again while a third player watches, for a late message before that, and for two that ask while two answer differently |
| `UiLoops` | loops inside loops, and the update; with liveness | 2 servers with versions below, at and above the program's, 3 loops inside each other: main, options and update, or main, raid and look-up (safety also held with 4) |
| `UpdateInstalled` | *violation*: `run_update` returns true only for a new version | one failed download |
| `Display` | rows, callbacks, history; encounters are fights | 6 entries of 7 kinds, the player and two mobs of one name, 2 abilities of which one heals and damages, 3 displays to go back to: two fights and a stray exit; three clicks lead through every kind of display |
| `LogEntries` | lines to entries, entries through the codec | every kind of entity on both sides, names with brackets, all forms of the value without a minus, every prefix of each line, three databases; any two fields with any two values at the borders of 1, 2 and 4 bytes; one entry fills the array to its last byte |
| `EntryCodecSigned` | *violation*: what is packed fits into the array | one negative field |
| `PacketStream` | packets of a stream cut anywhere | 4 packets of 3, 5, 8 and 20 bytes, a receive of up to 4: every cut within headers and payloads; with 4 values of a byte a payload of 5 already needs both bytes of the length, and one of 17 is too long for them |
| `PacketStreamRoom` | *violation*: only received bytes stay in the buffer | one failing `recv` |
| `DirWatcher` | the two threads; with liveness | 3 calls, 2 directories, 1 change, one handle value: start, stop and watch on the other directory, with a change that is processed one turn late, and a value that is given out again; the thread may fail to open or to read at any time (safety also held with 2 changes, and all of it with 2 handle values and 1 directory) |
| `DirWatcherPickUp` | *violation*: `watch` waits until its change was picked up | one call suffices |
| `LogReader` | reading, and implementing `LineFeed` | 2 files of 9 bytes with lines of 2, 0 and 3 bytes, a buffer of 4, 2 starts: lines that fit exactly, lines that do not fit behind a tail; any read may fail |
| `CombatClient` | one log after another | 2 starts, 4 lines, 2 players, a mob, nobody; lines that fail in the parser, unfinished ones |

Deadlock is not checked: bounds end every run, and the program may wait for
messages for ever.

**Scaling.** `EntryCodec` puts 2 bits into a byte instead of 7, has `int`s of 9
bits and ids of 24 (times are milliseconds) instead of 32 and 64, and an array of 78
bytes instead of 128: 6 for the flags, 12 for the time, 4 for each other field
(`Sizes`), which the largest entry of the run fills.  The real array is larger than
real entries need: ids of the game have at most 50 bits, so that a field takes at most
8 bytes, an `int` 5 and the flags 2, together 118.  `IntValues` and `IdValues` are the
powers of two that belong to these bits (`ValuesHaveTheirBits`): the prover knows
nothing of `^`, TLC checks that they agree.  A word of a name is one character of a
line.

**What the passing runs do not say.**  `StreamIntact` and `PacketsInOrder` hold
up to the first `recv` that fails, and the loop of `on_any_client_socket` ends
with one on a non-blocking socket: from the second window message on, the
zeros of `PacketStreamRoom` are in the stream.  A packet whose length does not fit
into its header (`combat_server.h:127`) is excused in `PacketsInOrder`, with what
follows it; its bytes are not (`StreamIntact`).  `CombatServer` takes well-formed
packets from that stream as given.  `OwnerIsZero`, `SendsOwnEvents` and the name
in `AnnouncesName` speak of logs that no earlier log gets in the way of
(`clean`); the others are glued to an unfinished line, or written by a player
who already has another id, and the program takes somebody else for the local
player.  `NoHitMissed` and `OneEncounterPerFight` end with the first exit from
outside of a fight: from then on begins and ends are equal at the wrong time.
`RowsAreSums` allows the rows of the encounter before when nothing is stored in
the last one: the display is not updated until something is.  No
property sees the index of the last encounter wrap around (`main_ui.cpp:183`): it is
a position or none in the model.  `RoundTrip` speaks
of entries without negative fields, and `LinesAreRead` of numbers below the last
tenth of an `int`: `parse_number` multiplies once more than there are digits.
`NoLoopStranded` and `UpdateReturns` speak of windows that are closed while their
own loop is the innermost (not `crossed`): a dialog that is closed while another
loop runs inside its own ends the wrong loop, and notes closed while `peek_until`
runs leave `run_update` waiting for a WM_QUIT that was taken.  `EndsOnRequest`
excuses the failed look-up (`cursed`): there the WM_QUIT of a destructor closes
the error message, then the raid dialog, then the program (the comment at
`raid_sync_dialog.cpp:162` wonders why the message is not shown).
`NoMissedWakeup` says that what main has stored is read or overwritten, never slept
over unread; what the thread makes of a state it has read is listed below.
`AsleepIsClosed` excuses the handle that the thread was just storing when main reset
the wrapper (`torn`).  `PollCatchesUp` excuses the line as long as the buffer, in
which the reader is stuck for ever (`log_processor.cpp:104`), and a failed read.

In short: where the code goes wrong and no text of the repository says otherwise,
the property next to it says up to where it goes right; `hazards` in
`PROJECT.json` has a note at each of them.

## Divergences the runs show

* `DirWatcherPickUp`: "waits for the background thread to pick up the change"
  (`active.h:68`) need not even be true of the first call.  The new thread stores
  `sleep` when it gets to run (`active.h:92`), over the `init` that `watch` may have
  stored by then; it answers, `watch` returns, and the directory is not watched.  Later
  calls do not wait at all, because `_client_event` is never reset: if the first case is
  excused, TLC finds a `watch` that returns with its change unread within two calls.
* `PacketStreamRoom`: "truncate length to the actual size of all valid data"
  (`combat_server.h:107`) is skipped when there is no data.
* `EntryCodecSigned`: "the number of bits used in that array"
  (`swtor_log_parser.h:59`) can be more than the array has: a negative number is
  shifted for ever and the next field is written behind the end.
* `UpdateInstalled`: "returns true if a new version was installed" (`app.cpp:133`),
  but only `is_done` is asked (`app.cpp:119`), and a download that failed is done.

Others have no text to contradict them, or are outside of what is modelled:

* the destructor of the watcher may wait for ever, because the thread may store
  `run` or `sleep` over `shutdown` (`active.h:100`); TLC finds it within two calls;
* `wait_for` (`dir_watcher.cpp:203`) is there for `run` to end, but it may return
  `init`: then `wait( init )` (157) may sleep, and the directory is not opened.  TLC finds
  it within two calls of `watch`;
* `wait` returns after any signal, changed state or not (`active.h:28`, 35), though it
  is to block until the state has changed (25): the thread goes round once more;
* the main thread resets the wrapper of the handle while the thread is in it.  Between
  the two stores of `reset` (`handle_wrap.h:53`, 54) this empties it without closing:
  the directory stays open.  In two `reset`s at once one calls a deleter that the other
  has emptied (37), and `std::bad_function_call` ends the program; or the value it
  closes is a new handle.  The destructor destroys the members (`dir_watcher.h:23`-26)
  before `~active` stops the thread that uses them;
* the formats in the comments of the parser put braces around the id of a mob
  (`swtor_log_parser.cpp:277`); the parser reads it without (156), as `LogParser`
  writes it, and would read 0 with them.  For companions they have no space before
  the brace, but `id_start - 2` (138) drops a character there;
* `check_string` (`swtor_log_parser.cpp:43`) does not test for the end of the line;
  the byte there is the line end;
* what a shield absorbed overwrites the type read before the parenthesis (220, 234);
* `show_options_dlg` returns false whatever happened: after an update from the
  options dialog the program goes on;
* a WM_QUIT of File/Exit that a dialog's loop takes ends that dialog, not the
  program;
* the second check box of the notes stores its opposite
  (`update_info_dialog.h:38`);
* the skill displays sum up damage and heals of an ability, and the info text of
  an entity without records stays that of the display before
  (`data_display_mode.cpp:37`).

## Fairness

`DirWatcher`: `WF(MainStep)` and `WF(ThreadStep)`: both threads are scheduled, and
neither waits for a lock.  Calls, changes of the directory and the success of
system calls are not fair: nobody has to call, no file has to appear.  A wait that
is not signalled is not enabled, so weak fairness does not help a thread out of it.
`CallsReturn` says that `watch` and `stop` return under nothing more.

`UiLoops`: tasks end (`WF(TaskEnds)`, `WF(LookUpEnds)`); a queued tick runs when loops
that can run it come again and again (`SF(Tick)`).  The loops of `common_window_base`
and of the main window wait alertably, so nothing more is needed there.  Those of the
options and of About call `SleepEx` around a `GetMessageW` that is not alertable
(`main_ui.cpp:55`, 144): there it means that messages keep coming.  Message boxes run no
tick.  A loop whose condition is met, or which has a WM_QUIT, ends.  `User` is
what must be assumed of the person in
front of it: the notes stay until "Restart" is pressed, so it is pressed at some
time when nothing else is in the way, and dialogs on top of others are closed at
last.  `UpdateReturns` needs these, since `run_update` waits for the user by design.

Elsewhere an action property (`PollCatchesUp`) takes the place of liveness: the
loop over `ReadFile` runs on one thread and ends when a read returns nothing or fails, which
the model of a growing file reaches only as far as the game pauses.

## Proofs

For every value of the constants, checked by `tlapm`.  Every invariant and every
action property of the passing runs is a theorem, and so is the refinement.  In each
proof module an inductive invariant is stated first, as a conjunction of named parts;
one lemma or step for each action shows that it is kept; the properties follow from it.

* `CombatServerProofs`, for every finite set of sockets, any names, strings, units
  and any number of messages.
  - `TypeOK`, `UniqueIds`, `NextIdCoversPlayers`, `NamesHaveOwners`, `NamesDiffer`, and
    `NextIdGrowsWhenFull` of every step.  `UniqueIds` is not inductive by itself: that
    a new id is new rests on `get_next_id` finding a free one, which needs that no
    more ids are in use than there are sockets (a counting argument); that a late
    message does not disturb it needs the type of `pid`.  The shortcut over `_next_id`
    needs that `_next_id` is above every id in use.
  - `ResultsAgree`, `AskersAnswered`: three facts that need each other: a stored
    translation never changes, nothing is sent before it is stored, and a result goes
    to everybody who is connected when it is stored, whom `_clients` holds.
    `NoDoubleCount`, of every step: the shortcut must not take a player for a stranger.
  - `RosterFollows` (`Roster`): what a client makes of the messages it was sent is kept
    by saying what one more message makes of it, and that a client is never told its
    own name.
  - `RelayExact` (`Relay`): an event gets the next rank among the events a client was
    sent exactly when it gets the next rank among those it should be sent.
  - Assumptions: the sockets are finitely many, the empty name is a name, units are
    numbers, no string is the absence of one.
* `WireProofs`, the stream: `StreamIntact` and `PacketsInOrder`, for packets of any
  length, bytes of any number of values, and recvs of any size.  `Encode` is undone by what
  `parse_next_packet` reads, digit by digit, as long as the length fits (`FirstIsSent`),
  and what it cuts off is in bytes what it reads, even if that was never sent as such
  (`CutIsWhole`).  A turn of the loop keeps both the bytes and the order (`TurnKeeps`);
  the loop ends, because a turn takes at least a header.  `IInv` adds the types and
  that no packet waits in the buffer.
* `WireProofs`, the codec: `RoundTrip`, for digits, integers and arrays of any width.
  - `PackFacts`: `pack_int` writes the digits of a value, marks all but the last, and
    leaves nothing behind it, if there is room (`Packed`).  `DigitsSum`: what `unpack_int`
    has read and what is left of the value, times the weight of the next digit, add up to
    the value.  `UnpackFacts`: so it reads what was written, and stops where it ended.
  - `FlagsFacts`: the flag of a field is set when it is present.  It needs that the flags
    are different powers of two.
  - `Layout`: what is written after each field is a beginning of the whole and leaves room
    for the fields that follow.  `PartOf`: what is known of the entry after each field
    has been read; for a target that was not written, its source.
  - Assumptions: values are not longer than their fields (`Sizes`), these not wider than
    their types, and all of them together not longer than the array; what has no sign is
    not negative.  `EntryCodecSigned` shows what a negative value does.
* `WireProofs`, both together: `EntriesArrive`.  Until a recv fails, the entries that the
  server uncompresses are those that the client compressed, in their order, if no packet
  is too long for its header.  `CombatServer` takes this as given.
* `DirWatcherProofs`: for any directories, handles, and number of calls and changes.
  - `TypeOK`: the types say where each thread may be, that `reset` is entered and left
    where it is called, and that a read is under way, and changes are kept for it, only
    while its handle is open.  It needs that the loop over the reads is only entered
    with `run` (`Running`).
  - `NoMissedWakeup` (`Announced`): while the change that main has stored is unread, the
    event is set or about to be, unless the thread is just going to read; that it resets
    the event before it reads is what keeps this.
  - `AsleepIsClosed` (`Accounted`): every open handle is in the hands of the thread, or in
    the wrapper with its deleter until somebody's `reset` has called it, or was
    just being stored when main was in `reset`.  A thread that sleeps or has ended has
    left its own `reset` behind.
  - `ReportedOnce` (`InOrder`): what was reported, what is in the second buffer, in the first,
    and what the system keeps are in order one behind the other.  Most steps touch none
    of these (`MostAreQuiet`, `MostLeaveReads`).
* `LogProofs`, the reader, for files and buffers of any size, any line ends, any number of
  starts and of reads that fail: `LinesAreWhole`, `PollCatchesUp`, and that the reader implements `LineFeed`
  (`FeedsLines`).  The abstract lines of a stream are defined by the positions of
  their ends, the reader's by a fold over the bytes of one read; the bridge
  (`CutUp`) is that cutting what is left over, followed by the bytes of the read,
  gives the lines that are new and the tail that `LineFeed` says.  `WholeSoFar` says
  where in its file the tail begins.  A buffer that is full holds the last bytes of the
  stream, none of which is a line end (`FullBuffer`).  Every read is one step of the feed, and a read
  of nothing a stutter.
* `LogProofs`, the parser: `LinesAreRead`, for all names, ids, numbers and player
  databases, and for every beginning of a line.  The parser is a sequence of blocks, so
  the invariant is short (`LineInv`) and the work is in what one `ParseLine` computes.
  - A line is a sequence of texts, each of which stands at its place as far as the line
    goes (`Stands`).  A reader is on the format (`On`) when it is at that place with the
    entry and the databases it should have, or when the line ends before that place
    and the reader has failed or stopped at the end of the line.  There is a lemma for
    each helper and each block: it takes a reader on the format to one on the format
    behind its text, for the whole line and for its beginnings at once.
  - Brackets: the levels of a name never fall below zero and end at zero, so the first
    unmatched bracket (`Closing`) is the one that the game wrote behind the text.
  - Numbers: after each digit `Products` is ten times the number of the digits so far, as
    long as this stays below the number of values; the digits of `NatDecimal` lead back to
    the number.
  - Databases: the first string of an id stays, and all names of a line with that id are
    the same, so that it is right at the end (`StringsOfSheet`); `get_player_id` finds or
    adds a name without moving another (`PlayersOfSheet`).
  - Assumptions: what the game writes (`IsSheet`), namely that names are not empty, have
    no brace, close their brackets, and do not begin like something else; that names of
    players and actions have no colon; that ids and times are below the last tenth of
    their type; and that an id stands for one name within the line.  Signed numbers are
    spoken of below the last tenth only (`Readable`); lines with others are read to the
    end too.  The databases are as `player_db` makes them (`IsDatabase`), the numbers of
    values are those of the bits.
* `DisplayProofs`
  - `CombatDb`: `NoHitMissed`, `OneEncounterPerFight`, that all encounters but the last
    are over and begin with entering combat, for logs of any length.  The inductive
    invariant ties the counters of the last encounter to the history: as long as no
    exit was stray, its begins less its ends are the depth of the fight that the log
    is in, so it is finished exactly between fights.
  - `DatabaseInside`: the composed system implements the database's own specification,
    so that these hold with the displays around it.
  - `DisplayTypeOK`, `RowsAreCurrent`, `DrillPath`: history and display form a chain of
    clicks, in which entities and abilities alternate (`Chain`).
  - `RowsAreSums` (`SumsInv`): while no update is due the rows are up to date
    (`UpToDate`), and when messages are handled none is due.  Grouping is a fold of the
    query over the records; its invariant is that the groups so far have different
    keys, and each has the sum over the records of its key so far.  Sorting keeps them.
    The total is a fold of its own; it grows with the groups (`TotalGrows`), and so is
    what they add up to (`TotalOfGroups`).
  - Assumption: the value of an entry is an integer.
* `CombatClientProofs`: `ClientTypeOK`, `RowsKeepNames`, `OwnerIsZero`, `AnnouncesName`,
  `SendsOwnEvents`, `DisplayIsCurrent` for any players and any number of logs.  The
  invariant `Databases` says that a row means what its line said and that nothing is
  stored before there is a log: that is why the first line of a log may give id 0 to
  somebody else.  `Ownership` ties the lines read to the owner of the log,
  `Announced` the messages sent to `_name_send`, and the display to the encounters.
  Assumptions: the parser's mob and nobody are no players, `NoName` is no name; for
  `SendsOwnEvents`, that names are finitely many and that the number of a mob lies above
  the number of players: the game's ids have some 50 bits, the player ids count from 0.
* `UiLoopsProofs`, for any depth of loops, any number of servers and any versions:
  - `TypeOK`: a loop that replaces the innermost one does not go deeper;
  - `TickHasFrame`: the invariant adds that the loops of the update (`peek`, `notes`)
    are entered at most once and only while `run_update` runs, and that a tick which
    leaves the state finished is not queued again;
  - `LoadsNewest`: the loop over the answers is a fold; it ends with the greatest of
    them, or none;
  - `NoLoopStranded`: needs that no dialog runs twice at a time, and that the window
    of the notes outlives `peek_until` (`Safe`);
  - `EndsOnRequest`: loops are nested in a fixed order (`Nested`), a window exists
    only while a loop for it runs (`Owned`), and so a WM_QUIT that reaches the main
    loop was asked for, or comes from a failed look-up (`Requests`).
  - Assumption: the program's own loop is within the bound (`MaxDepth` is positive).
* `DataFacts`: the library states induction with an operator as a parameter, which no
  prover here can instantiate.  Here a property of numbers is the set of numbers that
  have it, and the step of a recursion is a function; `Induct`, `Iteration` and
  `FoldExists` are lemmas about those.  `FoldLeft` is then what the prover can use:
  each fold of the models has a lemma that gives its values one after the other
  (`BestSteps`, `BytesSteps`, `ParseSteps`, `SumSteps` ...).  The rest counts and sums over finite
  sets.

Only model-checked:

* liveness under fairness, which this prover does not reach: `UpdateReturns`, `CallsReturn`.

## Not modelled

* Receiving in the client: `parse_next_packet` is a stub, `set_connection` has no
  caller, `connect_to_server` is commented out.  Composing client and server
  would model a program that does not exist yet.
* `on_new_log_file_change`: it is queued to a pseudo-handle, which in the
  watcher's thread means that thread, and that one never waits alertably.  It
  does not run; `LogReader` and `CombatClient` therefore change files only by
  `start_tracking`.
* `remap_player`: no caller; `app::remap_player_name` is empty.
* Event queues and threads (`win32_event_queue.h`, `event_queue.h`, `deamon.h`):
  nothing in this commit posts to them, so who posts and when would be invented.
* In the update: progress, the text of the notes, unpacking, `start_update_process`
  (no caller), and `remove_old_file_tick`, an APC that queues itself until the old
  file is gone.
* In the displays: rates and durations in the info text; `combat_analizer.h`.
* UPnP, addresses of adapters, zip files, paths, version strings, layout and
  painting, wrappers of handles and sockets: input and output without a protocol.

## Plan

Written, in the order of importance: `PlayerDb`, `CombatServer`, `PacketStream`,
`DirWatcher`, `LineFeed` and `LogReader`, `CombatDb`, `CombatClient`, `EntryCodec`,
`UiLoops`, `Display`, `LogParser`, and proofs about all of them.  Open:

1. The composition of `PacketStream` and `CombatServer`: packets that FD_CLOSE leaves
   unread (`app.cpp:458`), and sends that a socket takes only in part
   (`combat_server.h:122`); with `WireProofs` it can be shown to implement the
   two.
