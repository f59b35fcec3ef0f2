# WildGecu in TLA+

A verification project for WildGecu (module path `github.com/ludusrusso/wildgecu`), an
AI-agent daemon written in Go. The daemon keeps chat sessions, runs model-and-tool loops
for them, lets sessions spawn subagents, curates a `MEMORY.md`, answers Telegram chats,
runs cron jobs, and is controlled by a command line over a Unix socket.

The modules model the concurrent core of the program: what goroutines, processes and
parallel tool calls can do to each other. `PROJECT.json` maps every definition to the
lines it models.

## Inventory

| Component | State | Operations | Hard behaviour | What makes it correct |
|---|---|---|---|---|
| Session manager (`pkg/daemon/sessions.go`) | map of sessions; per session: history, todo list, `mu`, `cancel` | Create (4 forms), Get, Close, Reset, Interrupt, RunTurnStream, Messages, Todos | requests run concurrently; a model call under `mu`; cancellation through a second mutex; pointers to removed sessions | no answered turn lost, append-only histories, cancels hit the right turn, everything ends |
| Memory finalization (`pkg/agent/agent.go`, `memory.go`) | `MEMORY.md` | Finalize: load, model, write | read-modify-write over a 30 s model call | a closed session is reviewed, nothing recorded is dropped |
| Agent loop (`pkg/provider/agent.go`, `pkg/session/session.go`) | messages of the turn, reminder | generate, execute tools in parallel, return | results in any order, `ErrDone` among them, failures half way | well-formed histories, atomic turns, no reminder in the log |
| Todo list (`pkg/todo`, `tools/todo.go`) | items, counter | Create, Update, Snapshot | parallel calls, snapshots sent to the client | stable ids, the client sees the list |
| Subagents (`tools/subagent.go`) | a loop per call | spawn_agent | nested concurrency | nothing outlives its turn |
| Daemon (`pkg/daemon/daemon.go`, `socket.go`, `pidfile.go`, `updater.go`) | PID file, socket file, context, connections | Run, stop, signals, re-exec | processes sharing files, crashes, hanging shutdown | files name the serving daemon, clean exits, stops stop |
| Commands (`cmd/`) | none | start, stop, restart, update, chat | check-then-act between processes | every command returns |
| Chat protocol and TUI (`chat_handler.go`, `chat_client.go`, `pkg/chat/tui`) | connection, decoder, session id, lines on the screen | create, message, command, interrupt, close, list; keys and events | two readers on one decoder, requests that overtake their turn | the screen shows the turn, Esc hits its turn, quitting closes the session |
| Telegram (`pkg/chat/telegram`, `pkg/telegram/auth`) | chat-to-session map; allowed users and pending OTPs, in memory and on disk | message, commands, /clean, approve | concurrent messages of a chat, persist and send failures, restarts | one session per chat, approvals last, codes work, results are shown |
| Cron (`pkg/cron`, `daemon/cron*.go`, `cmd/cron*.go`) | job files, entries, results | add, rm, ls, reload, suspend, resume, test, scheduled runs | files edited while read, overlapping runs | entries reflect files, results are kept, commands end |
| Bounded output (`pkg/exec/bounded`) | head and tail buffers, the process | Run, Write, String | boundaries, timeouts, children that keep the pipe | output is faithful, commands return |
| File tools (`tools/files.go`) | files | read_file, write_file, update_file, multi_edit, list_files | parallel calls, edit lists that fail half way, failing writes | an edit list applies as a whole or not at all |
| Search tools (`tools/search.go`, `pkg/search`) | a walk and its matches | grep, glob | unreadable entries, limits, orders, cancellation | the answer is exact and says what it leaves out |
| Slash commands (`pkg/command`) | none | lookup, run | | as part of the bridge and the chat handler |
| Watchdog, provider container, providers, config, setup, service, skill files | small or none | | | not modelled, see below |

Sessions are shared by the chat connections and the Telegram bridge. A chat connection
dispatches a message to a new goroutine, but handles interrupt and close on its own
goroutine, in front of later requests. Cron runs and file tools share only files with the
rest. Everything runs under contexts derived from the
daemon's, which `Run` cancels on stop and on a signal.

## Modules

### SessionManager

One operation (a member of `Ops`) is one request: a goroutine inside `RunTurnStream`,
`Close`, `Reset`, `Interrupt` or a reader. Its program counter names the points at which
others can be observed; the critical sections of `sm.mu` and `sess.cancelMu` never block
inside and are single steps, `sess.mu` is held across model calls and is a lock
variable. `Dispatch` chooses freely what a request does and to which session id, also an
id that has long been closed. The agent loop inside a turn is reduced to `TurnCall`,
`TurnTools`, `TurnToolsDone`, `TurnAnswer`, `TurnError` (module AgentLoop has the rest). A
round of tools need not end: `executeToolsParallel` waits for calls that may never return,
because `bounded.Run` waits for every child that keeps the command's pipe open, cancelled or not.
A completed turn is the name of its request, so histories are sequences of requests and
`MEMORY.md` is the set of turns it accounts for.

### SessionLog

What the manager promises, without goroutines: sessions are opened and removed, and a turn
is committed, once and as a whole, to the log of one session. `SessionManager` contains
`INSTANCE SessionLog` with `Turns` as `Ops`, `live` as `sessions`, `used` as `created` and
`log` as `messages`; the property `ImplementsLog` is the abstract specification under that
mapping.

### AgentLoop

One session's turns from the inside. Each agent (the root and every subagent) is a loop
with its messages and the calls of its current round; each call is a goroutine with its
own stages (`start`, for todo tools `acted` and `snapped`, for spawns `child`, `done`).
A message keeps its role, its number of calls, which call it answers, and whether it
carries the reminder. What models answer is free: text, an error, or any calls of
offered tools. `bash` stands for all tools without effect on the session and for unknown
ones. The client is a chat connection (the Telegram bridge subscribes to no snapshots).
The memory agent of Finalize runs the same loop with `write_memory`. An explicit list of
tools given to `spawn_agent` may contain `spawn_agent` itself, as in the code (README.md
of the repository, line 363, says that no child gets it).

### Daemon

Daemon processes and commands around the PID file and the socket file. Each read or unlink of a
file is a step, and writing the PID file two, as `os.WriteFile` empties it first: two daemons
that write at once may leave a number that is neither's (`Garbled`). `CloseListener` includes
what Go's `net` package does: closing a Unix listener unlinks its path the first time, whatever
file is there by then. `Crash` kills a process at any point.

### Telegram

Every update has a goroutine, a member of `Msgs`; the critical sections of `Bridge.mu` and of
the store's mutex are single steps; `getOrCreateSession` is two, a lookup under the read lock
and, if it finds nothing, a second look and the creation under the write lock. The session
manager appears as the bridge sees it: which ids are live, and a mutex per session held by a
turn. Any `Send` to Telegram and any write of `telegram.json` may fail, the daemon may crash and
come up again, and an owner may enter any code at any time. One-time codes are not assumed
unique. Every message has a sender and the bridge a store: without them `handleMessage` skips
the gate (`telegram.go` line 104), which is left out. `held` keeps every code a user was ever
sent, through crashes too.

### Cron

The files are shared by commands, reloads and editors without a lock; `os.WriteFile` is two
steps (truncate, write), and a reload reads one file per step under `Scheduler.mu`. A file is
absent, empty, torn, broken, or a job with a version and the suspended field. A write may fail
half way, and one into a file that somebody else has filled since it was truncated leaves a
mixture (`Blends`): torn, broken, or a job, also one nobody wrote (the versions outside
`Authored`). Runs are started by gocron at any time or by `cron test`, whose client process is
modelled with its detaching; a run with a timeout is cut off, a provider may never answer.
Result files are named by the second, as in the code, and written in two steps as well: a run
that opens the file of another empties it, and overlapping or failing writes leave it empty or
torn. Pressing Enter twice at the last question of `cron add` saves the same content again and
is left out.

### ChatClient

One terminal chat from the keys to the daemon's dispatcher: an ordered connection each way,
the dispatcher that takes one request at a time, the goroutines of messages in the order
they get the session, and in the client the goroutine that reads a turn's events and the
one of `fetchCommands`, which decode from the same connection with one `json.Decoder` and no
lock. Either may take the other's event (`FetchRead`), and while both are inside, an event may be
lost to both or given to both (`EventLost`, `EventShared`). What the race can do beyond that is
not modelled: an error that stays in the decoder, which would end this and every later turn on
the screen at once, and a panic. Otherwise decoding an event and the `Update` it causes are one
step. A line on the screen is what it stands for. The client
sends no `session.resume`.

### BoundedExec, FileTools, Search

`BoundedExec` has the head-tail buffer with its ring, one byte of a `Write` per step, and
`Run` with its timeout and the turn's context, of which the one that ends first decides
what `Run` reports; a command can leave children behind that keep the pipe open.
`FileTools` has the calls of a round on one file, with separate steps for read, each
edit, truncation and write, each of which may fail. `Search` has the walk of grep, glob and
list_files, one entry per step, over trees whose path order differs from the walk's. `scanned`
says how many lines of a file the scanner yields before it breaks off, at a line of more than its
1 MiB or at a read error; nobody asks it for the error. A tree is
the sequence of its entries as `filepath.WalkDir` comes by them (`WalkOrder`), and the walk the
set of the positions still to be visited. `Sorted` puts a row at its rank (`Place`), as a stable
sort does. Each comes with a reference definition its answers are compared with: the written bytes,
`AfterEdits` and `Applies`, and `Expected`.

### Proof modules

`SessionManagerProofs`, `AgentLoopProofs`, `DaemonProofs`, `TelegramProofs`, `CronProofs`,
`ChatClientProofs` and `ToolsProofs` (the three modules of the tools, one part each) hold
theorems and what they rest on; see Proofs.

### MC modules

`MCSessions`, `MCDaemon` and `MCTelegram` add symmetry sets; `MCAgentLoop`, `MCChatClient`
and `MCCron` the small sets a configuration cannot write; `MCTools` the requests, trees and
queries, and it puts the three tool modules into one run: they share no state, so a behaviour
exercises one of them. Nothing of the specifications is replaced.

Definitions whose comment starts with "Mutant" are plausible wrong versions of the
definition below them. They are used by no action; each shows that one property would
notice that mistake.

## Runs

| Run | Configuration | Result |
|---|---|---|
| `sessions` | 4 requests, 3 sessions, symmetry | `TypeOK`, `StableView`, `TurnsDurable`, `CancelHitsHolder`, `CancelIsAsked`, `ResetIsFresh`, `ImplementsLog` hold (1.6 million states) |
| `sessions_live` | 3 requests, 1 session, fairness | `CancelledTurnsEnd`, `ShutdownDrains`, `RequestsReturn` hold, unless a tool hangs |
| `closed_is_reviewed` | 4 requests, 2 sessions | `ClosedIsReviewed` violated |
| `memory_merges` | 4 requests, 2 sessions | `MemoryMerges` violated |
| `agent_loop` | 1 subagent, rounds of up to 2 parallel calls, 2 todo items | `TypeOK`, `RequestsArePaired`, `TodoIdsAreStable`, `SubagentsAreAwaited`, `TurnIsAtomic`, `FinalizerStops` hold (1 million states) |
| `screen_is_current` | 2 parallel calls | `ScreenIsCurrent` violated |
| `daemon` | 2 daemons, 3 commands, 1 crash, fairness | `TypeOK`, `FilesNameTheDaemon`, `CleanExit`, `NoConnectionIsCut`, `StopStops`, `CommandsReturn` hold (1.0 million states) |
| `serving_is_running` | 2 daemons, 3 commands, no crash | `ServingIsRunning` violated |
| `telegram` | 3 messages, 2 users, 2 chats, 2 codes, 2 chunks, 1 crash, symmetry | `TypeOK`, `ApprovalIsDurable`, `HeldCodesWork`, `ChatHasOneSession`, `ResultIsShown` hold (1.0 million states) |
| `cron` | 2 names, 2 starts (commands, runs or edits), 1 edit by hand, clock 0..1, fairness | `TypeOK`, `EntriesMatchFiles`, `ResultsAreKept`, `CommandsEnd` hold (0.6 million states) |
| `chat_client` | 2 messages, 4 events, 2 tool lines, 1 Esc, fairness | `TypeOK`, `ScreenShowsTurn`, `EscHitsItsTurn`, `TurnsEnd`, `QuitCloses` hold (1.4 million states) |
| `tools` | head 2, tail 3, up to 8 bytes; 2 calls; 9 trees; fairness | `OutputIsFaithful`, `CallsAreAtomic`, `SearchIsExact`, `RunReturns` hold (1.7 million states) |

What the newer properties say, and where they stop:

* `ApprovalIsDurable`: an approval an owner saw confirmed is on disk and survives a restart,
  and only users an owner approved are served, although `ApproveByOTP` changes its memory
  before it persists. `HeldCodesWork`: refusals, other approvals and failed writes do not void
  the code a user was sent. A restart may: `GetOrCreateOTP` only logs a failed persist and hands
  the code out. If no later persist succeeds before the daemon dies, the code is lost, and the
  property excludes just that (`lost`): a code that has been in the file once survives.
* `ChatHasOneSession`: the first messages of a chat share one session, and the id kept for a
  chat is stale only while a `/clean` is about to replace it. Two `/clean` that overlap
  may leave a session that no chat refers to; the property does not exclude it.
* `ResultIsShown`: a handled message ends with its result in the chat unless Telegram refuses
  the result itself.
* `EntriesMatchFiles`: between commands the scheduler mirrors the files, for every interleaving
  of truncations, writes and reads. `stale` excludes what no reload is asked for: edits by
  hand, and commands that fail before they ask; what an overlapping writer destroys is gone from
  the files and the scheduler alike. `ResultsAreKept`: a result that was written stays whole,
  unless another run of the same job opens the file within the same second, which empties it; and
  of several such runs one result stays whole if none failed and none were in the file at once.
  Neither holds beyond that: two runs that overlap in the file may leave a mixture.
* `ScreenShowsTurn`, `EscHitsItsTurn`: the lines, the todo list and the cancellation belong to
  the turn they are shown for. `TurnsEnd` excludes a turn begun before the list of commands
  has arrived: `fetchCommands` may take its last event, or the event may be lost in the decoder,
  and the client then waits for ever. `QuitCloses` speaks of the session whose id has reached the screen.
* `OutputIsFaithful`: exactly full, one byte over, writes larger than the tail, and every
  cut of the output into writes; when something is left out, the head ends with the last newline
  it had and the tail begins behind its first, or they are untrimmed if they had none
  (`CutAtLines`). `RunReturns` excludes children that keep the pipe.
* `CallsAreAtomic` speaks of calls that overlap no other on the file: overlapping calls lose
  updates and may even blend contents, since the tools share no lock.
* `SearchIsExact` includes the totals and truncation marks; list_files is cut off silently. What
  could not be read is missing without a word, and so is the rest of a file whose scan broke off:
  its count is a lower bound. The property is about what was read and scanned.
* `CancelledTurnsEnd`, `ShutdownDrains`, `RequestsReturn` let one kind of behaviour out, and
  name it: a turn waits for ever for a tool (`ToolHangs`). It then keeps `sess.mu`, against
  interrupts, closes and the shutdown; that can happen in the code, see `RunReturns`.

The bounds. Four requests allow two turns queued on a session beside a close and a
reset, or a turn and an interrupt on one session beside a close and a turn on another;
three sessions let two resets of one session run at once. In `agent_loop` a turn has one
round of two parallel calls (one round more changes which messages a history holds, not
how a round is added to it), several turns follow each other up to five messages, so
that a reminder is applied to an old message and stripped again, and the explicit tool
list lets the subagent create todo items beside its parent. Three commands allow a start,
a chat that stays open, and a stop, restart or update; two processes allow the overlap.
`MaxPolls` is 2 where the code polls 20 times: time is not modelled, so the number only
has to allow "too early" and "gives up".

Three messages allow two of one chat beside one of another, or two that overlap a /clean;
two users and codes allow a code drawn twice; one crash separates a before and an after. Two cron
names give a reload a file read before and one read after a write; of the two versions that are
written, one is plain, the other has both a timeout and a schedule that gocron rejects; a third
only comes about by mixing. Two messages with
four events fill the two tool lines and overflow them by one and two; a connection buffer of
one event makes the server wait. Head 2 and tail 3 with eight bytes go round the ring
once; the trees have a directory that sorts behind a file it is visited before, one of the
skip list, and a file that is large, binary or no regular file; the scan of a file breaks off
before its first match or between its two.

Deadlock is checked in the runs of SessionManager, AgentLoop and Daemon; the stuttering
actions `Served`, `Finished` and `Over` mark the ends that are meant. In `telegram`, `cron`,
`chat_client` and `tools` a behaviour ends where its bounds are used up (all messages
handled, all commands done, the program quit), so deadlock is not checked there; `CommandsEnd`,
`TurnsEnd`, `QuitCloses` and `RunReturns` say that nothing ends too early.

### What the violations show

* `ClosedIsReviewed` (README.md: "After each session, a dedicated memory agent reviews the
  conversation"): a turn that looked up its session before `Close` removed it, but got
  `sess.mu` after `Finalize`, is answered and never reviewed.
* `MemoryMerges` (MEMORY_AGENT.md: "Merge new useful information with existing memory"):
  two sessions that close together both load the old memory; the later write wins.
* `ScreenIsCurrent` (`OnTodoSnapshotFunc`: "the session's current todo list"): of two
  parallel todo calls the one that copied the list first may send its copy last.
* `ServingIsRunning` (`IsRunning`: "checks whether the daemon process is alive"), stated for the
  moments at which no daemon starts or ends: of two
  daemons started side by side, the one whose `net.Listen` fails removes the other's PID
  file. The same happens, with the socket too, when `restart` gives up waiting for a
  daemon that a chat connection keeps in its shutdown.

`FilesNameTheDaemon` is the counterpart: as long as two daemons never overlap, the files
are right, through crashes and re-executions.

## Fairness

*Sessions.* Weak fairness of every request's own steps (`OwnStep`): the Go scheduler runs what can
run. Strong fairness of taking `sess.mu`: `sync.Mutex` hands the lock to a waiter after one
millisecond of starvation. Nothing is assumed of models and nothing of tools: a model may not
answer, a turn may ask for tools for ever, which is why `CancelledTurnsEnd` matters, and a
round of tools may never end. A model call ends when its context does, as the providers' HTTP
clients do; a tool round does not. `RequestsReturn` alone assumes that a model that is asked
again and again answers at some time. That a client reads the events it is sent is part of the
steps: a `Send` to a client that stopped reading would block its turn, and is left out.

*Daemon.* Weak fairness of each process's `Run`, of the stop handler's goroutine, of the
goroutine that closes the listener, and of each command. No fairness for users, signals,
crashes and downloads. `StopStops` alone assumes that chat users leave sooner or later;
without that it is false, because `SocketServer.Close` waits for them.

*Cron.* Weak fairness of each command's steps, of the timeout of a run and the two steps that
write its result, and of the exit of the client; none of users, editors, gocron or the provider.

*Chat client.* Weak fairness of the dispatcher, of the turns, and of both readers; none of
keys or of the race in the decoder. That a turn ends is assumed here; `sessions_live` is about it.

*Tools.* Weak fairness of the copying goroutine, the timer and `Run`; a command need not end.

## Proofs

Every proof module extends the module it is about and proves its invariants for all values
of the constants. Each has one inductive invariant `IndInv`, a theorem `Invariance` (`Spec =>
[]IndInv`), and the listed properties as consequences; `ToolsProofs` has one for each of its
parts (`BufferInv`, `FileInv`, `SearchInv`). With that every safety property the runs check is
proved. The invariants were checked with TLC on
the instances of the runs before they were proved. `NumberFacts` has the lemmas that a nonempty
set of numbers has a least and, if bounded, a greatest member.

| Module | Proved | Assumption on the constants |
|---|---|---|
| `SessionManagerProofs` | `TypeOK`, `StableView`, `CancelHitsHolder`, `CancelIsAsked`, `TurnsDurable`, `ResetIsFresh`, `ImplementsLog` | `NoneAssumption`, `SessionsAssumption`: nil, sessions and outcomes are told apart |
| `AgentLoopProofs` | `TypeOK`, `RequestsArePaired`, `TodoIdsAreStable`, `SubagentsAreAwaited`, `TurnIsAtomic`, `FinalizerStops` | `BoundsAssumption`: the bounds are positive, the root is no subagent, lists hold the tools of a chat |
| `DaemonProofs` | `TypeOK`, `FilesNameTheDaemon`, `CleanExit`, `NoConnectionIsCut` | `DaemonAssumption`: nil is no process and no command |
| `TelegramProofs` | `TypeOK`, `ApprovalIsDurable`, `HeldCodesWork`, `ChatHasOneSession`, `ResultIsShown` | `TelegramAssumption`: nil is no user, chat, code or session |
| `CronProofs` | `TypeOK`, `EntriesMatchFiles`, `ResultsAreKept` | `CronAssumption`: names, commands and runs are finite sets of numbers, nil is none of them |
| `ChatClientProofs` | `TypeOK`, `ScreenShowsTurn`, `EscHitsItsTurn` | `ChatClientAssumption`: the empty input completes to no command, the limits are positive |
| `ToolsProofs` | `OutputIsFaithful`, `CallsAreAtomic`, `SearchIsExact` | `BoundedExecAssumption`: the capacities are positive, the newline is a byte; `FileToolsAssumption`: requests have the fields of their tool; `SearchAssumption`: so have queries, limits are positive, and trees are in the order of `filepath.WalkDir` |

### Sessions

* `StableView` is not inductive by itself: that nobody else writes the history while a
  goroutine works on it follows from the lock, so the invariant says where each kind of
  request can be (`OpInv`), that `sess.mu` is held exactly between `Lock` and `Unlock`
  (`LockInv`), and that `sess.cancel` is set exactly while its turn runs (`CancelInv`).
  `TypeCorrect`, `ViewsAreStable`, `CancelIsPrecise` follow from it.
* `HistoryIsAppendOnly`: only `TurnAnswer` writes a history, and by `StableView` it appends
  to what the history is, not to what it was.
* `NoTurnIsLost`: adds `HistInv`, that histories hold answered turns only, each once, and
  all of them.
* `CancelHasCause`: adds `AskedInv`; the cause is the request that took the cancelling step,
  and requests never change what they do.
* `ResetsAreFresh`: adds `ResetInv`; a session a reset returns was created by it, so no earlier
  or later request can return it, and whoever removes it was asked to.
* `ManagerImplementsLog`: SessionManager implements SessionLog. It needs `IndInv`, `HistInv` and
  `TargetInv` (the session a request that has begun works on was once created). Under the
  mapping `TurnAnswer` is `Commit`, which `StableView` and `HistInv` allow: it appends to the log
  as it is, a turn that is in no log yet; `Create` and the creation in Reset are `Open`; the
  removal in Close is `Remove`, or a stutter when the session has gone already; all other
  steps stutter. `LogStep` is the lemma for the steps.

### Turns, tool calls and subagents

Every step of AgentLoop is first shown to be one of a few abstract steps (`Step`: a call takes
effect, a round is answered, the root answers or fails, a subagent is spawned or returns), and
the invariants are proved of those. `PairInv` says that the messages of a loop are paired up to
the round under way and end with the calls of that round. `TurnInv` relates the messages of the
turn to the log, apart from the one message with the reminder; `TurnIsAtomic` then follows
step by step. `SubagentsAreAwaited` needs more than that each running subagent has one call
that waits for it (`WaitInv`): a circle of subagents waiting for each other would satisfy
that and outlive the turn. `TreeInv` excludes it for any depth: of any set of running
subagents, one is waited for from outside the set. `WaitStep` says how the waiting changes, by
a spawn or a return only. `TodoInv` covers the list, the screen and every snapshot under way.

### Daemon

`SoleInv`: without an overlap one process is alive, the files it has written stay, and its
listener is the one the socket leads to; it needs `FileInv` (who a file names is alive or was
killed), so that a start which finds no daemon alive cannot meet files in use. `CommandInv` and
`ProcessInv` follow a connection from dial to reply; `NoConnectionIsCut` is their
consequence.

### Telegram

`SavedInv` is the heart of `HeldCodesWork`: what the file was ever given for a user it has until it
has the user's approval, and file and memory agree on it, although every write may fail after
the memory has changed; while the daemon is down the file alone decides, and has every code that
is not lost. `GateInv` gives the other half of `ApprovalIsDurable`. `OwnerInv` says
that a session belongs to one chat and that the session a /clean has opened is known to
nobody else until it is in the map; `HandlerInv` says where a handler has what.

### Cron

`Mirror`: a file that no command is about to reload is as the scheduler knows it, and during a
reload the same holds of the part that has been read. That is the invariant between the
steps of a reload, where `EntriesMatchFiles` says nothing. `NameInv` keeps the names commands
and runs work on. `ResultInv` says of each result file that a
run which has it open alone finds it empty, that one which two had open is shared, and that one
whose runs have all written it holds the whole result of one of them.

### Chat client

`FlightInv`: at most one message is on its way, running, or ended and not yet read, and only
while its reader waits. `TagInv`: everything asked for behind the message of a turn was asked
for in that turn, so an interrupt that finds a registered turn carries its number.
`DisplayInv` and `TypingInv` keep the indices in range: the tool lines and the summary are
lines of the display, at most `MaxToolCalls` of them, and the selection wraps around.

`ScreenInv` is what `ScreenShowsTurn` rests on. `seen` is a history of the tool calls of the
turn; `Begins`, `Slotted` and `Filled` say that the message of the turn is one line, that below
it and above the stream come the summary and then the slots in their order, that these hold the
latest calls, and that no other line of the turn is about a tool. The property speaks of
the lines on the screen and the calls received only, not of the slots the code keeps; it
follows because the summary and the slots, in that order, are the lines of the turn about
tools, one for each line that is expected. `TodoInv` follows
a todo list from the turn through the connection: every list on its way and every message
under way belongs to the session of the screen, and no list comes behind the end of its turn,
which is why one cannot arrive after a /clean.

### Bounded output

`HeadInv`, `PendingInv` and `RingInv`: the head holds the first bytes, what is pending are the
last ones, and the ring read from `tailStart` on holds the last bytes consumed, with nothing
dropped before it is full. `OutputIsFaithful` follows with the first newline of the tail and the
last of the head, which `NumberFacts` provides. The proofs are about `ExecSpec`, the buffer and
`Run` alone. Where the cuts are (`CutAtLines`) follows from the same two newlines: what was trimmed
has none.

### File tools

`SerialInv`: as long as no call has overlapped another, one call is under way, and at each of
its steps the file and what the call holds are a function of the file it found (`Working`):
after k edits, `AfterEdits` of the first k, each of which found its string (`Found`). `AskedInv`
keeps the step and the edit within what was asked for. `AfterEdits` is a recursive function of
the list of edits; `AfterEditsStep` gives its defining equation, by the functions that satisfy it
up to k (`EditedExists`, `EditedAgree`, each by a least counterexample). What it yields for a
whole list is never needed, only how one edit continues it.

### Search

The walk stands at a position n of the tree. `WalkInv(n)`: still to be visited are the
positions behind n above which nothing up to n was skipped or unreadable. `FoundInv(n)`: the
matches are the rows of the entries up to n that could be read (`Reached`), of a file as far as
its scan went, each once; for
list_files, which stops collecting at its limit, the first of them by path. `VisitWalk` is the
step: what an entry closes off lies behind it (`UnderIsBehind`, from `AncestorsBefore`), and what
is passed over between two visits was closed off by something before. When nothing is
left, what was reached is what is visible (`SeenIsVisible`). The answer is then a matter
of `SortedIsSorted` (the ranks are a permutation, since the order is total and rows differ),
`CappedIsExact`, and for the counts of grep a bijection between the matches of a file and its
lines.

### Only model-checked

Liveness, which is out of the prover's reach: `CancelledTurnsEnd`, `ShutdownDrains`,
`RequestsReturn`, `StopStops`, `CommandsReturn`, `CommandsEnd`, `TurnsEnd`, `QuitCloses` and
`RunReturns`.

## Not modelled

`PROJECT.json` lists the reasons. Providers translate between message formats of external
services; a provider is an environment that answers anything. The watchdog's loop has no
check registered. The provider container holds one mutex from lookup to insertion, so it
is one step for everyone else. Configuration, setup, service installation and the skill
files and commands are sequential I/O without state the daemon keeps.

Left out of modelled components: wording, formatting and wire encoding; rendering, window
sizes and scrolling of the TUI; the command menu `SyncCommands` sends to Telegram; the
compression of the transcript given to the memory agent. Operations on the PID and socket
files are assumed to succeed; PIDs are not reused; a subagent that was offered no tool is
assumed to call none.

## Plan

Done: the modules above with their runs, the refinement of the session log, and every safety
property of the runs as a theorem. What is left, most important first:

1. An abstract specification of the Telegram gate (who is served) and of the scheduler (which
   jobs run), with Telegram and Cron shown to implement them.
2. Several files in FileTools, and searches beside calls that change the tree.
3. The provider container and the configuration, if they come to keep state a daemon changes.
