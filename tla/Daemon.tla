------------------------------- MODULE Daemon -------------------------------
(***************************************************************************)
(* The life of daemon processes (pkg/daemon/daemon.go, socket.go,          *)
(* pidfile.go, updater.go) and the commands that control them (cmd/start,  *)
(* stop, restart, update and the chat clients).                            *)
(*                                                                         *)
(* Processes share two files of the home directory: the PID file and the   *)
(* path of the Unix socket.  Every read, write or unlink of one of them is *)
(* a step, and so is each point where a process waits: the select of Run,  *)
(* the wait for the goroutines, the wait for open connections.             *)
(* Writing and removing the two files is assumed to succeed.               *)
(***************************************************************************)
EXTENDS Naturals, FiniteSets

CONSTANTS
  Daemons,    \* bound: the daemon processes a behaviour may start, named by their PIDs
  Commands,   \* bound: the command-line invocations of a behaviour
  MaxPolls,   \* how often restart looks whether the daemon has gone (20 in the code)
  MaxCrashes, \* bound: daemons killed without a chance to clean up
  None,       \* no process, no file
  Empty,      \* a PID file that has been truncated and not yet written
  Garbled     \* one that two processes wrote at once

ASSUME DaemonAssumption == /\ {None, Empty, Garbled} \cap (Daemons \cup Commands) = {}
                           /\ None # Empty /\ None # Garbled /\ Empty # Garbled
                           /\ MaxPolls \in Nat \ {0} /\ MaxCrashes \in Nat

VARIABLES
  pidFile,    \* the PID in wildgecu.pid, or what else ReadPID finds
  sock,       \* the process whose listener created wildgecu.sock, or None
  main,       \* where each process's Run is
  ctx,        \* processes whose context has been cancelled
  listening,  \* processes whose listener is open
  stopping,   \* processes in which a stop handler's goroutine is about to cancel
  updating,   \* processes in which SelfUpdate runs
  reexec,     \* processes that leave Run to exec the new binary
  crashed,    \* history: processes that were killed
  overlapped, \* history: a daemon was started while another one was alive
  cli,        \* where each command is
  kind,       \* what each command is
  link,       \* the process each command's connection leads to
  accepted,   \* commands whose connection has been accepted
  polls       \* restart: how often it has looked

fileVars    == <<pidFile, sock>>
processVars == <<ctx, listening, stopping, updating, reexec, crashed, overlapped>>
commandVars == <<cli, kind, link, accepted, polls>>
vars == <<fileVars, main, processVars, commandVars>>

Kinds    == {"start", "stop", "restart", "update", "chat"}
CliSteps == {"idle", "check", "dial", "sent", "open", "poll", "spawn", "done"}
Starting == {"write_pid", "fill_pid", "stale", "listen", "setup"}
Leaving  == {"drain", "close", "close_wait", "unlink", "exec", "remove_pid"}
Points   == {"off", "run", "dead"} \cup Starting \cup Leaving

Alive(d)     == main[d] \notin {"off", "dead"}
Accepting(d) == d \in listening /\ main[d] \notin Starting
Conns(d)     == {c \in accepted : link[c] = d}
Goto(d, p)   == main' = [main EXCEPT ![d] = p]

Init ==
  /\ pidFile = None /\ sock = None
  /\ main = [d \in Daemons |-> "off"]
  /\ ctx = {} /\ listening = {} /\ stopping = {} /\ updating = {} /\ reexec = {}
  /\ crashed = {} /\ overlapped = FALSE
  /\ cli   = [c \in Commands |-> "idle"]
  /\ kind  = [c \in Commands |-> "chat"]
  /\ link  = [c \in Commands |-> None]
  /\ accepted = {}
  /\ polls = [c \in Commands |-> 0]

-----------------------------------------------------------------------------
(* Run: start                                                              *)

\* Mutant: a PID file that is there is left as it is.
TruncatePIDIfAbsent(d) ==
  /\ main[d] = "write_pid"
  /\ pidFile' = IF pidFile = None THEN Empty ELSE pidFile
  /\ Goto(d, IF pidFile = None THEN "fill_pid" ELSE "stale")
  /\ UNCHANGED <<sock, processVars, commandVars>>

\* WritePID: os.WriteFile truncates the file, or creates it, ...
TruncatePID(d) ==
  /\ main[d] = "write_pid"
  /\ pidFile' = Empty
  /\ Goto(d, "fill_pid")
  /\ UNCHANGED <<sock, processVars, commandVars>>

\* ... and then writes. What another process wrote since is overwritten, as far as the
\* number is long, unless it is in a new file; a file that was removed stays removed.
WritePID(d) ==
  /\ main[d] = "fill_pid"
  /\ \/ pidFile = Empty /\ pidFile' = d
     \/ pidFile = None /\ UNCHANGED pidFile
     \/ pidFile \notin {None, Empty} /\ pidFile' \in {d, Garbled, pidFile}
  /\ Goto(d, "stale")
  /\ UNCHANGED <<sock, processVars, commandVars>>

\* NewSocketServer: os.Remove of a stale socket ...
RemoveStale(d) ==
  /\ main[d] = "stale"
  /\ sock' = None
  /\ Goto(d, "listen")
  /\ UNCHANGED <<pidFile, processVars, commandVars>>

\* Mutant: an error of NewSocketServer ends the process on the spot.
ListenOrExit(d) ==
  /\ main[d] = "listen"
  /\ \/ sock = None /\ sock' = d /\ listening' = listening \cup {d} /\ Goto(d, "setup")
     \/ sock # None /\ Goto(d, "dead") /\ UNCHANGED <<sock, listening>>
  /\ UNCHANGED <<pidFile, ctx, stopping, updating, reexec, crashed, overlapped, commandVars>>

\* ... and net.Listen, which fails if the path exists again. Run then returns, with only
\* RemovePID deferred so far.
Listen(d) ==
  /\ main[d] = "listen"
  /\ \/ sock = None /\ sock' = d /\ listening' = listening \cup {d} /\ Goto(d, "setup")
     \/ sock # None /\ Goto(d, "remove_pid") /\ UNCHANGED <<sock, listening>>
  /\ UNCHANGED <<pidFile, ctx, stopping, updating, reexec, crashed, overlapped, commandVars>>

\* Home, Telegram store, session manager, cron: any of them may fail, and Run returns
\* through its deferred calls. Otherwise the socket is served.
Setup(d) ==
  /\ main[d] = "setup"
  /\ \/ Goto(d, "run") /\ UNCHANGED ctx
     \/ Goto(d, "close") /\ ctx' = ctx \cup {d}
  /\ UNCHANGED <<fileVars, listening, stopping, updating, reexec, crashed, overlapped, commandVars>>

-----------------------------------------------------------------------------
(* Run: end                                                                *)

\* The goroutine of the stop handler, after its delay.
StopFires(d) ==
  /\ d \in stopping
  /\ stopping' = stopping \ {d}
  /\ ctx' = ctx \cup {d}
  /\ UNCHANGED <<fileVars, main, listening, updating, reexec, crashed, overlapped, commandVars>>

\* case <-ctx.Done(), and case sig := <-sigCh for SIGTERM and SIGINT.
Leave(d) ==
  /\ main[d] = "run"
  /\ ctx' = ctx \cup {d}
  /\ Goto(d, "drain")
  /\ UNCHANGED <<fileVars, listening, stopping, updating, reexec, crashed, overlapped, commandVars>>

\* SelfUpdate ends. On success it raises SIGUSR1, which a Run that has left its select
\* never sees.
UpdateDone(d) ==
  /\ d \in updating
  /\ updating' = updating \ {d}
  /\ \/ UNCHANGED <<main, ctx, reexec>>
     \/ /\ main[d] = "run"
        /\ ctx'    = ctx \cup {d}
        /\ reexec' = reexec \cup {d}
        /\ Goto(d, "drain")
  /\ UNCHANGED <<fileVars, listening, stopping, crashed, overlapped, commandVars>>

\* listener.Close: the net package unlinks the path the first time, whatever file it
\* names by now, and connections nobody has accepted are reset.
CloseListener(d) ==
  /\ listening' = listening \ {d}
  /\ sock' = IF d \in listening THEN None ELSE sock
  /\ LET reset == {c \in Commands \ accepted : link[c] = d} IN
     /\ link' = [c \in Commands |-> IF c \in reset THEN None ELSE link[c]]
     /\ cli'  = [c \in Commands |-> IF c \in reset THEN "done" ELSE cli[c]]

\* Serve's goroutine that waits for <-ctx.Done().
ServeEnds(d) ==
  /\ Accepting(d) /\ d \in ctx
  /\ CloseListener(d)
  /\ UNCHANGED <<pidFile, main, ctx, stopping, updating, reexec, crashed, overlapped, kind, accepted, polls>>

\* scheduler.Stop and waitWithTimeout, which ends one way or the other.
Drain(d) ==
  /\ main[d] = "drain"
  /\ Goto(d, "close")
  /\ UNCHANGED <<fileVars, processVars, commandVars>>

\* SocketServer.Close, called or deferred: the listener is closed, ...
Close(d) ==
  /\ main[d] = "close"
  /\ CloseListener(d)
  /\ Goto(d, "close_wait")
  /\ UNCHANGED <<pidFile, ctx, stopping, updating, reexec, crashed, overlapped, kind, accepted, polls>>

\* Mutant: open connections are not waited for.
CloseWaitNot(d) ==
  /\ main[d] = "close_wait"
  /\ Goto(d, "unlink")
  /\ UNCHANGED <<fileVars, processVars, commandVars>>

\* ... s.wg.Wait() waits for every accepted connection, ...
CloseWait(d) ==
  /\ main[d] = "close_wait"
  /\ Conns(d) = {}
  /\ Goto(d, "unlink")
  /\ UNCHANGED <<fileVars, processVars, commandVars>>

\* ... and the path is removed.
Unlink(d) ==
  /\ main[d] = "unlink"
  /\ sock' = None
  /\ Goto(d, IF d \in reexec THEN "exec" ELSE "remove_pid")
  /\ UNCHANGED <<pidFile, processVars, commandVars>>

\* syscall.Exec keeps the PID and starts over; if it fails (or the executable cannot be
\* resolved) Run returns, and the deferred Close removes the path once more.
Exec(d) ==
  /\ main[d] = "exec"
  /\ reexec' = reexec \ {d}
  /\ \/ /\ Goto(d, "write_pid")
        /\ ctx' = ctx \ {d} /\ stopping' = stopping \ {d} /\ updating' = updating \ {d}
     \/ /\ Goto(d, "unlink")
        /\ UNCHANGED <<ctx, stopping, updating>>
  /\ UNCHANGED <<fileVars, listening, crashed, overlapped, commandVars>>

\* The deferred RemovePID, and the process exits.
RemovePID(d) ==
  /\ main[d] = "remove_pid"
  /\ pidFile' = None
  /\ Goto(d, "dead")
  /\ stopping' = stopping \ {d} /\ updating' = updating \ {d}
  /\ UNCHANGED <<sock, ctx, listening, reexec, crashed, overlapped, commandVars>>

\* The process is killed, or loses its machine: files stay, connections break.
Crash(d) ==
  /\ Alive(d)
  /\ Cardinality(crashed) < MaxCrashes
  /\ crashed' = crashed \cup {d}
  /\ Goto(d, "dead")
  /\ listening' = listening \ {d}
  /\ stopping' = stopping \ {d} /\ updating' = updating \ {d} /\ reexec' = reexec \ {d}
  /\ link' = [c \in Commands |-> IF link[c] = d THEN None ELSE link[c]]
  /\ cli'  = [c \in Commands |-> IF link[c] = d THEN "done" ELSE cli[c]]
  /\ accepted' = accepted \ Conns(d)
  /\ UNCHANGED <<fileVars, ctx, overlapped, kind, polls>>

-----------------------------------------------------------------------------
(* Commands                                                                *)

\* ReadPID, which needs a number, and signal 0 to that process.
IsRunning == pidFile \in Daemons /\ Alive(pidFile)

CliGoto(c, p) == cli' = [cli EXCEPT ![c] = p]

Begin(c, k) ==
  /\ cli[c] = "idle"
  /\ kind' = [kind EXCEPT ![c] = k]
  /\ CliGoto(c, IF k \in {"start", "restart"} THEN "check" ELSE "dial")
  /\ UNCHANGED <<fileVars, main, processVars, link, accepted, polls>>

\* start refuses if a daemon is running; restart then stops it first.
Check(c) ==
  /\ cli[c] = "check"
  /\ CliGoto(c, IF ~IsRunning THEN "spawn" ELSE IF kind[c] = "start" THEN "done" ELSE "dial")
  /\ UNCHANGED <<fileVars, main, processVars, kind, link, accepted, polls>>

\* SendCommand and the chat client: stat and dial. Without a file, or with one nobody
\* listens on, the command fails.
Dial(c) ==
  /\ cli[c] = "dial"
  /\ \/ /\ sock \in listening
        /\ link' = [link EXCEPT ![c] = sock]
        /\ CliGoto(c, "sent")
     \/ sock \notin listening /\ CliGoto(c, "done") /\ UNCHANGED link
  /\ UNCHANGED <<fileVars, main, processVars, kind, accepted, polls>>

\* Serve accepts the connection and gives it a goroutine that Close waits for.
Accept(c) ==
  /\ cli[c] = "sent" /\ c \notin accepted
  /\ Accepting(link[c])
  /\ accepted' = accepted \cup {c}
  /\ UNCHANGED <<fileVars, main, processVars, cli, kind, link, polls>>

\* Mutant: the connection is kept open for another command.
HandleKeepsOpen(c) ==
  /\ cli[c] = "sent" /\ c \in accepted /\ kind[c] # "chat"
  /\ stopping' = IF kind[c] = "update" THEN stopping ELSE stopping \cup {link[c]}
  /\ updating' = IF kind[c] = "update" THEN updating \cup {link[c]} ELSE updating
  /\ CliGoto(c, IF kind[c] = "restart" THEN "poll" ELSE "done")
  /\ UNCHANGED <<fileVars, main, ctx, listening, reexec, crashed, overlapped, kind, link, accepted, polls>>

\* The stop and update handlers: a goroutine is started, the reply is sent and the
\* connection closed. (ping, status and the cron handlers only reply.)
Handle(c) ==
  /\ cli[c] = "sent" /\ c \in accepted /\ kind[c] # "chat"
  /\ stopping' = IF kind[c] = "update" THEN stopping ELSE stopping \cup {link[c]}
  /\ updating' = IF kind[c] = "update" THEN updating \cup {link[c]} ELSE updating
  /\ link' = [link EXCEPT ![c] = None]
  /\ accepted' = accepted \ {c}
  /\ CliGoto(c, IF kind[c] = "restart" THEN "poll" ELSE "done")
  /\ UNCHANGED <<fileVars, main, ctx, listening, reexec, crashed, overlapped, kind, polls>>

\* handleChatConnection: open until the client goes away. Nothing closes it from the
\* daemon's side.
HandleChat(c) ==
  /\ cli[c] = "sent" /\ c \in accepted /\ kind[c] = "chat"
  /\ CliGoto(c, "open")
  /\ UNCHANGED <<fileVars, main, processVars, kind, link, accepted, polls>>

Disconnect(c) ==
  /\ cli[c] = "open"
  /\ CliGoto(c, "done")
  /\ link' = [link EXCEPT ![c] = None]
  /\ accepted' = accepted \ {c}
  /\ UNCHANGED <<fileVars, main, processVars, kind, polls>>

\* Mutant: restart looks until the daemon has gone.
PollForever(c) ==
  /\ cli[c] = "poll"
  /\ CliGoto(c, IF ~IsRunning THEN "spawn" ELSE "poll")
  /\ UNCHANGED <<fileVars, main, processVars, kind, link, accepted, polls>>

\* Mutant: restart looks once too often.
PollOnceMore(c) ==
  /\ cli[c] = "poll"
  /\ polls' = [polls EXCEPT ![c] = @ + 1]
  /\ CliGoto(c, IF ~IsRunning \/ polls[c] = MaxPolls THEN "spawn" ELSE "poll")
  /\ UNCHANGED <<fileVars, main, processVars, kind, link, accepted>>

\* restart: "Wait for the daemon to exit", for MaxPolls times 250 ms.
Poll(c) ==
  /\ cli[c] = "poll"
  /\ polls' = [polls EXCEPT ![c] = @ + 1]
  /\ CliGoto(c, IF ~IsRunning \/ polls[c] + 1 = MaxPolls THEN "spawn" ELSE "poll")
  /\ UNCHANGED <<fileVars, main, processVars, kind, link, accepted>>

\* reExecDetached: a new process, or an error.
Spawn(c, d) ==
  /\ cli[c] = "spawn"
  /\ main[d] = "off"
  /\ CliGoto(c, "done")
  /\ Goto(d, "write_pid")
  /\ overlapped' = (overlapped \/ \E e \in Daemons : Alive(e))
  /\ UNCHANGED <<fileVars, ctx, listening, stopping, updating, reexec, crashed, kind, link, accepted, polls>>

SpawnFails(c) ==
  /\ cli[c] = "spawn"
  /\ CliGoto(c, "done")
  /\ UNCHANGED <<fileVars, main, processVars, kind, link, accepted, polls>>

-----------------------------------------------------------------------------
RunStep(d) ==
  \/ TruncatePID(d) \/ WritePID(d) \/ RemoveStale(d) \/ Listen(d) \/ Setup(d)
  \/ Drain(d) \/ Close(d) \/ CloseWait(d) \/ Unlink(d) \/ Exec(d) \/ RemovePID(d)
  \/ d \in ctx /\ Leave(d)

CommandStep(c) ==
  \/ Check(c) \/ Dial(c) \/ Accept(c) \/ Handle(c) \/ HandleChat(c) \/ Poll(c)
  \/ (\E d \in Daemons : Spawn(c, d)) \/ SpawnFails(c)

\* Every command of the behaviour has returned.
Over == /\ \A c \in Commands : cli[c] = "done"
        /\ UNCHANGED vars

Next ==
  \/ \E d \in Daemons : RunStep(d) \/ Leave(d) \/ StopFires(d) \/ UpdateDone(d) \/ ServeEnds(d) \/ Crash(d)
  \/ \E c \in Commands : CommandStep(c) \/ Disconnect(c) \/ \E k \in Kinds : Begin(c, k)
  \/ Over

(***************************************************************************)
(* Fairness: a goroutine, a process or a command that can go on does.      *)
(* Nothing is assumed of users (Begin, Disconnect), of signals (Leave) or  *)
(* of crashes; UpdateDone may wait for its download for ever.              *)
(***************************************************************************)
Fairness == /\ \A d \in Daemons : WF_vars(RunStep(d)) /\ WF_vars(StopFires(d)) /\ WF_vars(ServeEnds(d))
            /\ \A c \in Commands : WF_vars(CommandStep(c))

Spec == Init /\ [][Next]_vars /\ Fairness

-----------------------------------------------------------------------------
(* Properties                                                              *)

\* Every variable ranges over what its counterpart can hold.
TypeOK ==
  /\ pidFile \in Daemons \cup {None, Empty, Garbled} /\ sock \in Daemons \cup {None}
  /\ main \in [Daemons -> Points]
  /\ ctx \subseteq Daemons /\ listening \subseteq {d \in Daemons : Alive(d)}
  /\ stopping \subseteq Daemons /\ updating \subseteq Daemons /\ reexec \subseteq Daemons
  /\ crashed \subseteq Daemons /\ overlapped \in BOOLEAN
  /\ cli \in [Commands -> CliSteps] /\ kind \in [Commands -> Kinds]
  /\ link \in [Commands -> Daemons \cup {None}]
  /\ accepted \subseteq {c \in Commands : link[c] # None}
  /\ polls \in [Commands -> 0 .. MaxPolls]

\* As long as no two daemons were ever alive at once, the PID file and the socket name the
\* daemon that is serving: whatever crashes left behind, whatever updates re-executed.
FilesNameTheDaemon ==
  ~overlapped => \A d \in Daemons :
    main[d] = "run" /\ d \notin ctx => pidFile = d /\ sock = d /\ d \in listening

\* A daemon that ended by itself, on any path out of Run, has left no file that names it.
CleanExit ==
  \A d \in Daemons : main[d] = "dead" /\ d \notin crashed => pidFile # d /\ sock # d

\* An orderly exit and a re-exec cut no connection: whoever was accepted is served to the
\* end first (the stop command gets its reply, a chat its user's goodbye).
NoConnectionIsCut ==
  \A d \in Daemons : (main[d] \in {"exec", "remove_pid", "dead"} \cup Starting) => Conns(d) = {}

\* If chat users leave sooner or later, a daemon told to stop ends, or starts anew. (Each
\* behaviour has finitely many commands, so "again and again" says it of every stop.)
ChatsEnd  == \A c \in Commands : WF_vars(Disconnect(c))
StopStops == ChatsEnd => []<>(\A d \in ctx : main[d] = "dead")

\* Every command but a chat returns, also beside a daemon that hangs in its shutdown
\* because a chat stays open.
Returned(c)    == cli[c] \in {"idle", "done"} \/ kind[c] = "chat"
CommandsReturn == []<>(\A c \in Commands : Returned(c))

\* What IsRunning's comment says ("IsRunning checks whether the daemon process is alive"):
\* when nothing starts or ends, no daemon serves unnoticed. Does not hold: of two daemons
\* started side by side, or of an old one that restart did not wait for, the one that ends
\* removes the other's files.
Settled          == \A d \in Daemons : Alive(d) => main[d] = "run" /\ d \notin ctx
ServingIsRunning == Settled /\ (\E d \in Daemons : Alive(d)) => IsRunning
=============================================================================
