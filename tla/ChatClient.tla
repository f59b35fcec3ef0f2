----------------------------- MODULE ChatClient -----------------------------
(***************************************************************************)
(* A terminal chat: the Bubble Tea model of pkg/chat/tui/tui.go, the       *)
(* client of pkg/daemon/chat_client.go it talks through, and the daemon's  *)
(* end of that connection (pkg/daemon/chat_handler.go).                    *)
(*                                                                         *)
(* Requests and events travel on one ordered connection.  The daemon       *)
(* dispatches requests one at a time; a message runs in a goroutine of its *)
(* own, behind the session's mutex.  The client has up to two goroutines   *)
(* that decode events, the one of the turn and the one of fetchCommands:   *)
(* each takes whichever event comes next, and while both are inside the    *)
(* decoder, which has no lock, an event may be lost or taken twice.  (A    *)
(* decoder left with an error by that race is not modelled.)  Otherwise    *)
(* decoding an event and the Update it causes are one step.  The text of a *)
(* line is abstracted to what it stands for.                               *)
(***************************************************************************)
EXTENDS Integers, Sequences, SequencesExt

CONSTANTS
  Inputs,      \* what the text field may hold
  Empty,       \* the empty text field
  MatchCount,  \* how many commands complete each input, once they are loaded
  MaxToolCalls, \* maxToolCallsPerTurn
  MaxTurns,    \* bound on the messages of a behaviour
  MaxEvents,   \* bound on the events of the turns, their ends excluded
  MaxEscs,     \* bound on the presses of Esc
  MaxWire      \* bound on the events the connection buffers

ASSUME ChatClientAssumption ==
  /\ Empty \in Inputs
  /\ MatchCount \in [Inputs -> Nat] /\ MatchCount[Empty] = 0
  /\ MaxToolCalls \in Nat \ {0}
  /\ MaxTurns \in Nat /\ MaxEvents \in Nat /\ MaxEscs \in Nat /\ MaxWire \in Nat \ {0}

VARIABLES
  toServer, toClient,  \* the connection
  live, created,       \* the daemon's sessions, and how many it has made
  closing,             \* the session whose Close the dispatcher waits for, or 0
  running,             \* the goroutines of messages, in the order they get the session
  events,              \* events sent by turns so far
  quit,                \* Model.quitting: the program ends
  sessionID, loading, todos,
  display, streamIdx, chunks, \* chunks: the length of streamContent
  slots, overflow, calls,     \* toolCallSlotIdxs, toolCallOverflowIdx, toolCallsThisTurn
  input, matches, selected, loaded, \* the text field and Autocomplete
  reader, fetch,       \* the goroutines that decode events
  turns, escs,
  seen,                \* history: the tool calls received in this turn
  overlap,             \* history: this turn began before fetchCommands had its answer
  hits                 \* history: the turn Esc was meant for, with the turn it reached

wire    == <<toServer, toClient>>
server  == <<live, created, closing, running, events>>
screen  == <<display, streamIdx, chunks, slots, overflow, calls, seen>>
typing  == <<input, matches, selected, loaded>>
session == <<sessionID, loading, todos>>
procs   == <<quit, reader, fetch, turns, escs, overlap, hits>>
vars    == <<wire, server, screen, typing, session, procs>>

Line(k, n)    == [kind |-> k, n |-> n]
Request(k)    == [type |-> k, session |-> sessionID, turn |-> turns]
Event(k, s, n) == [type |-> k, session |-> s, n |-> n]
Ask(k)        == toServer' = Append(toServer, Request(k))

\* Connect, New and Init: session.create is on its way.
Init ==
  /\ toServer = <<[type |-> "create", session |-> 0, turn |-> 0]>> /\ toClient = <<>>
  /\ live = {} /\ created = 0 /\ closing = 0 /\ running = <<>> /\ events = 0
  /\ quit = FALSE
  /\ sessionID = 0 /\ loading = FALSE /\ todos = 0
  /\ display = <<>> /\ streamIdx = 1 /\ chunks = 0
  /\ slots = <<>> /\ overflow = 0 /\ calls = 0
  /\ input = Empty /\ matches = 0 /\ selected = 0 /\ loaded = FALSE
  /\ reader = "none" /\ fetch = "none"
  /\ turns = 0 /\ escs = 0
  /\ seen = <<>> /\ overlap = FALSE /\ hits = {}

-----------------------------------------------------------------------------
(* The daemon's end                                                        *)

\* send: nobody reads once the client has gone.
CanSend == quit \/ Len(toClient) < MaxWire
Send(ev) == toClient' = IF quit THEN toClient ELSE Append(toClient, ev)

\* dispatchChatRequest, one case each. The dispatcher is busy while it closes a session.
Dispatch(k) == closing = 0 /\ toServer # <<>> /\ Head(toServer).type = k /\ toServer' = Tail(toServer)

\* A session of a model or a directory the daemon cannot use is answered with an error.
DispatchCreate ==
  /\ Dispatch("create") /\ CanSend
  /\ \/ /\ created' = created + 1
        /\ live' = live \cup {created + 1}
        /\ Send(Event("created", created + 1, 0))
     \/ Send(Event("error", 0, 0)) /\ UNCHANGED <<live, created>>
  /\ UNCHANGED <<closing, running, events, screen, typing, session, procs>>

DispatchList ==
  /\ Dispatch("list") /\ CanSend
  /\ Send(Event("commands", 0, 0))
  /\ UNCHANGED <<server, screen, typing, session, procs>>

\* Mutant: a message is taken before the requests that came ahead of it.
DispatchMessageFirst ==
  /\ closing = 0
  /\ \E i \in DOMAIN toServer :
       /\ toServer[i].type = "message"
       /\ toServer' = RemoveAt(toServer, i)
       /\ running' = Append(running, [turn |-> toServer[i].turn, session |-> toServer[i].session,
                                      registered |-> FALSE, calls |-> 0])
  /\ UNCHANGED <<toClient, live, created, closing, events, screen, typing, session, procs>>

\* go handleChatMessage or go handleSlashCommand
DispatchMessage ==
  /\ Dispatch("message")
  /\ running' = Append(running, [turn |-> Head(toServer).turn, session |-> Head(toServer).session,
                                 registered |-> FALSE, calls |-> 0])
  /\ UNCHANGED <<toClient, live, created, closing, events, screen, typing, session, procs>>

Registered(s) == running # <<>> /\ Head(running).session = s /\ Head(running).registered

\* Interrupt reaches the turn that has registered its cancel function, if there is one.
DispatchInterrupt ==
  /\ Dispatch("interrupt")
  /\ hits' = IF Registered(Head(toServer).session)
             THEN hits \cup {<<Head(toServer).turn, Head(running).turn>>} ELSE hits
  /\ UNCHANGED <<toClient, server, screen, typing, session, quit, reader, fetch, turns, escs, overlap>>

\* Close takes the session's mutex, which a turn holds until it returns.
DispatchClose ==
  /\ Dispatch("close")
  /\ closing' = Head(toServer).session
  /\ UNCHANGED <<toClient, live, created, running, events, screen, typing, session, procs>>

CloseSession ==
  /\ closing # 0
  /\ running # <<>> => ~Head(running).registered
  /\ live' = live \ {closing}
  /\ closing' = 0
  /\ UNCHANGED <<wire, created, running, events, screen, typing, session, procs>>

\* The turn, which has looked its session up before, has the mutex and is registered.
TurnStart ==
  /\ running # <<>> /\ ~Head(running).registered
  /\ running' = [running EXCEPT ![1].registered = TRUE]
  /\ UNCHANGED <<wire, live, created, closing, events, screen, typing, session, procs>>

\* onChunk, onToolCall, onInform and onTodoSnapshot
TurnEvent(k) ==
  /\ running # <<>> /\ Head(running).registered
  /\ events < MaxEvents /\ CanSend
  /\ events' = events + 1
  /\ LET n == Head(running).calls + (IF k = "tool_call" THEN 1 ELSE 0)
     IN  /\ running' = [running EXCEPT ![1].calls = n]
         /\ Send(Event(k, Head(running).session, n))
  /\ UNCHANGED <<toServer, live, created, closing, screen, typing, session, procs>>

\* The turn, or a slash command, ends with its content or an error: a cancelled turn, or one
\* whose session is gone.
TurnEnd(k) ==
  /\ running # <<>> /\ CanSend
  /\ Send(Event(k, 0, 0))
  /\ running' = Tail(running)
  /\ UNCHANGED <<toServer, live, created, closing, events, screen, typing, session, procs>>

\* /clean: the answer carries the id of the new session.
Clean ==
  /\ running # <<>> /\ ~Head(running).registered /\ CanSend
  /\ Head(running).session \in live
  /\ created' = created + 1
  /\ live' = (live \ {Head(running).session}) \cup {created + 1}
  /\ Send(Event("done", created + 1, 0))
  /\ running' = Tail(running)
  /\ UNCHANGED <<toServer, closing, events, screen, typing, session, procs>>

-----------------------------------------------------------------------------
(* Starting up                                                             *)

Received(k) == ~quit /\ toClient # <<>> /\ Head(toClient).type \in k /\ toClient' = Tail(toClient)

\* createSession's answer: sessionCreatedMsg or sessionErrorMsg
Created ==
  /\ sessionID = 0 /\ display = <<>>
  /\ Received({"created", "error"})
  /\ IF Head(toClient).type = "created"
     THEN /\ sessionID' = Head(toClient).session
          /\ fetch' = "send"
          /\ UNCHANGED display
     ELSE /\ display' = <<Line("error", 0)>>
          /\ UNCHANGED <<sessionID, fetch>>
  /\ UNCHANGED <<toServer, server, streamIdx, chunks, slots, overflow, calls, seen, typing, loading,
                 todos, quit, reader, turns, escs, overlap, hits>>

\* fetchCommands sends commands.list ...
FetchSend ==
  /\ ~quit /\ fetch = "send"
  /\ Ask("list")
  /\ fetch' = "read"
  /\ UNCHANGED <<toClient, server, screen, typing, session, quit, reader, turns, escs, overlap, hits>>

\* ... and takes the next event for its answer: one of another type carries no commands.
FetchRead ==
  /\ ~quit /\ fetch = "read" /\ toClient # <<>>
  /\ toClient' = Tail(toClient)
  /\ fetch' = "done"
  /\ loaded' = (Head(toClient).type = "commands")
  /\ matches' = 0 /\ selected' = 0
  /\ UNCHANGED <<toServer, server, screen, input, session, quit, reader, turns, escs, overlap, hits>>

\* The two goroutines are inside the one decoder, which has no lock: an event is lost to both ...
EventLost ==
  /\ ~quit /\ fetch = "read" /\ reader = "read" /\ toClient # <<>>
  /\ toClient' = Tail(toClient)
  /\ UNCHANGED <<toServer, server, screen, typing, session, procs>>

\* ... or fetchCommands is given one that the turn is given as well.
EventShared ==
  /\ ~quit /\ fetch = "read" /\ reader = "read" /\ toClient # <<>>
  /\ fetch' = "done"
  /\ loaded' = (Head(toClient).type = "commands")
  /\ matches' = 0 /\ selected' = 0
  /\ UNCHANGED <<wire, server, screen, input, session, quit, reader, turns, escs, overlap, hits>>

-----------------------------------------------------------------------------
(* Keys                                                                    *)

Matching(i) == IF loaded THEN MatchCount[i] ELSE 0

\* The keys that change the text, and Autocomplete.Update: the selection starts over with a
\* new prefix.
Type(i) ==
  /\ ~quit /\ ~loading /\ turns < MaxTurns /\ i # input
  /\ input' = i
  /\ matches' = Matching(i)
  /\ selected' = 0
  /\ UNCHANGED <<wire, server, screen, loaded, session, procs>>

\* Mutant: MoveDown does not wrap around.
MoveDownNoWrap == selected' = selected + 1

MoveDown == selected' = (selected + 1) % matches
MoveUp   == selected' = (selected - 1 + matches) % matches

Select ==
  /\ ~quit /\ ~loading /\ turns < MaxTurns /\ matches > 0
  /\ MoveDown \/ MoveUp
  /\ UNCHANGED <<wire, server, screen, input, matches, loaded, session, procs>>

\* Tab puts the selected command and a space into the text field.
Complete ==
  /\ ~quit /\ ~loading /\ turns < MaxTurns /\ matches > 0
  /\ \E i \in Inputs \ {Empty} : MatchCount[i] = 0 /\ input' = i
  /\ matches' = 0 /\ selected' = 0
  /\ UNCHANGED <<wire, server, screen, loaded, session, procs>>

\* A tick of the spinner or of the cursor after a turn: only now the dropdown notices that
\* Enter has emptied the text field.
Tick ==
  /\ ~quit /\ ~loading /\ matches # Matching(input)
  /\ matches' = Matching(input)
  /\ selected' = 0
  /\ UNCHANGED <<wire, server, screen, input, loaded, session, procs>>

\* Enter sends the text, and starts the goroutine of the turn.
Enter ==
  /\ ~quit /\ ~loading /\ sessionID # 0
  /\ input # Empty /\ turns < MaxTurns
  /\ input' = Empty
  /\ display' = display \o <<Line("user", turns + 1), Line("agent", 0), Line("stream", 0)>>
  /\ streamIdx' = Len(display')
  /\ chunks' = 0 /\ calls' = 0 /\ slots' = <<>> /\ overflow' = 0 /\ seen' = <<>>
  /\ loading' = TRUE
  /\ reader' = "send"
  /\ turns' = turns + 1
  /\ overlap' = (fetch # "done")
  /\ UNCHANGED <<wire, server, matches, selected, loaded, sessionID, todos, quit, fetch, escs, hits>>

Esc ==
  /\ ~quit /\ loading /\ sessionID # 0 /\ escs < MaxEscs
  /\ escs' = escs + 1
  /\ Ask("interrupt")
  /\ UNCHANGED <<toClient, server, screen, typing, session, quit, reader, fetch, turns, overlap, hits>>

\* The program ends, its goroutines and its screen with it.
Exit ==
  /\ toClient' = <<>> /\ reader' = "none" /\ fetch' = "none"
  /\ loading' = FALSE /\ todos' = 0 /\ overlap' = FALSE
  /\ display' = <<>> /\ streamIdx' = 1 /\ chunks' = 0
  /\ slots' = <<>> /\ overflow' = 0 /\ calls' = 0 /\ seen' = <<>>
  /\ input' = Empty /\ matches' = 0 /\ selected' = 0 /\ loaded' = FALSE

\* Mutant: the connection is closed without closing the session.
CtrlCLeaves ==
  /\ ~quit
  /\ quit' = TRUE
  /\ Exit
  /\ UNCHANGED <<toServer, server, sessionID, turns, escs, hits>>

\* Ctrl-C closes the session and ends the program.
CtrlC ==
  /\ ~quit
  /\ quit' = TRUE
  /\ IF sessionID # 0 THEN Ask("close") ELSE UNCHANGED toServer
  /\ Exit
  /\ UNCHANGED <<server, sessionID, turns, escs, hits>>

-----------------------------------------------------------------------------
(* The goroutine of a turn, and the Update of each of its messages         *)

SendMessage ==
  /\ ~quit /\ reader = "send"
  /\ Ask("message")
  /\ reader' = "read"
  /\ UNCHANGED <<toClient, server, screen, typing, session, quit, fetch, turns, escs, overlap, hits>>

ReadEvent(k) == reader = "read" /\ Received(k)

\* streamChunkMsg
Chunk ==
  /\ ReadEvent({"chunk"})
  /\ chunks' = chunks + 1
  /\ display' = [display EXCEPT ![streamIdx] = Line("stream", chunks + 1)]
  /\ UNCHANGED <<toServer, server, streamIdx, slots, overflow, calls, seen, typing, session, procs>>

\* Mutant: the index of the stream is not moved.
InsertLeavesIndex(line) ==
  /\ display' = InsertAt(display, streamIdx, line)
  /\ UNCHANGED streamIdx

\* insertDisplayBeforeStream
InsertBeforeStream(line) ==
  /\ display' = InsertAt(display, streamIdx, line)
  /\ streamIdx' = streamIdx + 1

\* informMsg
Inform ==
  /\ ReadEvent({"inform"})
  /\ InsertBeforeStream(Line("inform", 0))
  /\ UNCHANGED <<toServer, server, chunks, slots, overflow, calls, seen, typing, session, procs>>

\* A further line below the limit.
NewSlot(line) ==
  /\ InsertBeforeStream(line)
  /\ slots' = Append(slots, streamIdx)
  /\ UNCHANGED overflow

\* The first line turns into the summary.
FirstOverflow(line, more) ==
  /\ display' = InsertAt([display EXCEPT ![Head(slots)] = more], streamIdx, line)
  /\ streamIdx' = streamIdx + 1
  /\ slots' = Append(Tail(slots), streamIdx)
  /\ overflow' = Head(slots)

\* The lines move up by one and the summary counts on.
ShiftSlots(line, more) ==
  /\ display' = [i \in DOMAIN display |->
       IF i = overflow THEN more
       ELSE IF i = Last(slots) THEN line
       ELSE IF i \in Range(slots)
            THEN display[slots[(CHOOSE j \in DOMAIN slots : slots[j] = i) + 1]]
       ELSE display[i]]
  /\ UNCHANGED <<streamIdx, slots, overflow>>

\* toolCallMsg
ToolCall ==
  /\ ReadEvent({"tool_call"})
  /\ calls' = calls + 1
  /\ seen' = Append(seen, Head(toClient).n)
  /\ LET line == Line("tool", Head(toClient).n)
         more == Line("more", calls' - MaxToolCalls)
     IN  IF calls' <= MaxToolCalls THEN NewSlot(line)
         ELSE IF overflow = 0 THEN FirstOverflow(line, more)
         ELSE ShiftSlots(line, more)
  /\ UNCHANGED <<toServer, server, chunks, typing, session, procs>>

\* todoSnapshotMsg; the list is known by the session it belongs to.
TodoSnapshot ==
  /\ ReadEvent({"todo_snapshot"})
  /\ todos' = Head(toClient).session
  /\ UNCHANGED <<toServer, server, screen, typing, sessionID, loading, procs>>

TodosOnDone(s) == IF s # 0 /\ s # sessionID THEN 0 ELSE todos

\* streamDoneMsg: the final text, unless it is empty, replaces what was streamed.
Done ==
  /\ ReadEvent({"done"})
  /\ loading' = FALSE
  /\ reader' = "none"
  /\ todos' = TodosOnDone(Head(toClient).session)
  /\ sessionID' = IF Head(toClient).session # 0 THEN Head(toClient).session ELSE sessionID
  /\ display' \in {display, [display EXCEPT ![streamIdx].kind = "answer"]}
  /\ chunks' = 0
  /\ UNCHANGED <<toServer, server, streamIdx, slots, overflow, calls, seen, typing, quit, fetch,
                 turns, escs, overlap, hits>>

\* Mutant: an error leaves the client in the loading state.
ErrorKeepsLoading ==
  /\ ReadEvent({"error"})
  /\ reader' = "none"
  /\ display' = Append(display, Line("error", 0))
  /\ UNCHANGED <<toServer, server, streamIdx, chunks, slots, overflow, calls, seen, typing, session,
                 quit, fetch, turns, escs, overlap, hits>>

\* agentErrorMsg
Error ==
  /\ ReadEvent({"error"})
  /\ loading' = FALSE
  /\ reader' = "none"
  /\ display' = Append(display, Line("error", 0))
  /\ UNCHANGED <<toServer, server, streamIdx, chunks, slots, overflow, calls, seen, typing, sessionID,
                 todos, quit, fetch, turns, escs, overlap, hits>>

\* An event of no interest to a turn, such as fetchCommands' answer.
Ignore ==
  /\ ReadEvent({"commands", "created"})
  /\ UNCHANGED <<toServer, server, screen, typing, session, procs>>

-----------------------------------------------------------------------------
Server ==
  \/ DispatchCreate \/ DispatchList \/ DispatchMessage \/ DispatchInterrupt \/ DispatchClose
  \/ CloseSession

Turn ==
  \/ TurnStart \/ Clean
  \/ \E k \in {"chunk", "tool_call", "inform", "todo_snapshot"} : TurnEvent(k)
  \/ \E k \in {"done", "error"} : TurnEnd(k)

Reader == SendMessage \/ Chunk \/ Inform \/ ToolCall \/ TodoSnapshot \/ Done \/ Error \/ Ignore

Keys == (\E i \in Inputs : Type(i)) \/ Select \/ Complete \/ Tick \/ Enter \/ Esc \/ CtrlC

Next ==
  \/ Server \/ Turn \/ Created \/ FetchSend \/ FetchRead \/ EventLost \/ EventShared
  \/ Reader \/ Keys

\* The daemon serves the connection and its turns end, and the client's goroutines read what
\* arrives. Nobody has to press a key.
Fairness ==
  /\ WF_vars(Server) /\ WF_vars(Turn)
  /\ WF_vars(Created) /\ WF_vars(FetchSend) /\ WF_vars(FetchRead) /\ WF_vars(Reader)

Spec == Init /\ [][Next]_vars /\ Fairness

-----------------------------------------------------------------------------
(* Properties                                                              *)

Kinds == {"user", "agent", "stream", "answer", "tool", "more", "inform", "error"}

\* The type of the state. Every index the model keeps into the display, and the selection
\* of the dropdown, is in range when it is used.
TypeOK ==
  /\ display \in Seq([kind : Kinds, n : Nat])
  /\ turns > 0 /\ ~quit => streamIdx \in DOMAIN display
  /\ Range(slots) \cup {overflow} \subseteq DOMAIN display \cup {0}
  /\ Len(slots) <= MaxToolCalls
  /\ input \in Inputs /\ matches \in Nat
  /\ selected \in 0 .. matches /\ (matches > 0 => selected < matches)
  /\ sessionID \in 0 .. created /\ todos \in 0 .. created /\ live \subseteq 1 .. created
  /\ reader \in {"none", "send", "read"} /\ fetch \in {"none", "send", "read", "done"}
  /\ Len(toClient) <= MaxWire

LastUser  == CHOOSE i \in DOMAIN display : display[i] = Line("user", turns)
ToolLines == {i \in LastUser .. Len(display) : display[i].kind \in {"tool", "more"}}
Earlier   == IF Len(seen) > MaxToolCalls THEN Len(seen) - MaxToolCalls ELSE 0
Latest    == SubSeq(seen, Earlier + 1, Len(seen))

\* The lines of the turn about tool calls are these, from the first to the last.
Shown(lines) ==
  \E f \in [DOMAIN lines -> ToolLines] :
    /\ Range(f) = ToolLines
    /\ \A j, k \in DOMAIN lines : j < k => f[j] < f[k]
    /\ \A k \in DOMAIN lines : display[f[k]] = lines[k]

\* The screen of a turn is what was received: the last MaxToolCalls tool calls in their
\* order below the count of the earlier ones, and the streamed text in its own line, however
\* status lines, chunks and calls alternate. The todo list beside it is the one of the
\* session the next message goes to, also after a /clean has replaced the session.
ScreenShowsTurn ==
  turns > 0 /\ ~quit =>
    /\ Shown((IF Earlier > 0 THEN <<Line("more", Earlier)>> ELSE <<>>)
               \o [i \in DOMAIN Latest |-> Line("tool", Latest[i])])
    /\ display[streamIdx].kind \in {"stream", "answer"}
    /\ loading => display[streamIdx] = Line("stream", chunks)
    /\ todos \in {0, sessionID}

\* Esc cancels the turn it was pressed for or none: not a later one, however long the
\* request travels, because the next message is sent behind it on the same connection.
EscHitsItsTurn == \A h \in hits : h[1] = h[2]

\* A turn that began after the commands were fetched leaves the loading state; one that
\* began before may lose its last event to fetchCommands and never end.
TurnsEnd == loading /\ ~overlap ~> ~loading \/ quit

\* Quitting closes the session of the screen, with a turn under way or not.
QuitCloses == quit ~> sessionID \notin live
=============================================================================
