-------------------------- MODULE ChatClientProofs ---------------------------
(***************************************************************************)
(* Safety of ChatClient for any number of turns, events and presses of Esc *)
(* and for any size of the connection's buffer.                            *)
(***************************************************************************)
EXTENDS ChatClient, SequenceTheorems, TLAPS

Requests == [type : {"create", "list", "message", "interrupt", "close"}, session : Nat, turn : Nat]
Events   == [type : {"created", "error", "commands", "chunk", "tool_call", "inform",
                     "todo_snapshot", "done"}, session : Nat, n : Nat]
Messages == [turn : Nat, session : Nat, registered : BOOLEAN, calls : Nat]
Lines    == [kind : Kinds, n : Nat]

LinkTypes ==
  /\ toServer \in Seq(Requests) /\ toClient \in Seq(Events) /\ running \in Seq(Messages)
  /\ turns \in Nat /\ sessionID \in Nat /\ created \in Nat
  /\ reader \in {"none", "send", "read"} /\ fetch \in {"none", "send", "read", "done"}
  /\ loading \in BOOLEAN /\ quit \in BOOLEAN

\* Requests, events and turns name sessions the daemon has given out; only one session is
\* asked for.
Asked ==
  \A i \in 1 .. Len(toServer) :
    toServer[i].session <= created /\ (sessionID # 0 => toServer[i].type # "create")
Told ==
  /\ Len(toClient) <= MaxWire
  /\ \A i \in 1 .. Len(toClient) :
       toClient[i].session <= created /\ (toClient[i].type = "created" => toClient[i].session # 0)
Runs == \A i \in 1 .. Len(running) : running[i].session <= created

\* Until the session is there, nothing but its creation is under way.
StartInv ==
  sessionID = 0 =>
    /\ turns = 0 /\ reader = "none" /\ fetch = "none" /\ running = <<>>
    /\ toServer # <<>> => Len(toServer) = 1 /\ toServer[1].type = "create" /\ toClient = <<>>
    /\ Len(toClient) <= 1

\* The reader of a turn and the loading state go together, and a client that has gone
\* receives nothing.
ModeInv ==
  /\ quit => toClient = <<>>
  /\ ~quit => (loading <=> reader # "none")

\* The messages on their way to the daemon, and the ends of turns on their way back.
Sent == {i \in 1 .. Len(toServer) : toServer[i].type = "message"}
Ends == {i \in 1 .. Len(toClient) : toClient[i].type \in {"done", "error"}}

\* At most one message is on its way, running, or ended and not yet read, and only while its
\* reader waits.
FlightInv ==
  /\ ~quit /\ reader # "read" /\ sessionID # 0 => Sent = {} /\ running = <<>> /\ Ends = {}
  /\ Sent # {} => running = <<>> /\ Ends = {}
  /\ running # <<>> => Len(running) = 1 /\ Ends = {}
  /\ \A i, j \in Sent : i = j
  /\ \A i, j \in Ends : i = j

\* Everything asked for behind the message of a turn is asked for in that turn.
TagInv ==
  /\ running # <<>> => running[1].turn = turns /\ \A i \in 1 .. Len(toServer) : toServer[i].turn = turns
  /\ \A i \in Sent : \A j \in i .. Len(toServer) : toServer[j].turn = turns

\* The sessions of the daemon, of the screen and of the todo list beside it.
SessionInv == live \subseteq 1 .. created /\ sessionID <= created /\ todos \in 0 .. created

\* The lines of the turn.
DisplayInv ==
  /\ display \in Seq(Lines) /\ chunks \in Nat /\ calls \in Nat
  /\ slots \in Seq(Nat) /\ overflow \in 0 .. Len(display) /\ streamIdx \in Nat \ {0}
  /\ ~quit /\ turns > 0 => streamIdx <= Len(display)
  /\ reader # "none" => turns > 0
  /\ \A k \in 1 .. Len(slots) : slots[k] \in 1 .. Len(display)
  /\ calls <= MaxToolCalls => Len(slots) = calls /\ overflow = 0
  /\ calls > MaxToolCalls => Len(slots) = MaxToolCalls /\ overflow # 0

\* The message and the turn are of the session of the screen, and so are the todo lists on
\* their way, which do not come behind the end of their turn.
OfSession == \A i \in Sent : toServer[i].session = sessionID
Owner     == \A i \in 1 .. Len(running) : running[i].session = sessionID
Lists     == \A i \in 1 .. Len(toClient) : toClient[i].type = "todo_snapshot" =>
               toClient[i].session = sessionID /\ \A e \in Ends : i < e
TodoInv   == ~quit => todos \in {0, sessionID} /\ OfSession /\ Owner /\ Lists

\* No message has a number the turns have not reached.
Numbers == \A i \in 1 .. Len(display) : display[i].kind = "user" => display[i].n <= turns

\* The turn begins at line u, the only one of its message, above the line of the stream.
Begins(u) ==
  /\ display[u] = Line("user", turns) /\ u < streamIdx
  /\ \A i \in 1 .. Len(display) : display[i] = Line("user", turns) => i = u

\* The slots are lines of the turn above the stream, in their order, below the summary.
Slotted(u) ==
  /\ \A k \in 1 .. Len(slots) : u < slots[k] /\ slots[k] < streamIdx
  /\ \A j, k \in 1 .. Len(slots) : j < k => slots[j] < slots[k]
  /\ overflow # 0 =>
       u < overflow /\ overflow < streamIdx /\ \A k \in 1 .. Len(slots) : overflow < slots[k]

\* They hold the latest tool calls and the count of the others, and no other line is about one.
Filled(u) ==
  /\ \A k \in 1 .. Len(slots) : display[slots[k]] = Line("tool", seen[Len(seen) - Len(slots) + k])
  /\ overflow # 0 => display[overflow] = Line("more", calls - MaxToolCalls)
  /\ \A i \in 1 .. Len(display) :
       u <= i /\ display[i].kind \in {"tool", "more"} =>
         i = overflow \/ \E k \in 1 .. Len(slots) : slots[k] = i

\* The text of the turn has its line, and only errors come below it.
Streamed ==
  /\ display[streamIdx].kind \in {"stream", "answer"}
  /\ \A i \in streamIdx .. Len(display) : display[i].kind \in {"stream", "answer", "error"}
  /\ loading => display[streamIdx] = Line("stream", chunks)

ScreenInv ==
  /\ seen \in Seq(Nat) /\ Len(seen) = calls /\ Numbers
  /\ turns > 0 /\ ~quit => Streamed /\ \E u \in 1 .. Len(display) : Begins(u) /\ Slotted(u) /\ Filled(u)

\* The dropdown.
TypingInv ==
  /\ input \in Inputs /\ matches \in Nat /\ selected \in Nat /\ loaded \in BOOLEAN
  /\ IF matches > 0 THEN selected < matches ELSE selected = 0

LinkInv == /\ LinkTypes /\ Asked /\ Told /\ Runs /\ StartInv /\ ModeInv
           /\ FlightInv /\ TagInv /\ SessionInv

IndInv == LinkInv /\ EscHitsItsTurn /\ DisplayInv /\ TypingInv /\ TodoInv /\ ScreenInv

USE ChatClientAssumption

-----------------------------------------------------------------------------
(* The connection                                                          *)

\* The daemon takes the first request.
LEMMA TakeRequest ==
  ASSUME LinkTypes, toServer # <<>>, toServer' = Tail(toServer)
  PROVE  /\ toServer' \in Seq(Requests) /\ Len(toServer) \in Nat \ {0} /\ Len(toServer') = Len(toServer) - 1
         /\ \A i \in 1 .. Len(toServer') : i + 1 \in 1 .. Len(toServer) /\ toServer'[i] = toServer[i + 1]
         /\ Head(toServer) = toServer[1] /\ toServer[1] \in Requests /\ 1 \in 1 .. Len(toServer)
         /\ \A i \in Sent' : i + 1 \in Sent /\ i \in Nat \ {0}
  <1>1. toServer \in Seq(Requests)
    BY DEF LinkTypes
  <1>2. Len(toServer) \in Nat \ {0} /\ 1 \in 1 .. Len(toServer)
    BY <1>1, EmptySeq
  <1>3. /\ toServer' \in Seq(Requests) /\ Len(toServer') = Len(toServer) - 1
        /\ \A i \in 1 .. Len(toServer') : toServer'[i] = toServer[i + 1]
    BY <1>1, HeadTailProperties
  <1>4. \A i \in 1 .. Len(toServer') : i + 1 \in 1 .. Len(toServer)
    BY <1>2, <1>3
  <1>5. Head(toServer) = toServer[1] /\ toServer[1] \in Requests
    BY <1>1, <1>2
  <1>6. \A i \in Sent' : i + 1 \in Sent /\ i \in Nat \ {0}
    BY <1>2, <1>3, <1>4 DEF Sent
  <1> QED BY <1>2, <1>3, <1>4, <1>5, <1>6

\* The client asks.
LEMMA AddRequest ==
  ASSUME LinkTypes, NEW k \in {"create", "list", "message", "interrupt", "close"}, Ask(k)
  PROVE  /\ toServer' \in Seq(Requests) /\ Len(toServer) \in Nat /\ Len(toServer') = Len(toServer) + 1
         /\ \A i \in 1 .. Len(toServer) : i \in 1 .. Len(toServer') /\ toServer'[i] = toServer[i]
         /\ \A i \in 1 .. Len(toServer') : i \in 1 .. Len(toServer) \/ i = Len(toServer) + 1
         /\ LET r == toServer'[Len(toServer) + 1]
            IN  r.type = k /\ r.session = sessionID /\ r.turn = turns
         /\ \A i \in Sent' : i \in Sent \/ (k = "message" /\ i = Len(toServer) + 1)
  <1>1. toServer \in Seq(Requests) /\ toServer' = Append(toServer, Request(k))
    BY DEF LinkTypes, Ask
  <1>2. /\ Request(k) \in Requests
        /\ Request(k).type = k /\ Request(k).session = sessionID /\ Request(k).turn = turns
    BY DEF Request, Requests, LinkTypes
  <1> DEFINE l == Len(toServer)
  <1>3. /\ toServer' \in Seq(Requests) /\ l \in Nat /\ Len(toServer') = l + 1
        /\ toServer'[l + 1] = Request(k)
        /\ \A i \in 1 .. l : toServer'[i] = toServer[i]
    BY <1>1, <1>2
  <1> HIDE DEF l
  <1>4. \A i \in 1 .. l : i \in 1 .. Len(toServer')
    BY <1>3
  <1>5. \A i \in 1 .. Len(toServer') : i \in 1 .. l \/ i = l + 1
    BY <1>3
  <1>6. \A i \in Sent' : i \in Sent \/ (k = "message" /\ i = l + 1)
    <2>1. \A i \in Sent' : i \in 1 .. Len(toServer') /\ toServer'[i].type = "message"
      BY DEF Sent
    <2>2. \A i \in 1 .. l : toServer[i].type = "message" => i \in Sent
      BY DEF Sent, l
    <2> QED BY <1>2, <1>3, <1>5, <2>1, <2>2
  <1> QED BY <1>2, <1>3, <1>4, <1>5, <1>6 DEF l

\* One of the client's goroutines takes the first event.
LEMMA TakeEvent ==
  ASSUME LinkTypes, toClient # <<>>, toClient' = Tail(toClient)
  PROVE  /\ toClient' \in Seq(Events) /\ Len(toClient) \in Nat \ {0} /\ Len(toClient') = Len(toClient) - 1
         /\ \A i \in 1 .. Len(toClient') : i + 1 \in 1 .. Len(toClient) /\ toClient'[i] = toClient[i + 1]
         /\ Head(toClient) = toClient[1] /\ toClient[1] \in Events /\ 1 \in 1 .. Len(toClient)
         /\ \A i \in Ends' : i + 1 \in Ends /\ i \in Nat \ {0}
  <1>1. toClient \in Seq(Events)
    BY DEF LinkTypes
  <1>2. Len(toClient) \in Nat \ {0} /\ 1 \in 1 .. Len(toClient)
    BY <1>1, EmptySeq
  <1>3. /\ toClient' \in Seq(Events) /\ Len(toClient') = Len(toClient) - 1
        /\ \A i \in 1 .. Len(toClient') : toClient'[i] = toClient[i + 1]
    BY <1>1, HeadTailProperties
  <1>4. \A i \in 1 .. Len(toClient') : i + 1 \in 1 .. Len(toClient)
    BY <1>2, <1>3
  <1>5. Head(toClient) = toClient[1] /\ toClient[1] \in Events
    BY <1>1, <1>2
  <1>6. \A i \in Ends' : i + 1 \in Ends /\ i \in Nat \ {0}
    BY <1>2, <1>3, <1>4 DEF Ends
  <1> QED BY <1>2, <1>3, <1>4, <1>5, <1>6

\* The daemon sends an event, or drops it if the client has gone.
LEMMA AddEvent ==
  ASSUME LinkTypes, ModeInv, NEW ev \in Events, Send(ev), CanSend, Len(toClient) <= MaxWire
  PROVE  /\ toClient' \in Seq(Events) /\ Len(toClient) \in Nat /\ Len(toClient') <= MaxWire
         /\ quit => toClient' = <<>>
         /\ Len(toClient') <= Len(toClient) + 1
         /\ \A i \in 1 .. Len(toClient') :
              \/ i \in 1 .. Len(toClient) /\ toClient'[i] = toClient[i]
              \/ i = Len(toClient) + 1 /\ toClient'[i] = ev
         /\ \A i \in Ends' : i \in Ends \/ (i = Len(toClient) + 1 /\ ev.type \in {"done", "error"})
  <1>1. toClient \in Seq(Events) /\ Len(toClient) \in Nat
    BY DEF LinkTypes
  <1> DEFINE l == Len(toClient)
  <1>2. CASE quit
    <2>1. toClient' = toClient /\ toClient = <<>>
      BY <1>2 DEF Send, ModeInv
    <2>2. Ends' = {}
      BY <2>1 DEF Ends
    <2> QED BY <1>1, <2>1, <2>2
  <1>3. CASE ~ quit
    <2>1. toClient' = Append(toClient, ev) /\ l < MaxWire
      BY <1>3 DEF Send, CanSend
    <2>2. /\ toClient' \in Seq(Events) /\ Len(toClient') = l + 1 /\ toClient'[l + 1] = ev
          /\ \A i \in 1 .. l : toClient'[i] = toClient[i]
      BY <1>1, <2>1
    <2>3. l \in Nat /\ l < MaxWire
      BY <1>1, <2>1
    <2> HIDE DEF l
    <2>4. \A i \in 1 .. Len(toClient') : i \in 1 .. l \/ i = l + 1
      BY <2>2, <2>3
    <2>5. Len(toClient') <= MaxWire
      BY <2>2, <2>3
    <2>6. \A i \in Ends' : i \in Ends \/ (i = l + 1 /\ ev.type \in {"done", "error"})
      <3>1. \A i \in Ends' : i \in 1 .. Len(toClient') /\ toClient'[i].type \in {"done", "error"}
        BY DEF Ends
      <3>2. \A i \in 1 .. l : toClient[i].type \in {"done", "error"} => i \in Ends
        BY DEF Ends, l
      <3> QED BY <2>2, <2>4, <3>1, <3>2
    <2>7. Len(toClient') <= l + 1
      BY <2>2, <2>3
    <2> QED BY <1>3, <2>2, <2>3, <2>4, <2>5, <2>6, <2>7 DEF l
  <1> QED BY <1>2, <1>3

-----------------------------------------------------------------------------
(* What is in flight                                                       *)

\* What a step that starts and ends no turn does: the requests move up, or one of this turn
\* comes last; no message and no end of a turn is added; the turn that runs is the same.
Requesting(d) ==
  /\ \A j \in 1 .. Len(toServer') :
       \/ j + d \in 1 .. Len(toServer) /\ toServer'[j].turn = toServer[j + d].turn
       \/ toServer'[j].turn = turns
  /\ \A i \in Sent' : i + d \in Sent
Ending(e) == \A i \in Ends' : i + e \in Ends
SameTurn  == /\ Len(running') = Len(running)
             /\ running # <<>> => running' # <<>> /\ running'[1].turn = running[1].turn
             /\ running' # <<>> => running # <<>>
             /\ turns' = turns

\* Such a step keeps one message in flight, with only requests of its turn behind it.
LEMMA FlightKept ==
  ASSUME LinkTypes, FlightInv, TagInv, LinkTypes',
         NEW d \in {0, 1}, NEW e \in {0, 1}, Requesting(d), Ending(e), SameTurn,
         ~ quit' /\ reader' # "read" /\ sessionID' # 0 => ~ quit /\ reader # "read" /\ sessionID # 0
  PROVE  FlightInv' /\ TagInv'
  <1>1. Sent' # {} => Sent # {}
    BY DEF Requesting
  <1>2. Ends' # {} => Ends # {}
    BY DEF Ending
  <1>3. Sent' \subseteq Nat /\ Ends' \subseteq Nat /\ Sent \subseteq Nat /\ Ends \subseteq Nat
    BY DEF Sent, Ends, LinkTypes
  <1>4. \A i, j \in Sent' : i = j
    <2>1. ASSUME NEW i \in Sent', NEW j \in Sent' PROVE i = j
      <3>1. i + d \in Sent /\ j + d \in Sent
        BY DEF Requesting
      <3>2. i + d = j + d
        BY <3>1 DEF FlightInv
      <3> QED BY <1>3, <3>2
    <2> QED BY <2>1
  <1>5. \A i, j \in Ends' : i = j
    <2>1. ASSUME NEW i \in Ends', NEW j \in Ends' PROVE i = j
      <3>1. i + e \in Ends /\ j + e \in Ends
        BY DEF Ending
      <3>2. i + e = j + e
        BY <3>1 DEF FlightInv
      <3> QED BY <1>3, <3>2
    <2> QED BY <2>1
  <1>6. FlightInv'
    <2>1. (~ quit /\ reader # "read" /\ sessionID # 0 => Sent = {} /\ running = <<>> /\ Ends = {})'
      BY <1>1, <1>2 DEF FlightInv, SameTurn
    <2>2. (Sent # {} => running = <<>> /\ Ends = {})'
      BY <1>1, <1>2 DEF FlightInv, SameTurn
    <2>3. (running # <<>> => Len(running) = 1 /\ Ends = {})'
      BY <1>2 DEF FlightInv, SameTurn
    <2> QED BY <1>4, <1>5, <2>1, <2>2, <2>3 DEF FlightInv
  <1>7. running' # <<>> => running'[1].turn = turns' /\ \A i \in 1 .. Len(toServer') : toServer'[i].turn = turns'
    <2> SUFFICES ASSUME running' # <<>>
                 PROVE  running'[1].turn = turns' /\ \A i \in 1 .. Len(toServer') : toServer'[i].turn = turns'
      OBVIOUS
    <2>1. running[1].turn = turns /\ \A i \in 1 .. Len(toServer) : toServer[i].turn = turns
      BY DEF SameTurn, TagInv
    <2>2. running'[1].turn = turns'
      BY <2>1 DEF SameTurn
    <2> QED BY <2>1, <2>2 DEF SameTurn, Requesting
  <1>8. ASSUME NEW i \in Sent', NEW j \in i .. Len(toServer') PROVE toServer'[j].turn = turns'
    <2>1. i + d \in Sent /\ i \in 1 .. Len(toServer')
      BY DEF Requesting, Sent
    <2>2. \A k \in i + d .. Len(toServer) : toServer[k].turn = turns
      BY <2>1 DEF TagInv
    <2>3. i \in Nat /\ Len(toServer') \in Nat /\ Len(toServer) \in Nat
      BY <2>1 DEF LinkTypes
    <2>4. j \in 1 .. Len(toServer')
      BY <2>1, <2>3
    <2>5. CASE j + d \in 1 .. Len(toServer) /\ toServer'[j].turn = toServer[j + d].turn
      <3>1. j + d \in i + d .. Len(toServer)
        BY <2>3, <2>4, <2>5
      <3> QED BY <2>2, <2>5, <3>1 DEF SameTurn
    <2>6. CASE toServer'[j].turn = turns
      BY <2>6 DEF SameTurn
    <2> QED BY <2>4, <2>5, <2>6 DEF Requesting
  <1> QED BY <1>6, <1>7, <1>8 DEF TagInv

\* The requests are left alone.
LEMMA SameRequests ==
  ASSUME LinkTypes, toServer' = toServer
  PROVE  Requesting(0)
  <1>1. Sent' = Sent /\ \A i \in Sent : i \in Nat
    BY DEF Sent, LinkTypes
  <1>2. \A i \in Sent' : i + 0 \in Sent
    BY <1>1
  <1>3. Len(toServer) \in Nat
    BY DEF LinkTypes
  <1>4. \A j \in 1 .. Len(toServer') : j + 0 \in 1 .. Len(toServer) /\ toServer'[j].turn = toServer[j + 0].turn
    BY <1>3
  <1> QED BY <1>2, <1>4 DEF Requesting

\* The dispatcher takes a request: the others move up.
LEMMA FewerRequests ==
  ASSUME LinkTypes, toServer # <<>>, toServer' = Tail(toServer)
  PROVE  Requesting(1)
  BY TakeRequest DEF Requesting

\* A request that is no message is added, in the turn of the screen.
LEMMA OneMoreRequest ==
  ASSUME LinkTypes, NEW k \in {"create", "list", "interrupt", "close"}, Ask(k)
  PROVE  Requesting(0)
  <1>1. k # "message" /\ k \in {"create", "list", "message", "interrupt", "close"}
    OBVIOUS
  <1> DEFINE l == Len(toServer)
  <1>2. /\ l \in Nat
        /\ \A i \in 1 .. l : i \in 1 .. Len(toServer') /\ toServer'[i] = toServer[i]
        /\ \A i \in 1 .. Len(toServer') : i \in 1 .. l \/ i = l + 1
        /\ toServer'[l + 1].turn = turns
        /\ \A i \in Sent' : i \in Sent
    BY <1>1, AddRequest
  <1>3. \A i \in Sent' : i + 0 \in Sent
    BY <1>2 DEF Sent
  <1> HIDE DEF l
  <1>4. \A j \in 1 .. Len(toServer') :
          \/ j + 0 \in 1 .. l /\ toServer'[j].turn = toServer[j + 0].turn
          \/ toServer'[j].turn = turns
    BY <1>2
  <1> QED BY <1>3, <1>4 DEF Requesting, l

\* Nothing is sent to the client, or read by it: the ends of turns stay.
LEMMA SameEvents ==
  ASSUME LinkTypes, toClient' = toClient
  PROVE  Ending(0)
  BY DEF Ending, Ends, LinkTypes

\* A reader takes an event: the others move up.
LEMMA FewerEvents ==
  ASSUME LinkTypes, toClient # <<>>, toClient' = Tail(toClient)
  PROVE  Ending(1)
  BY TakeEvent DEF Ending

\* An event that ends no turn is added.
LEMMA OneMoreEvent ==
  ASSUME LinkTypes, ModeInv, NEW ev \in Events, ev.type \notin {"done", "error"}, Send(ev), CanSend,
         Len(toClient) <= MaxWire
  PROVE  Ending(0)
  <1>1. \A i \in Ends' : i \in Ends
    BY AddEvent
  <1>2. \A i \in Ends : i \in Nat
    BY DEF Ends, LinkTypes
  <1> QED BY <1>1, <1>2 DEF Ending

\* The client has gone with everything that was on its way to it.
LEMMA NoEvents ==
  ASSUME toClient' = <<>>
  PROVE  Ends' = {} /\ Ending(0)
  BY DEF Ends, Ending

\* The goroutines of messages are left alone.
LEMMA SameRunning ==
  ASSUME running' = running, turns' = turns
  PROVE  SameTurn
  BY DEF SameTurn


-----------------------------------------------------------------------------
(* What the requests, the events and the turns name                        *)

\* Sessions are only added.
Grows == created' \in Nat /\ created <= created'

\* Session ids are numbers.
LEMMA SessionsOnTheWay ==
  ASSUME LinkTypes
  PROVE  /\ \A i \in 1 .. Len(toServer) : toServer[i].session \in Nat
         /\ \A i \in 1 .. Len(toClient) : toClient[i].session \in Nat
         /\ \A i \in 1 .. Len(running) : running[i].session \in Nat
  <1>1. /\ \A i \in 1 .. Len(toServer) : toServer[i] \in Requests
        /\ \A i \in 1 .. Len(toClient) : toClient[i] \in Events
        /\ \A i \in 1 .. Len(running) : running[i] \in Messages
    BY DEF LinkTypes
  <1>2. /\ \A r \in Requests : r.session \in Nat
        /\ \A r \in Events : r.session \in Nat
        /\ \A r \in Messages : r.session \in Nat
    BY DEF Requests, Events, Messages
  <1> QED BY <1>1, <1>2

\* The requests stay, and name sessions that were given out before.
LEMMA AskedSame ==
  ASSUME LinkTypes, Asked, Grows, toServer' = toServer, sessionID' # 0 => sessionID # 0
  PROVE  Asked'
  <1>1. \A i \in 1 .. Len(toServer) : toServer[i].session \in Nat
    BY SessionsOnTheWay
  <1> QED BY <1>1 DEF Asked, LinkTypes, Grows

\* The requests that remain name such sessions too.
LEMMA AskedFewer ==
  ASSUME LinkTypes, Asked, Grows, toServer # <<>>, toServer' = Tail(toServer), sessionID' = sessionID
  PROVE  Asked' /\ toServer' \in Seq(Requests)
  <1>1. \A i \in 1 .. Len(toServer) : toServer[i].session \in Nat
    BY SessionsOnTheWay
  <1> QED BY <1>1, TakeRequest DEF Asked, LinkTypes, Grows

\* A new request names the session of the screen.
LEMMA AskedMore ==
  ASSUME LinkTypes, Asked, SessionInv, UNCHANGED <<created, sessionID>>,
         NEW k \in {"list", "message", "interrupt", "close"}, Ask(k)
  PROVE  Asked' /\ toServer' \in Seq(Requests) /\ toServer' # <<>>
  <1>1. k # "create" /\ k \in {"create", "list", "message", "interrupt", "close"}
    OBVIOUS
  <1> DEFINE l == Len(toServer)
  <1>2. /\ toServer' \in Seq(Requests) /\ l \in Nat /\ Len(toServer') = l + 1
        /\ \A i \in 1 .. l : i \in 1 .. Len(toServer') /\ toServer'[i] = toServer[i]
        /\ \A i \in 1 .. Len(toServer') : i \in 1 .. l \/ i = l + 1
        /\ toServer'[l + 1].type = k /\ toServer'[l + 1].session = sessionID
    BY <1>1, AddRequest
  <1>3. toServer' # <<>>
    BY <1>2
  <1>4. \A i \in 1 .. l : toServer[i].session <= created /\ (sessionID # 0 => toServer[i].type # "create")
    BY DEF Asked
  <1> HIDE DEF l
  <1>5. Asked'
    BY <1>1, <1>2, <1>4 DEF Asked, SessionInv
  <1> QED BY <1>2, <1>3, <1>5

\* The events stay.
LEMMA ToldSame ==
  ASSUME LinkTypes, Told, Grows, toClient' = toClient
  PROVE  Told'
  <1>1. \A i \in 1 .. Len(toClient) : toClient[i].session \in Nat
    BY SessionsOnTheWay
  <1> QED BY <1>1 DEF Told, LinkTypes, Grows

\* The events that remain name sessions that were given out.
LEMMA ToldFewer ==
  ASSUME LinkTypes, Told, created' = created, toClient # <<>>, toClient' = Tail(toClient)
  PROVE  Told' /\ toClient' \in Seq(Events)
  BY TakeEvent DEF Told

\* A new event that names such a session fits into the connection's buffer.
LEMMA ToldMore ==
  ASSUME LinkTypes, ModeInv, Told, Grows, NEW ev \in Events, Send(ev), CanSend,
         ev.session <= created', ev.type = "created" => ev.session # 0
  PROVE  Told' /\ toClient' \in Seq(Events) /\ (quit => toClient' = <<>>)
  <1>1. \A i \in 1 .. Len(toClient) : toClient[i].session \in Nat
    BY SessionsOnTheWay
  <1>2. /\ toClient' \in Seq(Events) /\ Len(toClient') <= MaxWire
        /\ quit => toClient' = <<>>
        /\ \A i \in 1 .. Len(toClient') :
              \/ i \in 1 .. Len(toClient) /\ toClient'[i] = toClient[i]
              \/ i = Len(toClient) + 1 /\ toClient'[i] = ev
    BY AddEvent DEF Told
  <1>3. \A i \in 1 .. Len(toClient) :
          toClient[i].session <= created' /\ (toClient[i].type = "created" => toClient[i].session # 0)
    BY <1>1 DEF Told, LinkTypes, Grows
  <1> QED BY <1>2, <1>3 DEF Told

\* The turns stay.
LEMMA RunsSame ==
  ASSUME LinkTypes, Runs, Grows, running' = running
  PROVE  Runs'
  <1>1. \A i \in 1 .. Len(running) : running[i].session \in Nat
    BY SessionsOnTheWay
  <1> QED BY <1>1 DEF Runs, LinkTypes, Grows

\* No event is on its way.
LEMMA NoTold ==
  ASSUME toClient' = <<>>
  PROVE  Told' /\ toClient' \in Seq(Events) /\ Len(toClient') = 0
  BY DEF Told

-----------------------------------------------------------------------------
(* The daemon's steps                                                      *)

client == <<quit, reader, fetch, turns, sessionID, loading, todos>>

\* Nothing of the connection changes: typing, and the end of Close.
LEMMA QuietStep ==
  ASSUME LinkInv, UNCHANGED <<toServer, toClient, running, created, client>>, live' \subseteq live
  PROVE  LinkInv'
  <1>1. LinkTypes' /\ Grows
    BY DEF LinkInv, LinkTypes, Grows, client
  <1>2. Asked' /\ Told' /\ Runs' /\ StartInv' /\ ModeInv' /\ SessionInv'
    BY DEF LinkInv, Asked, Told, Runs, StartInv, ModeInv, SessionInv, client
  <1>3. FlightInv' /\ TagInv'
    BY DEF LinkInv, FlightInv, TagInv, Sent, Ends, client
  <1> QED BY <1>1, <1>2, <1>3 DEF LinkInv

\* fetchCommands ends with an event that stays in the decoder's buffer.
LEMMA SharedStep ==
  ASSUME LinkInv, EventShared
  PROVE  LinkInv'
  <1>1. /\ UNCHANGED <<toServer, toClient, running, created, live, quit, reader, turns, sessionID, loading, todos>>
        /\ fetch = "read" /\ fetch' = "done"
    BY DEF EventShared, wire, server, session
  <1>2. LinkTypes' /\ Grows
    BY <1>1 DEF LinkInv, LinkTypes, Grows
  <1>3. Asked' /\ Told' /\ Runs' /\ StartInv' /\ ModeInv' /\ SessionInv'
    BY <1>1 DEF LinkInv, Asked, Told, Runs, StartInv, ModeInv, SessionInv
  <1>4. FlightInv' /\ TagInv'
    BY <1>1 DEF LinkInv, FlightInv, TagInv, Sent, Ends
  <1> QED BY <1>2, <1>3, <1>4 DEF LinkInv

\* A request other than session.create is there only after the session is.
LEMMA Dispatched ==
  ASSUME LinkInv, NEW k \in {"list", "message", "interrupt", "close"}, Dispatch(k)
  PROVE  /\ sessionID # 0 /\ toServer # <<>> /\ toServer' = Tail(toServer)
         /\ Head(toServer) = toServer[1] /\ toServer[1] \in Requests /\ toServer[1].type = k
         /\ Len(toServer) \in Nat \ {0} /\ 1 \in 1 .. Len(toServer)
  <1>1. toServer # <<>> /\ toServer' = Tail(toServer) /\ Head(toServer).type = k
    BY DEF Dispatch
  <1>2. /\ Head(toServer) = toServer[1] /\ toServer[1] \in Requests /\ Len(toServer) \in Nat \ {0}
        /\ 1 \in 1 .. Len(toServer)
    BY <1>1, TakeRequest DEF LinkInv
  <1>3. toServer[1].type = k /\ k # "create"
    BY <1>1, <1>2
  <1>4. sessionID # 0
    BY <1>1, <1>3 DEF LinkInv, StartInv
  <1> QED BY <1>1, <1>2, <1>3, <1>4

\* interrupt and close
LEMMA TakeStep ==
  ASSUME LinkInv, NEW k \in {"interrupt", "close"}, Dispatch(k),
         UNCHANGED <<toClient, running, created, live, client>>
  PROVE  LinkInv'
  <1>0. LinkTypes /\ Asked /\ Told /\ Runs /\ ModeInv /\ FlightInv /\ TagInv /\ SessionInv
    BY DEF LinkInv
  <1>1. sessionID # 0 /\ toServer # <<>> /\ toServer' = Tail(toServer)
    BY Dispatched
  <1>2. Grows /\ sessionID' = sessionID /\ created' = created
    BY <1>0 DEF Grows, LinkTypes, client
  <1>3. Asked' /\ toServer' \in Seq(Requests)
    BY <1>0, <1>1, <1>2, AskedFewer
  <1>4. LinkTypes'
    BY <1>0, <1>3 DEF LinkTypes, client
  <1>5. Told' /\ Runs'
    BY <1>0, <1>2, ToldSame, RunsSame
  <1>6. StartInv' /\ ModeInv' /\ SessionInv'
    BY <1>0, <1>1 DEF StartInv, ModeInv, SessionInv, client
  <1>7. Requesting(1) /\ Ending(0) /\ SameTurn
    BY <1>0, <1>1, FewerRequests, SameEvents, SameRunning DEF client
  <1>8. FlightInv' /\ TagInv'
    BY <1>0, <1>4, <1>7, FlightKept DEF client
  <1> QED BY <1>3, <1>4, <1>5, <1>6, <1>8 DEF LinkInv

\* commands.list is answered at once.
LEMMA ListStep ==
  ASSUME LinkInv, DispatchList
  PROVE  LinkInv'
  <1>0. LinkTypes /\ Asked /\ Told /\ Runs /\ ModeInv /\ FlightInv /\ TagInv /\ SessionInv
    BY DEF LinkInv
  <1>a. UNCHANGED <<running, created, live, client>> /\ CanSend /\ Dispatch("list")
    BY DEF DispatchList, server, session, procs, client
  <1> DEFINE ev == Event("commands", 0, 0)
  <1>b. Send(ev)
    BY DEF DispatchList
  <1>c. ev \in Events /\ ev.type = "commands" /\ ev.session = 0
    BY DEF Event, Events
  <1> HIDE DEF ev
  <1>1. sessionID # 0 /\ toServer # <<>> /\ toServer' = Tail(toServer)
    BY <1>a, Dispatched
  <1>2. Grows /\ sessionID' = sessionID /\ created' = created
    BY <1>0, <1>a DEF Grows, LinkTypes, client
  <1>3. Asked' /\ toServer' \in Seq(Requests)
    BY <1>0, <1>1, <1>2, AskedFewer
  <1>d. ev.session <= created' /\ ev.type # "created" /\ ev.type \notin {"done", "error"}
    BY <1>c, <1>2 DEF Grows
  <1>5. Told' /\ toClient' \in Seq(Events) /\ (quit => toClient' = <<>>)
    BY <1>0, <1>2, <1>a, <1>b, <1>c, <1>d, ToldMore
  <1>4. LinkTypes'
    BY <1>0, <1>3, <1>5, <1>a DEF LinkTypes, client
  <1>e. Runs'
    BY <1>0, <1>2, <1>a, RunsSame
  <1>6. StartInv' /\ ModeInv' /\ SessionInv'
    BY <1>0, <1>1, <1>5, <1>a DEF StartInv, ModeInv, SessionInv, client
  <1>f. Ending(0)
    BY <1>0, <1>a, <1>b, <1>c, <1>d, OneMoreEvent DEF Told
  <1>7. Requesting(1) /\ SameTurn
    BY <1>0, <1>1, <1>a, FewerRequests, SameRunning DEF client
  <1>8. FlightInv' /\ TagInv'
    BY <1>0, <1>4, <1>7, <1>f, <1>a, FlightKept DEF client
  <1> QED BY <1>3, <1>4, <1>5, <1>6, <1>8, <1>e DEF LinkInv

\* A message becomes the only turn, and what is behind it was asked for in that turn.
LEMMA MessageStep ==
  ASSUME LinkInv, DispatchMessage
  PROVE  LinkInv'
  <1>0. LinkTypes /\ Asked /\ Told /\ Runs /\ ModeInv /\ FlightInv /\ TagInv /\ SessionInv
    BY DEF LinkInv
  <1>a. UNCHANGED <<toClient, created, live, client>> /\ Dispatch("message")
    BY DEF DispatchMessage, session, procs, client
  <1>1. /\ sessionID # 0 /\ toServer # <<>> /\ toServer' = Tail(toServer)
        /\ Head(toServer) = toServer[1] /\ toServer[1] \in Requests /\ toServer[1].type = "message"
        /\ Len(toServer) \in Nat \ {0} /\ 1 \in 1 .. Len(toServer)
    BY <1>a, Dispatched
  <1>2. Grows /\ sessionID' = sessionID /\ created' = created
    BY <1>0, <1>a DEF Grows, LinkTypes, client
  <1>3. Asked' /\ toServer' \in Seq(Requests)
    BY <1>0, <1>1, <1>2, AskedFewer
  <1>5. 1 \in Sent
    BY <1>1 DEF Sent
  <1>6. running = <<>> /\ Ends = {} /\ (quit \/ reader = "read")
    BY <1>0, <1>1, <1>5 DEF FlightInv
  <1> DEFINE m == [turn |-> toServer[1].turn, session |-> toServer[1].session,
                   registered |-> FALSE, calls |-> 0]
  <1>7. running' = Append(running, m)
    BY <1>1 DEF DispatchMessage
  <1>8. m \in Messages /\ m.turn = toServer[1].turn /\ m.session = toServer[1].session
    BY <1>1 DEF Messages, Requests
  <1> HIDE DEF m
  <1>9. running' \in Seq(Messages) /\ Len(running') = 1 /\ running'[1] = m
    BY <1>0, <1>6, <1>7, <1>8 DEF LinkTypes
  <1>4. LinkTypes'
    BY <1>0, <1>3, <1>9, <1>a DEF LinkTypes, client
  <1>10. Told'
    BY <1>0, <1>2, <1>a, ToldSame
  <1>11. Runs'
    <2>1. m.session <= created'
      BY <1>0, <1>1, <1>2, <1>8 DEF Asked
    <2> QED BY <1>9, <2>1 DEF Runs
  <1>12. StartInv' /\ ModeInv' /\ SessionInv'
    BY <1>0, <1>1, <1>a DEF StartInv, ModeInv, SessionInv, client
  <1>13. Sent' = {}
    <2>1. \A i \in Sent' : i + 1 \in Sent /\ i \in Nat \ {0}
      BY <1>0, <1>1, TakeRequest
    <2>2. \A i \in Sent' : i + 1 = 1
      BY <1>0, <1>5, <2>1 DEF FlightInv
    <2> QED BY <2>1, <2>2
  <1>14. Ends' = {}
    BY <1>6, <1>a DEF Ends
  <1>15. FlightInv'
    BY <1>6, <1>9, <1>13, <1>14, <1>a DEF FlightInv, client
  <1>16. TagInv'
    <2>1. \A j \in 1 .. Len(toServer) : toServer[j].turn = turns
      BY <1>0, <1>5 DEF TagInv
    <2>2. \A j \in 1 .. Len(toServer') : toServer'[j].turn = turns
      BY <1>0, <1>1, <2>1, TakeRequest
    <2>3. m.turn = turns
      BY <1>1, <1>8, <2>1
    <2> QED BY <1>9, <1>13, <1>a, <2>2, <2>3 DEF TagInv, client
  <1> QED BY <1>3, <1>4, <1>10, <1>11, <1>12, <1>15, <1>16 DEF LinkInv

\* The one session.create of the connection.
LEMMA CreateStep ==
  ASSUME LinkInv, DispatchCreate
  PROVE  LinkInv'
  <1>0. LinkTypes /\ Asked /\ Told /\ Runs /\ StartInv /\ ModeInv /\ FlightInv /\ TagInv /\ SessionInv
    BY DEF LinkInv
  <1>a. /\ UNCHANGED <<running, client>> /\ CanSend
        /\ toServer # <<>> /\ Head(toServer).type = "create" /\ toServer' = Tail(toServer)
    BY DEF DispatchCreate, Dispatch, session, procs, client
  <1>1. /\ Head(toServer) = toServer[1] /\ 1 \in 1 .. Len(toServer) /\ Len(toServer) \in Nat
        /\ Len(toServer') = Len(toServer) - 1
    BY <1>0, <1>a, TakeRequest
  <1>2. sessionID = 0
    BY <1>0, <1>a, <1>1 DEF Asked
  <1>3. /\ turns = 0 /\ reader = "none" /\ fetch = "none" /\ running = <<>>
        /\ Len(toServer) = 1 /\ toClient = <<>>
    BY <1>0, <1>2, <1>a DEF StartInv
  <1>4. \E ev \in Events : /\ Send(ev) /\ ev.session <= created' /\ (ev.type = "created" => ev.session # 0)
                           /\ created' \in {created, created + 1} /\ live' \subseteq live \cup {created'}
                           /\ created' = created => live' = live
    <2>1. CASE /\ created' = created + 1 /\ live' = live \cup {created + 1}
               /\ Send(Event("created", created + 1, 0))
      <3>1. /\ Event("created", created + 1, 0) \in Events
            /\ Event("created", created + 1, 0).session = created + 1
        BY <1>0 DEF Event, Events, LinkTypes
      <3>2. created + 1 # 0 /\ created + 1 <= created' /\ created' # created
        BY <1>0, <2>1 DEF LinkTypes
      <3> QED BY <2>1, <3>1, <3>2
    <2>2. CASE Send(Event("error", 0, 0)) /\ UNCHANGED <<live, created>>
      <3>1. /\ Event("error", 0, 0) \in Events /\ Event("error", 0, 0).session = 0
            /\ Event("error", 0, 0).type # "created"
        BY DEF Event, Events
      <3>2. 0 <= created'
        BY <1>0, <2>2 DEF LinkTypes
      <3> QED BY <2>2, <3>1, <3>2
    <2> QED BY <2>1, <2>2 DEF DispatchCreate
  <1>5. PICK ev \in Events : /\ Send(ev) /\ ev.session <= created' /\ (ev.type = "created" => ev.session # 0)
                             /\ created' \in {created, created + 1} /\ live' \subseteq live \cup {created'}
                             /\ created' = created => live' = live
    BY <1>4
  <1>6. Grows
    BY <1>0, <1>5 DEF Grows, LinkTypes
  <1>7. Asked' /\ toServer' \in Seq(Requests)
    BY <1>0, <1>a, <1>6, AskedFewer DEF client
  <1>8. Told' /\ toClient' \in Seq(Events) /\ (quit => toClient' = <<>>)
    BY <1>0, <1>a, <1>5, <1>6, ToldMore
  <1>9. LinkTypes'
    BY <1>0, <1>a, <1>6, <1>7, <1>8 DEF LinkTypes, client, Grows
  <1>10. Runs'
    BY <1>0, <1>a, <1>6, RunsSame
  <1>11. Len(toServer') = 0 /\ Len(toClient') <= 1
    <2>1. Len(toClient') <= Len(toClient) + 1
      BY <1>0, <1>a, <1>5, AddEvent DEF Told
    <2>2. Len(toClient) = 0
      BY <1>3
    <2>3. Len(toClient') \in Nat
      BY <1>8
    <2> QED BY <1>1, <1>3, <2>1, <2>2, <2>3
  <1>12. toServer' = <<>>
    BY <1>7, <1>11, EmptySeq
  <1>13. StartInv'
    BY <1>3, <1>11, <1>12, <1>a DEF StartInv, client
  <1>14. ModeInv'
    BY <1>0, <1>8, <1>a DEF ModeInv, client
  <1>15. SessionInv'
    <2>1. live \subseteq 1 .. created /\ todos \in 0 .. created /\ created \in Nat
      BY <1>0 DEF SessionInv, LinkTypes
    <2>2. live' \subseteq 1 .. created'
      <3>1. CASE created' = created
        BY <2>1, <3>1, <1>5
      <3>2. CASE created' = created + 1
        <4>1. live \subseteq 1 .. created' /\ created' \in 1 .. created'
          BY <2>1, <3>2
        <4> QED BY <4>1, <1>5
      <3> QED BY <1>5, <3>1, <3>2
    <2>3. sessionID' <= created' /\ todos' \in 0 .. created'
      BY <1>2, <1>5, <1>a, <2>1 DEF client
    <2> QED BY <2>2, <2>3 DEF SessionInv
  <1>16. Sent' = {} /\ running' = <<>>
    BY <1>3, <1>11, <1>a DEF Sent
  <1>17. \A i, j \in Ends' : i = j
    <2>1. Len(toClient') \in Nat
      BY <1>8
    <2> QED BY <1>11, <2>1 DEF Ends
  <1>18. FlightInv' /\ TagInv'
    BY <1>2, <1>16, <1>17, <1>a DEF FlightInv, TagInv, client
  <1> QED BY <1>7, <1>8, <1>9, <1>10, <1>13, <1>14, <1>15, <1>18 DEF LinkInv

-----------------------------------------------------------------------------
(* The steps of a turn                                                     *)

\* There is one turn, of a session the daemon has given out, and the session is there.
LEMMA OneTurn ==
  ASSUME LinkInv, running # <<>>
  PROVE  /\ Len(running) = 1 /\ Head(running) = running[1] /\ running[1] \in Messages
         /\ running[1].session \in Nat /\ running[1].session <= created
         /\ sessionID # 0 /\ (quit \/ reader = "read")
         /\ Sent = {} /\ Ends = {}
         /\ running[1].turn = turns /\ \A i \in 1 .. Len(toServer) : toServer[i].turn = turns
  <1>0. LinkTypes /\ Runs /\ StartInv /\ FlightInv /\ TagInv
    BY DEF LinkInv
  <1>1. Len(running) = 1 /\ Sent = {} /\ Ends = {} /\ sessionID # 0 /\ (quit \/ reader = "read")
    BY <1>0 DEF FlightInv, StartInv
  <1>2. Head(running) = running[1] /\ running[1] \in Messages
    BY <1>0, <1>1 DEF LinkTypes
  <1>3. running[1].session \in Nat /\ running[1].session <= created
    BY <1>0, <1>1, <1>2 DEF Messages, Runs
  <1> QED BY <1>0, <1>1, <1>2, <1>3 DEF TagInv

\* The turn is registered, or counts its tool calls.
LEMMA TurnChanges ==
  ASSUME LinkInv, running # <<>>, NEW m \in Messages, running' = [running EXCEPT ![1] = m],
         m.turn = running[1].turn, m.session = running[1].session, turns' = turns, created' = created
  PROVE  running' \in Seq(Messages) /\ Runs' /\ SameTurn
  <1>1. Len(running) = 1 /\ running \in Seq(Messages) /\ m.session <= created
    BY OneTurn DEF LinkInv, LinkTypes
  <1>2. running' \in Seq(Messages) /\ Len(running') = 1 /\ running'[1] = m
    BY <1>1
  <1>3. running' # <<>>
    BY <1>2
  <1>4. Runs'
    <2>a. \A i \in 1 .. 1 : i = 1
      OBVIOUS
    <2>1. \A i \in 1 .. Len(running') : running'[i] = m
      BY <1>2, <2>a, Zenon
    <2>2. m.session <= created'
      BY <1>1
    <2> QED BY <2>1, <2>2 DEF Runs
  <1>5. SameTurn
    BY <1>1, <1>2, <1>3 DEF SameTurn
  <1> QED BY <1>2, <1>4, <1>5

\* The turn has the session's mutex and registers its cancel function.
LEMMA RegisterStep ==
  ASSUME LinkInv, TurnStart
  PROVE  LinkInv'
  <1>0. LinkTypes /\ Asked /\ Told /\ StartInv /\ ModeInv /\ FlightInv /\ TagInv /\ SessionInv
    BY DEF LinkInv
  <1>a. UNCHANGED <<toServer, toClient, created, live, client>> /\ running # <<>>
    BY DEF TurnStart, wire, session, procs, client
  <1> DEFINE m == [running[1] EXCEPT !.registered = TRUE]
  <1>1. running' = [running EXCEPT ![1] = m]
    BY DEF TurnStart
  <1>2. m \in Messages /\ m.turn = running[1].turn /\ m.session = running[1].session
    BY <1>a, OneTurn DEF Messages
  <1> HIDE DEF m
  <1>3. running' \in Seq(Messages) /\ Runs' /\ SameTurn
    BY <1>1, <1>2, <1>a, TurnChanges DEF client
  <1>4. LinkTypes' /\ Grows
    BY <1>0, <1>3, <1>a DEF LinkTypes, client, Grows
  <1>5. Asked' /\ Told'
    BY <1>0, <1>4, <1>a, AskedSame, ToldSame DEF client
  <1>6. sessionID # 0
    BY <1>a, OneTurn
  <1>7. StartInv' /\ ModeInv' /\ SessionInv'
    BY <1>0, <1>6, <1>a DEF StartInv, ModeInv, SessionInv, client
  <1>8. Requesting(0) /\ Ending(0)
    BY <1>0, <1>a, SameRequests, SameEvents
  <1>9. FlightInv' /\ TagInv'
    BY <1>0, <1>3, <1>4, <1>8, <1>a, FlightKept DEF client
  <1> QED BY <1>3, <1>4, <1>5, <1>7, <1>9 DEF LinkInv

\* The turn sends an event.
LEMMA EventStep ==
  ASSUME LinkInv, NEW k \in {"chunk", "tool_call", "inform", "todo_snapshot"}, TurnEvent(k)
  PROVE  LinkInv'
  <1>0. LinkTypes /\ Asked /\ Told /\ StartInv /\ ModeInv /\ FlightInv /\ TagInv /\ SessionInv
    BY DEF LinkInv
  <1>a. UNCHANGED <<toServer, created, live, client>> /\ running # <<>> /\ CanSend
    BY DEF TurnEvent, session, procs, client
  <1> DEFINE n == running[1].calls + (IF k = "tool_call" THEN 1 ELSE 0)
             m == [running[1] EXCEPT !.calls = n]
             ev == Event(k, running[1].session, n)
  <1>b. Head(running) = running[1] /\ running[1] \in Messages /\ running[1].session <= created
    BY <1>a, OneTurn
  <1>1. running' = [running EXCEPT ![1] = m] /\ Send(ev)
    BY <1>b DEF TurnEvent
  <1>c. n \in Nat
    BY <1>b DEF Messages
  <1>2. m \in Messages /\ m.turn = running[1].turn /\ m.session = running[1].session
    BY <1>b, <1>c DEF Messages
  <1>d. ev \in Events /\ ev.type = k /\ ev.session = running[1].session
    BY <1>b, <1>c DEF Messages, Event, Events
  <1> HIDE DEF m, ev
  <1>3. running' \in Seq(Messages) /\ Runs' /\ SameTurn
    BY <1>1, <1>2, <1>a, TurnChanges DEF client
  <1>4. Grows
    BY <1>0, <1>a DEF LinkTypes, Grows
  <1>e. ev.session <= created' /\ ev.type # "created" /\ ev.type \notin {"done", "error"}
    BY <1>a, <1>b, <1>d
  <1>5. Told' /\ toClient' \in Seq(Events) /\ (quit => toClient' = <<>>)
    BY <1>0, <1>1, <1>4, <1>a, <1>d, <1>e, ToldMore
  <1>6. LinkTypes'
    BY <1>0, <1>3, <1>5, <1>a DEF LinkTypes, client
  <1>7. Asked'
    BY <1>0, <1>4, <1>a, AskedSame DEF client
  <1>8. StartInv' /\ ModeInv' /\ SessionInv'
    BY <1>0, <1>5, <1>a, OneTurn DEF StartInv, ModeInv, SessionInv, client
  <1>9. Requesting(0)
    BY <1>0, <1>a, SameRequests
  <1>10. Ending(0)
    BY <1>0, <1>1, <1>a, <1>d, <1>e, OneMoreEvent DEF Told
  <1>11. FlightInv' /\ TagInv'
    BY <1>0, <1>3, <1>6, <1>9, <1>10, <1>a, FlightKept DEF client
  <1> QED BY <1>3, <1>5, <1>6, <1>7, <1>8, <1>11 DEF LinkInv

\* The turn ends: its answer is the only one on its way.
LEMMA EndStep ==
  ASSUME LinkInv, running # <<>>, running' = Tail(running), CanSend, NEW ev \in Events, Send(ev),
         ev.type # "created", ev.session <= created', Grows, live' \subseteq 1 .. created',
         UNCHANGED <<toServer, client>>
  PROVE  LinkInv'
  <1>0. LinkTypes /\ Asked /\ Told /\ StartInv /\ ModeInv /\ FlightInv /\ TagInv /\ SessionInv
    BY DEF LinkInv
  <1>1. Len(running) = 1 /\ sessionID # 0 /\ (quit \/ reader = "read") /\ Sent = {} /\ Ends = {}
    BY OneTurn
  <1>2. running' \in Seq(Messages) /\ Len(running') = 0
    BY <1>0, <1>1 DEF LinkTypes
  <1>3. running' = <<>> /\ Runs'
    BY <1>2, EmptySeq DEF Runs
  <1>4. Told' /\ toClient' \in Seq(Events) /\ (quit => toClient' = <<>>)
    BY <1>0, ToldMore
  <1>5. LinkTypes'
    BY <1>0, <1>2, <1>4 DEF LinkTypes, client, Grows
  <1>6. Asked'
    BY <1>0, AskedSame DEF client
  <1>7. StartInv' /\ ModeInv'
    BY <1>0, <1>1, <1>4 DEF StartInv, ModeInv, client
  <1>8. SessionInv'
    <2>1. created \in Nat /\ created' \in Nat /\ created <= created' /\ sessionID \in Nat
      BY <1>0 DEF LinkTypes, Grows
    <2>2. todos' \in 0 .. created' /\ sessionID' <= created'
      BY <1>0, <2>1 DEF SessionInv, client
    <2> QED BY <2>2 DEF SessionInv
  <1>9. Sent' = {}
    BY <1>1 DEF Sent
  <1>10. \A i \in Ends' : i = Len(toClient) + 1
    BY <1>0, <1>1, AddEvent DEF Told
  <1>11. FlightInv' /\ TagInv'
    BY <1>1, <1>3, <1>9, <1>10 DEF FlightInv, TagInv, client
  <1> QED BY <1>3, <1>4, <1>5, <1>6, <1>7, <1>8, <1>11 DEF LinkInv

\* The turn ends with its content or an error.
LEMMA AnswerStep ==
  ASSUME LinkInv, NEW k \in {"done", "error"}, TurnEnd(k)
  PROVE  LinkInv'
  <1>1. /\ running # <<>> /\ running' = Tail(running) /\ CanSend /\ Send(Event(k, 0, 0))
        /\ UNCHANGED <<toServer, client>> /\ live' = live /\ created' = created
    BY DEF TurnEnd, session, procs, client
  <1>2. /\ Event(k, 0, 0) \in Events /\ Event(k, 0, 0).type # "created"
        /\ Event(k, 0, 0).session = 0
    BY DEF Event, Events
  <1>3. Grows /\ 0 <= created' /\ live' \subseteq 1 .. created'
    BY <1>1 DEF LinkInv, LinkTypes, Grows, SessionInv
  <1> QED BY <1>1, <1>2, <1>3, EndStep

\* /clean ends with the id of a session that is new.
LEMMA CleanStep ==
  ASSUME LinkInv, Clean
  PROVE  LinkInv'
  <1>1. /\ running # <<>> /\ running' = Tail(running) /\ CanSend /\ Send(Event("done", created + 1, 0))
        /\ UNCHANGED <<toServer, client>> /\ live' \subseteq live \cup {created + 1}
        /\ created' = created + 1
    BY DEF Clean, session, procs, client
  <1>2. /\ Event("done", created + 1, 0) \in Events /\ Event("done", created + 1, 0).type # "created"
        /\ Event("done", created + 1, 0).session = created + 1
    BY DEF Event, Events, LinkInv, LinkTypes
  <1>3. created \in Nat /\ live \subseteq 1 .. created
    BY DEF LinkInv, LinkTypes, SessionInv
  <1>4. Grows /\ created + 1 <= created'
    BY <1>1, <1>3 DEF Grows
  <1>5. live' \subseteq 1 .. created'
    <2>1. live \subseteq 1 .. created' /\ created + 1 \in 1 .. created'
      BY <1>1, <1>3
    <2> QED BY <1>1, <2>1
  <1> QED BY <1>1, <1>2, <1>4, <1>5, EndStep

-----------------------------------------------------------------------------
(* The client's steps                                                      *)

\* The answer to session.create is the only event there is.
LEMMA CreatedStep ==
  ASSUME LinkInv, Created
  PROVE  LinkInv'
  <1>0. LinkTypes /\ Asked /\ Told /\ Runs /\ StartInv /\ ModeInv /\ FlightInv /\ TagInv /\ SessionInv
    BY DEF LinkInv
  <1>1. /\ sessionID = 0 /\ ~ quit /\ toClient # <<>> /\ toClient' = Tail(toClient)
        /\ UNCHANGED <<toServer, running, created, live, quit, reader, turns, loading, todos>>
    BY DEF Created, Received, server
  <1>2. /\ Len(toClient) \in Nat \ {0} /\ Len(toClient') = Len(toClient) - 1
        /\ Head(toClient) = toClient[1] /\ toClient[1] \in Events /\ 1 \in 1 .. Len(toClient)
        /\ toClient' \in Seq(Events)
    BY <1>0, <1>1, TakeEvent
  <1>3. /\ turns = 0 /\ reader = "none" /\ running = <<>> /\ toServer = <<>>
        /\ Len(toClient) <= 1
    BY <1>0, <1>1 DEF StartInv
  <1>4. toClient' = <<>>
    <2>1. Len(toClient') = 0
      BY <1>2, <1>3
    <2> QED BY <1>2, <2>1, EmptySeq
  <1>5. \/ sessionID' = toClient[1].session /\ toClient[1].type = "created" /\ fetch' = "send"
        \/ sessionID' = sessionID /\ fetch' = fetch
    BY <1>2 DEF Created
  <1>6. /\ sessionID' \in Nat /\ sessionID' <= created' /\ fetch' \in {"none", "send", "read", "done"}
        /\ sessionID' = 0 => fetch' = "none"
    <2>1. CASE sessionID' = toClient[1].session /\ toClient[1].type = "created" /\ fetch' = "send"
      <3>1. toClient[1].session \in Nat /\ toClient[1].session <= created /\ toClient[1].session # 0
        BY <1>0, <1>2, <2>1, SessionsOnTheWay DEF Told
      <3> QED BY <1>1, <2>1, <3>1
    <2>2. CASE sessionID' = sessionID /\ fetch' = fetch
      BY <1>0, <1>1, <2>2 DEF LinkTypes, StartInv
    <2> QED BY <1>5, <2>1, <2>2
  <1>7. LinkTypes'
    BY <1>0, <1>1, <1>2, <1>6 DEF LinkTypes
  <1>8. Asked' /\ Told'
    BY <1>1, <1>3, <1>4, NoTold DEF Asked
  <1>9. Runs' /\ Len(toClient') = 0
    BY <1>0, <1>1, <1>4, NoTold DEF Runs
  <1>10. StartInv'
    BY <1>1, <1>3, <1>6, <1>9 DEF StartInv
  <1>11. ModeInv' /\ SessionInv'
    BY <1>0, <1>1, <1>4, <1>6 DEF ModeInv, SessionInv
  <1>12. Sent' = {} /\ Ends' = {}
    BY <1>1, <1>3, <1>4 DEF Sent, Ends
  <1>13. FlightInv' /\ TagInv'
    BY <1>1, <1>3, <1>12 DEF FlightInv, TagInv
  <1> QED BY <1>7, <1>8, <1>9, <1>10, <1>11, <1>13 DEF LinkInv

\* commands.list and turn.interrupt
LEMMA AskStep ==
  ASSUME LinkInv, NEW k \in {"list", "interrupt"}, Ask(k), sessionID # 0,
         UNCHANGED <<toClient, running, created, live, quit, reader, turns, sessionID, loading, todos>>,
         fetch' \in {"none", "send", "read", "done"}
  PROVE  LinkInv'
  <1>0. LinkTypes /\ Asked /\ Told /\ Runs /\ ModeInv /\ FlightInv /\ TagInv /\ SessionInv
    BY DEF LinkInv
  <1>1. /\ k \in {"list", "message", "interrupt", "close"}
        /\ k \in {"create", "list", "interrupt", "close"}
    OBVIOUS
  <1>2. Asked' /\ toServer' \in Seq(Requests)
    BY <1>0, <1>1, AskedMore
  <1>3. LinkTypes' /\ Grows
    BY <1>0, <1>2 DEF LinkTypes, Grows
  <1>4. Told' /\ Runs'
    BY <1>0, <1>3, ToldSame, RunsSame
  <1>5. StartInv' /\ ModeInv' /\ SessionInv'
    BY <1>0 DEF StartInv, ModeInv, SessionInv
  <1>6. Requesting(0) /\ Ending(0) /\ SameTurn
    BY <1>0, <1>1, OneMoreRequest, SameEvents, SameRunning
  <1>7. FlightInv' /\ TagInv'
    BY <1>0, <1>3, <1>6, FlightKept
  <1> QED BY <1>2, <1>3, <1>4, <1>5, <1>7 DEF LinkInv

\* The message is sent when nothing of an earlier turn is left.
LEMMA MessageSent ==
  ASSUME LinkInv, SendMessage
  PROVE  LinkInv'
  <1>0. LinkTypes /\ Asked /\ Told /\ Runs /\ StartInv /\ ModeInv /\ FlightInv /\ TagInv /\ SessionInv
    BY DEF LinkInv
  <1>1. /\ ~ quit /\ reader = "send" /\ Ask("message") /\ reader' = "read"
        /\ UNCHANGED <<toClient, running, created, live, quit, turns, fetch, sessionID, loading, todos>>
    BY DEF SendMessage, server, session
  <1>2. sessionID # 0
    BY <1>0, <1>1 DEF StartInv
  <1>3. Sent = {} /\ running = <<>> /\ Ends = {}
    BY <1>0, <1>1, <1>2 DEF FlightInv
  <1>4. Asked' /\ toServer' \in Seq(Requests)
    BY <1>0, <1>1, AskedMore
  <1>5. LinkTypes' /\ Grows
    BY <1>0, <1>1, <1>4 DEF LinkTypes, Grows
  <1>6. Told' /\ Runs'
    BY <1>0, <1>1, <1>5, ToldSame, RunsSame
  <1>7. StartInv' /\ ModeInv' /\ SessionInv'
    BY <1>0, <1>1, <1>2 DEF StartInv, ModeInv, SessionInv
  <1> DEFINE l == Len(toServer)
  <1>8. /\ l \in Nat /\ Len(toServer') = l + 1 /\ toServer'[l + 1].turn = turns
        /\ \A i \in Sent' : i \in Sent \/ i = l + 1
    BY <1>0, <1>1, AddRequest
  <1> HIDE DEF l
  <1>9. \A i \in Sent' : i = l + 1
    BY <1>3, <1>8
  <1>10. Ends' = {}
    BY <1>1, <1>3 DEF Ends
  <1>11. FlightInv'
    BY <1>1, <1>3, <1>9, <1>10 DEF FlightInv
  <1>12. TagInv'
    <2>1. \A i \in Sent' : \A j \in i .. Len(toServer') : toServer'[j].turn = turns
      BY <1>8, <1>9
    <2> QED BY <1>1, <1>3, <2>1 DEF TagInv
  <1> QED BY <1>4, <1>5, <1>6, <1>7, <1>11, <1>12 DEF LinkInv

\* Enter: the next turn has its number before its message is on its way.
LEMMA EnterStep ==
  ASSUME LinkInv, Enter
  PROVE  LinkInv'
  <1>0. LinkTypes /\ Asked /\ Told /\ Runs /\ ModeInv /\ FlightInv /\ SessionInv
    BY DEF LinkInv
  <1>1. /\ ~ quit /\ ~ loading /\ sessionID # 0 /\ loading' = TRUE /\ reader' = "send" /\ turns' = turns + 1
        /\ UNCHANGED <<toServer, toClient, running, created, live, quit, fetch, sessionID, todos>>
    BY DEF Enter, wire, server
  <1>2. reader = "none"
    BY <1>0, <1>1 DEF ModeInv
  <1>3. Sent = {} /\ running = <<>> /\ Ends = {}
    BY <1>0, <1>1, <1>2 DEF FlightInv
  <1>4. Sent' = {} /\ running' = <<>> /\ Ends' = {}
    BY <1>1, <1>3 DEF Sent, Ends
  <1>5. LinkTypes' /\ Grows
    BY <1>0, <1>1 DEF LinkTypes, Grows
  <1>6. Asked' /\ Told' /\ Runs'
    BY <1>0, <1>1, <1>5, AskedSame, ToldSame, RunsSame
  <1>7. StartInv' /\ ModeInv' /\ SessionInv'
    BY <1>0, <1>1 DEF StartInv, ModeInv, SessionInv
  <1>8. FlightInv' /\ TagInv'
    BY <1>4 DEF FlightInv, TagInv
  <1> QED BY <1>5, <1>6, <1>7, <1>8 DEF LinkInv

\* The client leaves: its last request is the one that closes the session.
LEMMA CtrlCStep ==
  ASSUME LinkInv, CtrlC
  PROVE  LinkInv'
  <1>0. LinkTypes /\ Asked /\ Told /\ Runs /\ StartInv /\ ModeInv /\ FlightInv /\ TagInv /\ SessionInv
    BY DEF LinkInv
  <1>1. /\ quit' = TRUE /\ toClient' = <<>> /\ reader' = "none" /\ fetch' = "none"
        /\ loading' = FALSE /\ todos' = 0
        /\ UNCHANGED <<running, created, live, sessionID, turns>>
    BY DEF CtrlC, Exit, server
  <1>2. toServer' = toServer \/ (Ask("close") /\ sessionID # 0)
    BY DEF CtrlC
  <1>3. Told' /\ toClient' \in Seq(Events) /\ Len(toClient') = 0
    BY <1>1, NoTold
  <1>4. Grows
    BY <1>0, <1>1 DEF LinkTypes, Grows
  <1>5. /\ Asked' /\ toServer' \in Seq(Requests) /\ Requesting(0)
        /\ sessionID = 0 => toServer' = toServer
    <2>1. CASE toServer' = toServer
      BY <1>0, <1>1, <1>4, <2>1, AskedSame, SameRequests DEF LinkTypes
    <2>2. CASE Ask("close") /\ sessionID # 0
      BY <1>0, <1>1, <2>2, AskedMore, OneMoreRequest
    <2> QED BY <1>2, <2>1, <2>2
  <1>6. LinkTypes'
    BY <1>0, <1>1, <1>3, <1>5 DEF LinkTypes
  <1>7. Runs'
    BY <1>0, <1>1, <1>4, RunsSame
  <1>8. StartInv'
    BY <1>0, <1>1, <1>3, <1>5 DEF StartInv
  <1>9. ModeInv' /\ SessionInv'
    BY <1>0, <1>1 DEF ModeInv, SessionInv, LinkTypes
  <1>10. Ending(0) /\ SameTurn
    BY <1>1, NoEvents, SameRunning
  <1>11. FlightInv' /\ TagInv'
    BY <1>0, <1>1, <1>5, <1>6, <1>10, FlightKept
  <1> QED BY <1>3, <1>5, <1>6, <1>7, <1>8, <1>9, <1>11 DEF LinkInv

\* An event is taken that does not end the turn, or fetchCommands takes it.
LEMMA ReadStep ==
  ASSUME LinkInv, toClient # <<>>, toClient' = Tail(toClient), sessionID # 0, ~ quit,
         UNCHANGED <<toServer, running, created, live, quit, reader, turns, sessionID, loading>>,
         fetch' \in {"none", "send", "read", "done"}, todos' \in 0 .. created
  PROVE  LinkInv'
  <1>0. LinkTypes /\ Asked /\ Told /\ Runs /\ ModeInv /\ FlightInv /\ TagInv /\ SessionInv
    BY DEF LinkInv
  <1>1. Told' /\ toClient' \in Seq(Events)
    BY <1>0, ToldFewer
  <1>2. LinkTypes' /\ Grows
    BY <1>0, <1>1 DEF LinkTypes, Grows
  <1>3. Asked' /\ Runs'
    BY <1>0, <1>2, AskedSame, RunsSame
  <1>4. StartInv' /\ ModeInv' /\ SessionInv'
    BY <1>0 DEF StartInv, ModeInv, SessionInv
  <1>5. Requesting(0) /\ Ending(1) /\ SameTurn
    BY <1>0, SameRequests, FewerEvents, SameRunning
  <1>6. FlightInv' /\ TagInv'
    BY <1>0, <1>2, <1>5, FlightKept
  <1> QED BY <1>1, <1>2, <1>3, <1>4, <1>6 DEF LinkInv

\* The reader of the turn takes its end: nothing of the turn is left.
LEMMA FinishStep ==
  ASSUME LinkInv, ReadEvent({"done", "error"}), reader' = "none", loading' = FALSE,
         UNCHANGED <<toServer, running, created, live, quit, turns, fetch>>,
         sessionID' \in Nat \ {0}, sessionID' <= created, todos' \in 0 .. created
  PROVE  LinkInv'
  <1>0. LinkTypes /\ Asked /\ Told /\ Runs /\ StartInv /\ ModeInv /\ FlightInv /\ TagInv /\ SessionInv
    BY DEF LinkInv
  <1>1. /\ ~ quit /\ reader = "read" /\ toClient # <<>> /\ toClient' = Tail(toClient)
        /\ Head(toClient).type \in {"done", "error"}
    BY DEF ReadEvent, Received
  <1>2. sessionID # 0
    BY <1>0, <1>1 DEF StartInv
  <1>3. /\ Head(toClient) = toClient[1] /\ 1 \in 1 .. Len(toClient)
        /\ \A i \in Ends' : i + 1 \in Ends /\ i \in Nat \ {0}
    BY <1>0, <1>1, TakeEvent
  <1>4. 1 \in Ends
    BY <1>1, <1>3 DEF Ends
  <1>5. Sent = {} /\ running = <<>>
    BY <1>0, <1>4 DEF FlightInv
  <1>6. Ends' = {}
    <2>1. \A i \in Ends' : i + 1 = 1
      BY <1>0, <1>3, <1>4 DEF FlightInv
    <2> QED BY <1>3, <2>1
  <1>7. Sent' = {} /\ running' = <<>>
    BY <1>5 DEF Sent
  <1>8. Told' /\ toClient' \in Seq(Events)
    BY <1>0, <1>1, ToldFewer
  <1>9. LinkTypes' /\ Grows
    <2>1. loading' \in BOOLEAN
      OBVIOUS
    <2> QED BY <1>0, <1>8, <2>1 DEF LinkTypes, Grows
  <1>10. Asked' /\ Runs'
    BY <1>0, <1>2, <1>9, AskedSame, RunsSame
  <1>11. StartInv' /\ ModeInv' /\ SessionInv'
    BY <1>0, <1>1 DEF StartInv, ModeInv, SessionInv
  <1>12. FlightInv' /\ TagInv'
    BY <1>6, <1>7 DEF FlightInv, TagInv
  <1> QED BY <1>8, <1>9, <1>10, <1>11, <1>12 DEF LinkInv

-----------------------------------------------------------------------------
(* The connection and Esc                                                  *)

\* Every step keeps what is known of the connection.
LEMMA LinkStep ==
  ASSUME LinkInv, [Next]_vars
  PROVE  LinkInv'
  <1>0. LinkTypes /\ Told /\ StartInv /\ SessionInv
    BY DEF LinkInv
  <1>1. CASE Server
    <2>1. CASE DispatchInterrupt
      <3>1. Dispatch("interrupt") /\ UNCHANGED <<toClient, running, created, live, client>>
        BY <2>1 DEF DispatchInterrupt, server, session, client
      <3> QED BY <3>1, TakeStep
    <2>2. CASE DispatchClose
      <3>1. Dispatch("close") /\ UNCHANGED <<toClient, running, created, live, client>>
        BY <2>2 DEF DispatchClose, session, procs, client
      <3> QED BY <3>1, TakeStep
    <2>3. CASE CloseSession
      <3>1. UNCHANGED <<toServer, toClient, running, created, client>> /\ live' \subseteq live
        BY <2>3 DEF CloseSession, wire, session, procs, client
      <3> QED BY <3>1, QuietStep
    <2> QED BY <1>1, <2>1, <2>2, <2>3, CreateStep, ListStep, MessageStep DEF Server
  <1>2. CASE Turn
    BY <1>2, RegisterStep, CleanStep, EventStep, AnswerStep DEF Turn
  <1>3. CASE FetchSend
    <2>1. Ask("list") /\ fetch = "send" /\ fetch' = "read"
      BY <1>3 DEF FetchSend
    <2>2. UNCHANGED <<toClient, running, created, live, quit, reader, turns, sessionID, loading, todos>>
      BY <1>3 DEF FetchSend, server, session
    <2>3. sessionID # 0 /\ fetch' \in {"none", "send", "read", "done"}
      BY <1>0, <2>1 DEF StartInv
    <2> QED BY <2>1, <2>2, <2>3, AskStep
  <1>4. CASE FetchRead
    <2>1. toClient # <<>> /\ toClient' = Tail(toClient) /\ ~ quit /\ fetch = "read" /\ fetch' = "done"
      BY <1>4 DEF FetchRead
    <2>2. UNCHANGED <<toServer, running, created, live, quit, reader, turns, sessionID, loading, todos>>
      BY <1>4 DEF FetchRead, server, session
    <2>3. sessionID # 0 /\ fetch' \in {"none", "send", "read", "done"} /\ todos' \in 0 .. created
      BY <1>0, <2>1, <2>2 DEF StartInv, SessionInv
    <2> QED BY <2>1, <2>2, <2>3, ReadStep
  <1>5. ASSUME NEW K, ReadEvent(K)
        PROVE  /\ toClient # <<>> /\ toClient' = Tail(toClient) /\ ~ quit /\ sessionID # 0
               /\ Head(toClient).session \in 0 .. created /\ Head(toClient).type \in K
    <2>1. reader = "read" /\ ~ quit /\ toClient # <<>> /\ toClient' = Tail(toClient)
          /\ Head(toClient).type \in K
      BY <1>5 DEF ReadEvent, Received
    <2>2. Head(toClient) = toClient[1] /\ 1 \in 1 .. Len(toClient)
      BY <1>0, <2>1, TakeEvent
    <2>3. toClient[1].session \in Nat /\ toClient[1].session <= created
      BY <1>0, <2>2, SessionsOnTheWay DEF Told
    <2>4. sessionID # 0
      BY <1>0, <2>1 DEF StartInv
    <2> QED BY <1>0, <2>1, <2>2, <2>3, <2>4 DEF LinkTypes
  <1>6. CASE Reader
    <2>1. CASE Chunk \/ Inform \/ ToolCall \/ Ignore
      <3>1. \E K : ReadEvent(K)
        BY <2>1 DEF Chunk, Inform, ToolCall, Ignore
      <3>2. UNCHANGED <<toServer, running, created, live, quit, reader, turns, sessionID, loading, todos, fetch>>
        BY <2>1 DEF Chunk, Inform, ToolCall, Ignore, server, session, procs
      <3>3. fetch' \in {"none", "send", "read", "done"} /\ todos' \in 0 .. created
        BY <1>0, <3>2 DEF LinkTypes, SessionInv
      <3> QED BY <1>5, <3>1, <3>2, <3>3, ReadStep
    <2>2. CASE TodoSnapshot
      <3>1. ReadEvent({"todo_snapshot"}) /\ todos' = Head(toClient).session
        BY <2>2 DEF TodoSnapshot
      <3>2. UNCHANGED <<toServer, running, created, live, quit, reader, turns, sessionID, loading, fetch>>
        BY <2>2 DEF TodoSnapshot, server, procs
      <3>3. fetch' \in {"none", "send", "read", "done"} /\ todos' \in 0 .. created
        BY <1>0, <1>5, <3>1, <3>2 DEF LinkTypes
      <3> QED BY <1>5, <3>1, <3>2, <3>3, ReadStep
    <2>3. CASE Done
      <3>1. /\ ReadEvent({"done"}) /\ loading' = FALSE /\ reader' = "none"
            /\ UNCHANGED <<toServer, running, created, live, quit, turns, fetch>>
        BY <2>3 DEF Done, server
      <3>2. /\ todos' \in {0, todos}
            /\ sessionID' = IF Head(toClient).session # 0 THEN Head(toClient).session ELSE sessionID
        BY <2>3 DEF Done, TodosOnDone
      <3>3. Head(toClient).session \in 0 .. created /\ sessionID # 0
        BY <1>5, <3>1
      <3>4. sessionID' \in Nat \ {0} /\ sessionID' <= created /\ todos' \in 0 .. created
        BY <1>0, <3>2, <3>3 DEF LinkTypes, SessionInv
      <3>5. ReadEvent({"done", "error"})
        BY <3>1 DEF ReadEvent, Received
      <3> QED BY <3>1, <3>4, <3>5, FinishStep
    <2>4. CASE Error
      <3>1. /\ ReadEvent({"error"}) /\ loading' = FALSE /\ reader' = "none"
            /\ UNCHANGED <<toServer, running, created, live, quit, turns, fetch, sessionID, todos>>
        BY <2>4 DEF Error, server
      <3>2. sessionID' \in Nat \ {0} /\ sessionID' <= created /\ todos' \in 0 .. created
        BY <1>0, <1>5, <3>1 DEF LinkTypes, SessionInv
      <3>3. ReadEvent({"done", "error"})
        BY <3>1 DEF ReadEvent, Received
      <3> QED BY <3>1, <3>2, <3>3, FinishStep
    <2> QED BY <1>6, <2>1, <2>2, <2>3, <2>4, MessageSent DEF Reader
  <1>7. CASE Keys
    <2>1. CASE (\E i \in Inputs : Type(i)) \/ Select \/ Complete \/ Tick
      <3>1. UNCHANGED <<toServer, toClient, running, created, client>> /\ live' \subseteq live
        BY <2>1 DEF Type, Select, Complete, Tick, wire, server, session, procs, client
      <3> QED BY <3>1, QuietStep
    <2>2. CASE Esc
      <3>1. /\ Ask("interrupt") /\ sessionID # 0
            /\ UNCHANGED <<toClient, running, created, live, quit, reader, turns, sessionID, loading, todos, fetch>>
        BY <2>2 DEF Esc, server, session
      <3>2. fetch' \in {"none", "send", "read", "done"}
        BY <1>0, <3>1 DEF LinkTypes
      <3> QED BY <3>1, <3>2, AskStep
    <2> QED BY <1>7, <2>1, <2>2, EnterStep, CtrlCStep DEF Keys
  <1>8. CASE UNCHANGED vars
    <2>1. UNCHANGED <<toServer, toClient, running, created, client>> /\ live' \subseteq live
      BY <1>8 DEF vars, wire, server, session, procs, client
    <2> QED BY <2>1, QuietStep
  <1>9. CASE EventLost
    <2>1. toClient # <<>> /\ toClient' = Tail(toClient) /\ ~ quit /\ reader = "read"
      BY <1>9 DEF EventLost
    <2>2. UNCHANGED <<toServer, running, created, live, quit, reader, turns, sessionID, loading, todos, fetch>>
      BY <1>9 DEF EventLost, server, session, procs
    <2>3. sessionID # 0 /\ fetch' \in {"none", "send", "read", "done"} /\ todos' \in 0 .. created
      BY <1>0, <2>1, <2>2 DEF LinkTypes, StartInv, SessionInv
    <2> QED BY <2>1, <2>2, <2>3, ReadStep
  <1> QED BY <1>1, <1>2, <1>3, <1>4, <1>6, <1>7, <1>8, <1>9, CreatedStep, SharedStep DEF Next

\* The turn that an interrupt reaches is the one that was asked to stop.
LEMMA EscStep ==
  ASSUME LinkInv, EscHitsItsTurn, [Next]_vars
  PROVE  EscHitsItsTurn'
  <1>1. CASE DispatchInterrupt
    <2>1. CASE Registered(Head(toServer).session)
      <3>1. /\ running # <<>> /\ Dispatch("interrupt")
            /\ hits' = hits \cup {<<Head(toServer).turn, Head(running).turn>>}
        BY <1>1, <2>1 DEF Registered, DispatchInterrupt
      <3>2. Head(toServer) = toServer[1] /\ 1 \in 1 .. Len(toServer)
        BY <3>1, Dispatched
      <3>3. /\ Head(running) = running[1] /\ running[1].turn = turns
            /\ \A i \in 1 .. Len(toServer) : toServer[i].turn = turns
        BY <3>1, OneTurn
      <3>4. Head(toServer).turn = Head(running).turn
        BY <3>2, <3>3
      <3> QED BY <3>1, <3>4 DEF EscHitsItsTurn
    <2>2. CASE ~ Registered(Head(toServer).session)
      BY <1>1, <2>2 DEF DispatchInterrupt, EscHitsItsTurn
    <2> QED BY <2>1, <2>2
  <1>2. CASE Server /\ ~ DispatchInterrupt
    BY <1>2 DEF Server, DispatchCreate, DispatchList, DispatchMessage, DispatchClose, CloseSession,
                procs, EscHitsItsTurn
  <1>3. CASE Turn
    BY <1>3 DEF Turn, TurnStart, Clean, TurnEvent, TurnEnd, procs, EscHitsItsTurn
  <1>4. CASE Reader
    BY <1>4 DEF Reader, SendMessage, Chunk, Inform, ToolCall, TodoSnapshot, Done, Error, Ignore, procs,
                EscHitsItsTurn
  <1>5. CASE Keys
    BY <1>5 DEF Keys, Type, Select, Complete, Tick, Enter, Esc, CtrlC, procs, EscHitsItsTurn
  <1>6. CASE Created \/ FetchSend \/ FetchRead \/ EventLost \/ EventShared \/ UNCHANGED vars
    BY <1>6 DEF Created, FetchSend, FetchRead, EventLost, EventShared, vars, procs, EscHitsItsTurn
  <1> QED BY <1>1, <1>2, <1>3, <1>4, <1>5, <1>6 DEF Next

-----------------------------------------------------------------------------
(* The todo list beside the screen                                         *)

\* The daemon's and the client's steps take and add requests in that order.
LEMMA MessagesKept ==
  ASSUME LinkTypes, OfSession, sessionID' = sessionID,
         \/ toServer' = toServer
         \/ toServer # <<>> /\ toServer' = Tail(toServer)
         \/ \E k \in {"list", "message", "interrupt", "close"} : Ask(k)
  PROVE  OfSession'
  <1>1. CASE toServer' = toServer
    BY <1>1 DEF OfSession, Sent
  <1>2. CASE toServer # <<>> /\ toServer' = Tail(toServer)
    <2>1. /\ \A i \in 1 .. Len(toServer') : i + 1 \in 1 .. Len(toServer) /\ toServer'[i] = toServer[i + 1]
          /\ \A i \in Sent' : i + 1 \in Sent
      BY <1>2, TakeRequest
    <2>2. \A i \in Sent' : i \in 1 .. Len(toServer')
      BY DEF Sent
    <2> QED BY <2>1, <2>2 DEF OfSession
  <1>3. CASE \E k \in {"list", "message", "interrupt", "close"} : Ask(k)
    <2>1. PICK k \in {"list", "message", "interrupt", "close"} : Ask(k)
      BY <1>3
    <2>2. /\ \A i \in 1 .. Len(toServer) : toServer'[i] = toServer[i]
          /\ toServer'[Len(toServer) + 1].session = sessionID
          /\ \A i \in Sent' : i \in Sent \/ i = Len(toServer) + 1
      BY <2>1, AddRequest
    <2>3. \A i \in Sent : i \in 1 .. Len(toServer)
      BY DEF Sent
    <2> QED BY <2>2, <2>3 DEF OfSession
  <1> QED BY <1>1, <1>2, <1>3

\* The first event is taken, or none.
LEMMA ListsKept ==
  ASSUME LinkTypes, Lists, sessionID' = sessionID,
         toClient' = toClient \/ (toClient # <<>> /\ toClient' = Tail(toClient))
  PROVE  Lists'
  <1>1. CASE toClient' = toClient
    BY <1>1 DEF Lists, Ends
  <1>2. CASE toClient # <<>> /\ toClient' = Tail(toClient)
    <2>1. /\ \A i \in 1 .. Len(toClient') : i + 1 \in 1 .. Len(toClient) /\ toClient'[i] = toClient[i + 1]
          /\ \A i \in Ends' : i + 1 \in Ends /\ i \in Nat \ {0}
      BY <1>2, TakeEvent
    <2>2. ASSUME NEW i \in 1 .. Len(toClient'), toClient'[i].type = "todo_snapshot"
          PROVE  toClient'[i].session = sessionID' /\ \A e \in Ends' : i < e
      <3>1. i + 1 \in 1 .. Len(toClient) /\ toClient[i + 1].type = "todo_snapshot" /\ toClient'[i] = toClient[i + 1]
        BY <2>1, <2>2
      <3>2. toClient[i + 1].session = sessionID /\ \A e \in Ends : i + 1 < e
        BY <3>1 DEF Lists
      <3>3. ASSUME NEW e \in Ends' PROVE i < e
        <4>1. e + 1 \in Ends /\ e \in Nat /\ i \in Nat
          BY <2>1
        <4>2. i + 1 < e + 1
          BY <3>2, <4>1
        <4> QED BY <4>1, <4>2
      <3> QED BY <3>1, <3>2, <3>3
    <2> QED BY <2>2 DEF Lists
  <1> QED BY <1>1, <1>2

\* A todo list of the session of the screen, or another event, is sent while no turn has ended;
\* other events may come with the end of one.
LEMMA ListsMore ==
  ASSUME LinkTypes, ModeInv, Told, Lists, sessionID' = sessionID, NEW ev \in Events, Send(ev), CanSend,
         ev.type = "todo_snapshot" => ev.session = sessionID /\ Ends = {}
  PROVE  Lists'
  <1> DEFINE l == Len(toClient)
  <1>1. /\ l \in Nat
        /\ \A i \in 1 .. Len(toClient') :
             \/ i \in 1 .. l /\ toClient'[i] = toClient[i]
             \/ i = l + 1 /\ toClient'[i] = ev
        /\ \A i \in Ends' : i \in Ends \/ (i = l + 1 /\ ev.type \in {"done", "error"})
    BY AddEvent DEF Told
  <1> HIDE DEF l
  <1>2. ASSUME NEW i \in 1 .. Len(toClient'), toClient'[i].type = "todo_snapshot"
        PROVE  toClient'[i].session = sessionID' /\ \A e \in Ends' : i < e
    <2>1. CASE i \in 1 .. l /\ toClient'[i] = toClient[i]
      <3>1. toClient[i].session = sessionID /\ \A e \in Ends : i < e
        BY <1>2, <2>1 DEF Lists, l
      <3>2. i < l + 1
        BY <1>1, <2>1
      <3>3. \A e \in Ends' : e \in Ends \/ e = l + 1
        BY <1>1
      <3> QED BY <2>1, <3>1, <3>2, <3>3
    <2>2. CASE i = l + 1 /\ toClient'[i] = ev
      <3>1. ev.type = "todo_snapshot"
        BY <1>2, <2>2
      <3>2. ev.session = sessionID /\ Ends' = {}
        <4>1. ev.session = sessionID /\ Ends = {} /\ ev.type \notin {"done", "error"}
          BY <3>1
        <4> QED BY <1>1, <4>1
      <3> QED BY <2>2, <3>2
    <2> QED BY <1>1, <2>1, <2>2
  <1> QED BY <1>2 DEF Lists

\* The turn stays, with what it counts, or ends.
LEMMA OwnerKept ==
  ASSUME LinkInv, Owner, sessionID' = sessionID,
         \/ running' = running
         \/ running # <<>> /\ running' = Tail(running)
         \/ /\ running # <<>>
            /\ \E m \in Messages : m.session = running[1].session /\ running' = [running EXCEPT ![1] = m]
  PROVE  Owner'
  <1>1. CASE running' = running
    BY <1>1 DEF Owner
  <1>2. CASE running # <<>> /\ running' = Tail(running)
    <2>1. Len(running) = 1 /\ running \in Seq(Messages)
      BY <1>2, OneTurn DEF LinkInv, LinkTypes
    <2>2. Len(running') = 0
      BY <1>2, <2>1
    <2> QED BY <2>2 DEF Owner
  <1>3. CASE /\ running # <<>>
             /\ \E m \in Messages : m.session = running[1].session /\ running' = [running EXCEPT ![1] = m]
    <2>1. PICK m \in Messages : m.session = running[1].session /\ running' = [running EXCEPT ![1] = m]
      BY <1>3
    <2>2. Len(running) = 1 /\ running \in Seq(Messages)
      BY <1>3, OneTurn DEF LinkInv, LinkTypes
    <2>3. Len(running') = 1 /\ running'[1] = m
      BY <2>1, <2>2
    <2>4. m.session = sessionID
      BY <2>1, <2>2 DEF Owner
    <2>a. \A i \in 1 .. 1 : i = 1
      OBVIOUS
    <2>5. \A i \in 1 .. Len(running') : running'[i] = m
      BY <2>3, <2>a, Zenon
    <2> QED BY <2>4, <2>5 DEF Owner
  <1> QED BY <1>1, <1>2, <1>3

\* A step of the daemon that sends no todo list.
LEMMA TodoServer ==
  ASSUME LinkInv, TodoInv, Server, ~ quit
  PROVE  TodoInv'
  <1>0. LinkTypes /\ ModeInv /\ Told /\ OfSession /\ Owner /\ Lists /\ todos \in {0, sessionID}
    BY DEF LinkInv, TodoInv
  <1>1. sessionID' = sessionID /\ todos' = todos
    BY DEF Server, DispatchCreate, DispatchList, DispatchMessage, DispatchInterrupt, DispatchClose,
           CloseSession, session
  <1>2. toServer' = toServer \/ (toServer # <<>> /\ toServer' = Tail(toServer))
    BY DEF Server, DispatchCreate, DispatchList, DispatchMessage, DispatchInterrupt, DispatchClose,
           CloseSession, Dispatch, wire
  <1>3. OfSession'
    BY <1>0, <1>1, <1>2, MessagesKept
  <1>4. Lists'
    <2>1. CASE DispatchMessage \/ DispatchInterrupt \/ DispatchClose \/ CloseSession
      <3>1. toClient' = toClient
        BY <2>1 DEF DispatchMessage, DispatchInterrupt, DispatchClose, CloseSession, wire
      <3> QED BY <1>0, <1>1, <3>1, ListsKept
    <2>2. CASE DispatchCreate \/ DispatchList
      <3>1. /\ CanSend
            /\ \/ Send(Event("created", created + 1, 0)) \/ Send(Event("error", 0, 0))
               \/ Send(Event("commands", 0, 0))
        BY <2>2 DEF DispatchCreate, DispatchList
      <3>2. \A k \in {"created", "error", "commands"} : \A n \in Nat :
              Event(k, n, 0) \in Events /\ Event(k, n, 0).type # "todo_snapshot"
        BY DEF Event, Events
      <3>3. created + 1 \in Nat /\ 0 \in Nat
        BY <1>0 DEF LinkTypes
      <3>4. ASSUME NEW k \in {"created", "error", "commands"}, NEW n \in Nat, Send(Event(k, n, 0)) PROVE Lists'
        BY <1>0, <1>1, <3>1, <3>2, <3>4, ListsMore
      <3> QED BY <3>1, <3>3, <3>4
    <2> QED BY <2>1, <2>2 DEF Server
  <1>5. Owner'
    <2>1. CASE DispatchMessage
      <3>1. Dispatch("message")
        BY <2>1 DEF DispatchMessage
      <3>2. /\ Head(toServer) = toServer[1] /\ toServer[1] \in Requests /\ toServer[1].type = "message"
            /\ 1 \in 1 .. Len(toServer)
        BY <3>1, Dispatched
      <3>3. 1 \in Sent
        BY <3>2 DEF Sent
      <3>4. running = <<>> /\ toServer[1].session = sessionID
        BY <1>0, <3>3 DEF LinkInv, FlightInv, OfSession
      <3> DEFINE m == [turn |-> toServer[1].turn, session |-> toServer[1].session,
                       registered |-> FALSE, calls |-> 0]
      <3>5. running' = Append(running, m)
        BY <2>1, <3>2 DEF DispatchMessage
      <3>6. m \in Messages /\ m.session = sessionID
        BY <3>2, <3>4 DEF Messages, Requests
      <3> HIDE DEF m
      <3>7. Len(running') = 1 /\ running'[1] = m
        BY <3>4, <3>5, <3>6
      <3>8. \A i \in 1 .. Len(running') : i = 1
        BY <3>7
      <3> QED BY <1>1, <3>6, <3>7, <3>8 DEF Owner
    <2>2. CASE ~ DispatchMessage
      <3>1. running' = running
        BY <2>2 DEF Server, DispatchCreate, DispatchList, DispatchInterrupt, DispatchClose, CloseSession, server
      <3> QED BY <1>0, <1>1, <3>1, OwnerKept
    <2> QED BY <2>1, <2>2
  <1> QED BY <1>0, <1>1, <1>3, <1>4, <1>5 DEF TodoInv

\* A step of the turn: the list it sends is of its session.
LEMMA TodoTurn ==
  ASSUME LinkInv, TodoInv, Turn, ~ quit
  PROVE  TodoInv'
  <1>0. LinkTypes /\ ModeInv /\ Told /\ OfSession /\ Owner /\ Lists /\ todos \in {0, sessionID}
    BY DEF LinkInv, TodoInv
  <1>1. sessionID' = sessionID /\ todos' = todos /\ toServer' = toServer /\ running # <<>>
    BY DEF Turn, TurnStart, Clean, TurnEvent, TurnEnd, session, wire
  <1>2. OfSession'
    BY <1>0, <1>1, MessagesKept
  <1>3. /\ Len(running) = 1 /\ Head(running) = running[1] /\ running[1] \in Messages /\ Ends = {}
        /\ running[1].session = sessionID
    <2>1. Len(running) = 1 /\ Head(running) = running[1] /\ running[1] \in Messages /\ Ends = {}
      BY <1>1, OneTurn
    <2> QED BY <1>0, <2>1 DEF Owner
  <1>4. CASE TurnStart
    <2> DEFINE m == [running[1] EXCEPT !.registered = TRUE]
    <2>1. running' = [running EXCEPT ![1] = m] /\ toClient' = toClient
      BY <1>4 DEF TurnStart, wire
    <2>2. m \in Messages /\ m.session = running[1].session
      BY <1>3 DEF Messages
    <2> HIDE DEF m
    <2>3. Owner' /\ Lists'
      BY <1>0, <1>1, <2>1, <2>2, OwnerKept, ListsKept
    <2> QED BY <1>0, <1>1, <1>2, <2>3 DEF TodoInv
  <1>5. ASSUME NEW k \in {"chunk", "tool_call", "inform", "todo_snapshot"}, TurnEvent(k) PROVE TodoInv'
    <2> DEFINE n == running[1].calls + (IF k = "tool_call" THEN 1 ELSE 0)
               m == [running[1] EXCEPT !.calls = n]
               ev == Event(k, running[1].session, n)
    <2>1. running' = [running EXCEPT ![1] = m] /\ Send(ev) /\ CanSend
      BY <1>3, <1>5 DEF TurnEvent
    <2>2. n \in Nat
      BY <1>3 DEF Messages
    <2>3. m \in Messages /\ m.session = running[1].session
      BY <1>3, <2>2 DEF Messages
    <2>4. ev \in Events /\ ev.session = sessionID
      BY <1>3, <2>2 DEF Messages, Event, Events
    <2> HIDE DEF m, ev
    <2>5. Owner'
      BY <1>0, <1>1, <2>1, <2>3, OwnerKept
    <2>6. Lists'
      BY <1>0, <1>1, <1>3, <2>1, <2>4, ListsMore
    <2> QED BY <1>0, <1>1, <1>2, <2>5, <2>6 DEF TodoInv
  <1>6. ASSUME NEW ev \in Events, Send(ev), CanSend, running' = Tail(running), ev.type # "todo_snapshot"
        PROVE  TodoInv'
    <2>1. Owner'
      BY <1>0, <1>1, <1>6, OwnerKept
    <2>2. Lists'
      BY <1>0, <1>1, <1>6, ListsMore
    <2> QED BY <1>0, <1>1, <1>2, <2>1, <2>2 DEF TodoInv
  <1>7. CASE Clean
    <2>1. Send(Event("done", created + 1, 0)) /\ CanSend /\ running' = Tail(running)
      BY <1>7 DEF Clean
    <2>2. Event("done", created + 1, 0) \in Events /\ Event("done", created + 1, 0).type # "todo_snapshot"
      BY <1>0 DEF Event, Events, LinkTypes
    <2> QED BY <1>6, <2>1, <2>2
  <1>8. ASSUME NEW k \in {"done", "error"}, TurnEnd(k) PROVE TodoInv'
    <2>1. Send(Event(k, 0, 0)) /\ CanSend /\ running' = Tail(running)
      BY <1>8 DEF TurnEnd
    <2>2. Event(k, 0, 0) \in Events /\ Event(k, 0, 0).type # "todo_snapshot"
      BY DEF Event, Events
    <2> QED BY <1>6, <2>1, <2>2
  <1> QED BY <1>4, <1>5, <1>7, <1>8 DEF Turn

\* A turn that is over leaves no request, turn or list of its session behind when the session
\* is replaced.
LEMMA TodoDone ==
  ASSUME LinkInv, TodoInv, Done
  PROVE  TodoInv'
  <1>0. LinkTypes /\ FlightInv /\ Lists /\ (~ quit => todos \in {0, sessionID})
    BY DEF LinkInv, TodoInv, ReadEvent, Received, Done
  <1>1. /\ ~ quit /\ toClient # <<>> /\ toClient' = Tail(toClient) /\ Head(toClient).type = "done"
        /\ UNCHANGED <<toServer, running, quit>>
    BY DEF Done, ReadEvent, Received, server
  <1>2. /\ Head(toClient) = toClient[1] /\ 1 \in 1 .. Len(toClient) /\ Len(toClient) \in Nat
        /\ \A i \in 1 .. Len(toClient') : i + 1 \in 1 .. Len(toClient) /\ toClient'[i] = toClient[i + 1]
    BY <1>0, <1>1, TakeEvent
  <1>3. 1 \in Ends
    BY <1>1, <1>2 DEF Ends
  <1>4. Sent' = {} /\ Len(running') = 0
    <2>1. Sent = {} /\ running = <<>>
      BY <1>0, <1>3 DEF FlightInv
    <2> QED BY <1>1, <2>1 DEF Sent
  <1>5. \A i \in 1 .. Len(toClient') : toClient'[i].type # "todo_snapshot"
    <2>1. ASSUME NEW i \in 1 .. Len(toClient'), toClient'[i].type = "todo_snapshot" PROVE FALSE
      <3>1. i + 1 \in 1 .. Len(toClient) /\ toClient[i + 1].type = "todo_snapshot"
        BY <1>2, <2>1
      <3>2. i + 1 < 1
        BY <1>0, <1>3, <3>1 DEF Lists
      <3> QED BY <3>1, <3>2
    <2> QED BY <2>1
  <1>6. todos' \in {0, sessionID'}
    <2>1. /\ todos' = IF Head(toClient).session # 0 /\ Head(toClient).session # sessionID THEN 0 ELSE todos
          /\ sessionID' = IF Head(toClient).session # 0 THEN Head(toClient).session ELSE sessionID
      BY DEF Done, TodosOnDone
    <2> QED BY <1>0, <1>1, <2>1
  <1>7. OfSession' /\ Owner' /\ Lists'
    BY <1>4, <1>5 DEF OfSession, Owner, Lists
  <1> QED BY <1>6, <1>7 DEF TodoInv

\* Every step keeps what is shown and on its way to the session of the screen.
LEMMA TodoStep ==
  ASSUME LinkInv, TodoInv, [Next]_vars
  PROVE  TodoInv'
  <1> SUFFICES ASSUME ~ quit' PROVE TodoInv'
    BY DEF TodoInv
  <1>1. ~ quit
    BY DEF Next, Server, DispatchCreate, DispatchList, DispatchMessage, DispatchInterrupt, DispatchClose,
           CloseSession, Turn, TurnStart, Clean, TurnEvent, TurnEnd, Created, FetchSend, FetchRead, EventLost, EventShared,
           Reader, SendMessage, Chunk, Inform, ToolCall, TodoSnapshot, Done, Error, Ignore, Keys, Type, Select,
           Complete, Tick, Enter, Esc, CtrlC, procs, vars, Received, ReadEvent
  <1>2. LinkTypes /\ OfSession /\ Owner /\ Lists /\ todos \in {0, sessionID}
    BY <1>1 DEF LinkInv, TodoInv
  <1>3. ASSUME sessionID' = sessionID, todos' \in {0, sessionID}, running' = running,
               \/ toServer' = toServer
               \/ \E k \in {"list", "message", "interrupt", "close"} : Ask(k),
               toClient' = toClient \/ (toClient # <<>> /\ toClient' = Tail(toClient))
        PROVE  TodoInv'
    BY <1>2, <1>3, MessagesKept, ListsKept, OwnerKept DEF TodoInv
  <1>4. CASE Created
    <2>1. /\ sessionID = 0 /\ toClient # <<>> /\ toClient' = Tail(toClient) /\ UNCHANGED <<toServer, running, todos>>
      BY <1>4 DEF Created, Received, server
    <2>2. running = <<>> /\ toServer = <<>> /\ Len(toClient) <= 1
      BY <2>1 DEF LinkInv, StartInv
    <2>3. Len(toClient') = Len(toClient) - 1 /\ Len(toClient) \in Nat
      BY <1>2, <2>1, TakeEvent
    <2>4. Sent' = {} /\ Len(running') = 0 /\ \A i \in 1 .. Len(toClient') : FALSE
      BY <2>1, <2>2, <2>3 DEF Sent
    <2>5. todos' = 0
      BY <1>2, <2>1
    <2> QED BY <2>4, <2>5 DEF TodoInv, OfSession, Owner, Lists
  <1>5. CASE FetchSend \/ SendMessage \/ Esc
    <2>1. /\ sessionID' = sessionID /\ todos' = todos /\ running' = running /\ toClient' = toClient
          /\ Ask("list") \/ Ask("message") \/ Ask("interrupt")
      BY <1>5 DEF FetchSend, SendMessage, Esc, session, server
    <2> QED BY <1>2, <1>3, <2>1
  <1>6. CASE FetchRead \/ EventLost \/ EventShared
    <2>1. /\ sessionID' = sessionID /\ todos' = todos /\ running' = running /\ toServer' = toServer
          /\ toClient' = toClient \/ (toClient # <<>> /\ toClient' = Tail(toClient))
      BY <1>6 DEF FetchRead, EventLost, EventShared, session, server, wire
    <2> QED BY <1>2, <1>3, <2>1
  <1>7. CASE Chunk \/ Inform \/ ToolCall \/ Error \/ Ignore
    <2>1. /\ sessionID' = sessionID /\ todos' = todos /\ running' = running /\ toServer' = toServer
          /\ toClient # <<>> /\ toClient' = Tail(toClient)
      BY <1>7 DEF Chunk, Inform, ToolCall, Error, Ignore, ReadEvent, Received, session, server
    <2> QED BY <1>2, <1>3, <2>1
  <1>8. CASE TodoSnapshot
    <2>1. /\ sessionID' = sessionID /\ running' = running /\ toServer' = toServer
          /\ toClient # <<>> /\ toClient' = Tail(toClient)
          /\ Head(toClient).type = "todo_snapshot" /\ todos' = Head(toClient).session
      BY <1>8 DEF TodoSnapshot, ReadEvent, Received, server
    <2>2. Head(toClient) = toClient[1] /\ 1 \in 1 .. Len(toClient)
      BY <1>2, <2>1, TakeEvent
    <2>3. todos' = sessionID
      BY <1>2, <2>1, <2>2 DEF Lists
    <2> QED BY <1>2, <1>3, <2>1, <2>3
  <1>9. CASE (\E i \in Inputs : Type(i)) \/ Select \/ Complete \/ Tick \/ Enter \/ UNCHANGED vars
    <2>1. UNCHANGED <<sessionID, todos, running, toServer, toClient>>
      BY <1>9 DEF Type, Select, Complete, Tick, Enter, session, wire, server, vars
    <2> QED BY <1>2, <1>3, <2>1
  <1>10. CASE CtrlC
    BY <1>10 DEF CtrlC
  <1> QED BY <1>1, <1>4, <1>5, <1>6, <1>7, <1>8, <1>9, <1>10, TodoServer, TodoTurn, TodoDone
       DEF Next, Reader, Keys

-----------------------------------------------------------------------------
(* The display                                                             *)

\* InsertAt makes a sequence longer by one.
LEMMA Inserted ==
  ASSUME NEW S, NEW s \in Seq(S), NEW i \in 1 .. Len(s), NEW e \in S
  PROVE  InsertAt(s, i, e) \in Seq(S) /\ Len(InsertAt(s, i, e)) = Len(s) + 1
  <1> DEFINE a == SubSeq(s, 1, i - 1)
             b == SubSeq(s, i, Len(s))
  <1>0. Len(s) \in Nat /\ i \in Int /\ i - 1 \in Int /\ \A j \in 1 .. Len(s) : s[j] \in S
    OBVIOUS
  <1>1. (\A j \in 1 .. i - 1 : s[j] \in S) /\ \A j \in i .. Len(s) : s[j] \in S
    BY <1>0
  <1>2. a \in Seq(S) /\ Len(a) = i - 1
    <2>1. a \in Seq(S) /\ Len(a) = IF 1 <= i - 1 THEN i - 1 - 1 + 1 ELSE 0
      BY <1>0, <1>1, SubSeqProperties
    <2> HIDE DEF a
    <2> QED BY <1>0, <2>1
  <1>3. b \in Seq(S) /\ Len(b) = Len(s) - i + 1
    <2>1. b \in Seq(S) /\ Len(b) = IF i <= Len(s) THEN Len(s) - i + 1 ELSE 0
      BY <1>0, <1>1, SubSeqProperties
    <2> HIDE DEF b
    <2> QED BY <1>0, <2>1
  <1>4. InsertAt(s, i, e) = (a \o <<e>>) \o b
    BY DEF InsertAt
  <1> HIDE DEF a, b
  <1>5. <<e>> \in Seq(S) /\ Len(<<e>>) = 1
    OBVIOUS
  <1>6. a \o <<e>> \in Seq(S) /\ Len(a \o <<e>>) = i
    BY <1>0, <1>2, <1>5, ConcatProperties
  <1> DEFINE c == a \o <<e>>
  <1>a. c \in Seq(S) /\ Len(c) = i
    BY <1>6
  <1> HIDE DEF c
  <1>7. c \o b \in Seq(S) /\ Len(c \o b) = i + (Len(s) - i + 1)
    <2>1. c \o b \in Seq(S) /\ Len(c \o b) = Len(c) + Len(b)
      BY <1>3, <1>a, ConcatProperties, Zenon
    <2> QED BY <1>3, <1>a, <2>1, Zenon
  <1> QED BY <1>0, <1>4, <1>7 DEF c

\* What the client writes into its display are lines.
LEMMA LineTypes ==
  /\ \A k \in Kinds, n \in Nat : Line(k, n) \in Lines
  /\ \A l \in Lines : [l EXCEPT !.kind = "answer"] \in Lines
  BY DEF Line, Lines, Kinds

\* Steps that leave the screen alone.
LEMMA SameScreen ==
  ASSUME DisplayInv, UNCHANGED <<display, streamIdx, chunks, slots, overflow, calls, quit, turns>>,
         reader' # "none" => reader # "none"
  PROVE  DisplayInv'
  BY DEF DisplayInv

\* While the reader of a turn reads, there is a line to stream into.
LEMMA Streaming ==
  ASSUME DisplayInv, LinkTypes, NEW K, ReadEvent(K)
  PROVE  /\ streamIdx \in 1 .. Len(display) /\ turns > 0 /\ Len(display) \in Nat /\ ~ quit
         /\ Head(toClient) \in Events /\ Head(toClient).n \in Nat
  <1>1. reader = "read" /\ ~ quit /\ toClient # <<>> /\ toClient' = Tail(toClient)
    BY DEF ReadEvent, Received
  <1>2. Head(toClient) \in Events
    BY <1>1, TakeEvent
  <1>3. turns > 0 /\ streamIdx \in 1 .. Len(display) /\ Len(display) \in Nat
    BY <1>1 DEF DisplayInv
  <1> QED BY <1>1, <1>2, <1>3 DEF Events

\* A chunk is written into the line of the stream.
LEMMA ChunkDisplay ==
  ASSUME DisplayInv, LinkTypes, Chunk
  PROVE  DisplayInv'
  <1>1. /\ streamIdx \in 1 .. Len(display) /\ turns > 0 /\ Len(display) \in Nat
    BY Streaming DEF Chunk
  <1>2. Line("stream", chunks + 1) \in Lines /\ chunks' \in Nat
    BY LineTypes DEF DisplayInv, Kinds, Chunk
  <1>3. display \in Seq(Lines) /\ display' = [display EXCEPT ![streamIdx] = Line("stream", chunks + 1)]
    BY DEF DisplayInv, Chunk
  <1>4. display' \in Seq(Lines) /\ Len(display') = Len(display)
    BY <1>1, <1>2, <1>3
  <1>5. UNCHANGED <<streamIdx, slots, overflow, calls, quit, turns, reader>>
    BY DEF Chunk, procs
  <1> QED BY <1>2, <1>4, <1>5 DEF DisplayInv

\* A status line moves the stream.
LEMMA InformDisplay ==
  ASSUME DisplayInv, LinkTypes, Inform
  PROVE  DisplayInv'
  <1>1. /\ streamIdx \in 1 .. Len(display) /\ turns > 0 /\ Len(display) \in Nat
    BY Streaming DEF Inform
  <1>2. Line("inform", 0) \in Lines
    BY LineTypes DEF Kinds
  <1>3. /\ display \in Seq(Lines) /\ display' = InsertAt(display, streamIdx, Line("inform", 0))
        /\ streamIdx' = streamIdx + 1
    BY DEF DisplayInv, Inform, InsertBeforeStream
  <1>4. display' \in Seq(Lines) /\ Len(display') = Len(display) + 1
    BY <1>1, <1>2, <1>3, Inserted
  <1>5. UNCHANGED <<chunks, slots, overflow, calls, quit, turns, reader>>
    BY DEF Inform, procs
  <1>6. \A k \in 1 .. Len(slots) : slots[k] \in 1 .. Len(display')
    BY <1>1, <1>4 DEF DisplayInv
  <1>7. streamIdx' \in Nat \ {0} /\ streamIdx' <= Len(display') /\ overflow \in 0 .. Len(display')
    BY <1>1, <1>3, <1>4 DEF DisplayInv
  <1> QED BY <1>4, <1>5, <1>6, <1>7 DEF DisplayInv

\* The final text is written into the line of the stream.
LEMMA DoneDisplay ==
  ASSUME DisplayInv, LinkTypes, Done
  PROVE  DisplayInv'
  <1>1. /\ streamIdx \in 1 .. Len(display) /\ turns > 0 /\ Len(display) \in Nat /\ display \in Seq(Lines)
    BY Streaming DEF Done, DisplayInv
  <1>2. display' \in Seq(Lines) /\ Len(display') = Len(display)
    <2>1. CASE display' = display
      BY <1>1, <2>1
    <2>2. CASE display' = [display EXCEPT ![streamIdx].kind = "answer"]
      <3> DEFINE l == [display[streamIdx] EXCEPT !.kind = "answer"]
      <3>1. l \in Lines
        BY <1>1, LineTypes
      <3>2. display' = [display EXCEPT ![streamIdx] = l]
        BY <2>2
      <3> HIDE DEF l
      <3> QED BY <1>1, <3>1, <3>2
    <2> QED BY <2>1, <2>2 DEF Done
  <1>3. UNCHANGED <<streamIdx, slots, overflow, calls, quit, turns>> /\ chunks' = 0 /\ reader' = "none"
    BY DEF Done
  <1> QED BY <1>2, <1>3 DEF DisplayInv

\* An error comes below everything else.
LEMMA ErrorDisplay ==
  ASSUME DisplayInv, Error
  PROVE  DisplayInv'
  <1>1. Line("error", 0) \in Lines /\ display \in Seq(Lines)
    BY LineTypes DEF Kinds, DisplayInv
  <1>2. display' \in Seq(Lines) /\ Len(display') = Len(display) + 1 /\ Len(display) \in Nat
    BY <1>1 DEF Error
  <1>3. UNCHANGED <<streamIdx, chunks, slots, overflow, calls, quit, turns>> /\ reader' = "none"
    BY DEF Error
  <1>4. \A k \in 1 .. Len(slots) : slots[k] \in 1 .. Len(display')
    BY <1>2 DEF DisplayInv
  <1>5. overflow \in 0 .. Len(display') /\ (~ quit /\ turns > 0 => streamIdx <= Len(display'))
    BY <1>2 DEF DisplayInv
  <1> QED BY <1>2, <1>3, <1>4, <1>5 DEF DisplayInv

\* A turn begins with three lines and no tool call.
LEMMA EnterDisplay ==
  ASSUME DisplayInv, LinkTypes, Enter
  PROVE  DisplayInv'
  <1>0. turns \in Nat /\ turns + 1 \in Nat
    BY DEF LinkTypes
  <1> DEFINE new == <<Line("user", turns + 1), Line("agent", 0), Line("stream", 0)>>
  <1>1. Line("user", turns + 1) \in Lines /\ Line("agent", 0) \in Lines /\ Line("stream", 0) \in Lines
    BY <1>0, LineTypes DEF Kinds
  <1>2. new \in Seq(Lines) /\ Len(new) = 3
    BY <1>1
  <1>3. display \in Seq(Lines) /\ display' = display \o new
    BY DEF DisplayInv, Enter
  <1> HIDE DEF new
  <1>4. display' \in Seq(Lines) /\ Len(display') = Len(display) + 3 /\ Len(display) \in Nat
    <2>1. display \o new \in Seq(Lines) /\ Len(display \o new) = Len(display) + Len(new)
      BY <1>2, <1>3, ConcatProperties, Zenon
    <2> QED BY <1>2, <1>3, <2>1
  <1>5. /\ streamIdx' = Len(display') /\ chunks' = 0 /\ calls' = 0 /\ slots' = <<>> /\ overflow' = 0
        /\ quit' = quit /\ turns' = turns + 1
    BY DEF Enter
  <1>6. streamIdx' \in Nat \ {0} /\ turns' > 0
    BY <1>0, <1>4, <1>5
  <1>7. slots' \in Seq(Nat) /\ Len(slots') = 0 /\ ~ (calls' > MaxToolCalls)
    BY <1>5
  <1> QED BY <1>4, <1>5, <1>6, <1>7 DEF DisplayInv

\* The screen goes with the program.
LEMMA EmptyDisplay ==
  ASSUME DisplayInv, LinkInv, CtrlC
  PROVE  DisplayInv'
  <1>1. /\ display' = <<>> /\ streamIdx' = 1 /\ chunks' = 0 /\ slots' = <<>> /\ overflow' = 0
        /\ calls' = 0 /\ quit' = TRUE /\ reader' = "none"
    BY DEF CtrlC, Exit
  <1>2. /\ display' \in Seq(Lines) /\ Len(display') = 0 /\ slots' \in Seq(Nat) /\ Len(slots') = 0
        /\ ~ (calls' > MaxToolCalls)
    BY <1>1
  <1> QED BY <1>1, <1>2 DEF DisplayInv

\* The session is there, or the display says that it is not.
LEMMA CreatedDisplay ==
  ASSUME DisplayInv, LinkInv, Created
  PROVE  DisplayInv'
  <1>1. /\ display = <<>> /\ (display' = display \/ display' = <<Line("error", 0)>>) /\ sessionID = 0
        /\ UNCHANGED <<streamIdx, chunks, slots, overflow, calls, quit, turns, reader>>
    BY DEF Created
  <1>2. turns = 0
    BY <1>1 DEF LinkInv, StartInv
  <1>3. Line("error", 0) \in Lines /\ display \in Seq(Lines) /\ Len(display) = 0
    BY <1>1, LineTypes DEF Kinds
  <1>4. display' \in Seq(Lines) /\ Len(display') \in Nat
    <2>1. \A l \in Lines : <<l>> \in Seq(Lines)
      OBVIOUS
    <2>2. display' \in Seq(Lines)
      BY <1>1, <1>3, <2>1, Zenon
    <2> QED BY <2>2
  <1>5. (\A k \in 1 .. Len(slots) : slots[k] \in 1 .. Len(display')) /\ overflow \in 0 .. Len(display')
    BY <1>3, <1>4 DEF DisplayInv
  <1> QED BY <1>1, <1>2, <1>4, <1>5 DEF DisplayInv

-----------------------------------------------------------------------------
(* The lines of the tool calls                                             *)

\* The new line moves the stream; the slots stay where they are.
LEMMA NewSlotDisplay ==
  ASSUME DisplayInv, turns > 0, streamIdx \in 1 .. Len(display), UNCHANGED <<turns, quit, reader, chunks>>,
         NEW line \in Lines, NewSlot(line), calls' = calls + 1, calls' <= MaxToolCalls
  PROVE  DisplayInv'
  <1>0. display \in Seq(Lines) /\ Len(display) \in Nat /\ calls \in Nat /\ slots \in Seq(Nat)
    BY DEF DisplayInv
  <1>1. /\ display' = InsertAt(display, streamIdx, line) /\ streamIdx' = streamIdx + 1
        /\ slots' = Append(slots, streamIdx) /\ overflow' = overflow
    BY DEF NewSlot, InsertBeforeStream
  <1>2. display' \in Seq(Lines) /\ Len(display') = Len(display) + 1
    BY <1>0, <1>1, Inserted
  <1>3. calls <= MaxToolCalls /\ Len(slots) = calls /\ overflow = 0
    BY <1>0 DEF DisplayInv
  <1>4. /\ slots' \in Seq(Nat) /\ Len(slots') = Len(slots) + 1 /\ slots'[Len(slots) + 1] = streamIdx
        /\ \A k \in 1 .. Len(slots) : slots'[k] = slots[k]
    BY <1>0, <1>1
  <1>5. \A k \in 1 .. Len(slots) : slots[k] \in 1 .. Len(display')
    BY <1>0, <1>2 DEF DisplayInv
  <1> DEFINE l == Len(slots)
  <1>6. \A k \in 1 .. Len(slots') : slots'[k] \in 1 .. Len(display')
    <2>1. l \in Nat /\ Len(slots') = l + 1 /\ streamIdx \in 1 .. Len(display')
      BY <1>0, <1>2, <1>4
    <2>2. slots'[l + 1] = streamIdx /\ \A k \in 1 .. l : slots'[k] \in 1 .. Len(display')
      BY <1>4, <1>5
    <2> HIDE DEF l
    <2>3. \A k \in 1 .. l + 1 : k \in 1 .. l \/ k = l + 1
      BY <2>1
    <2> QED BY <2>1, <2>2, <2>3, Zenon
  <1>7. streamIdx' \in Nat \ {0} /\ streamIdx' <= Len(display') /\ overflow' \in 0 .. Len(display')
    BY <1>0, <1>1, <1>2, <1>3
  <1>8. calls' \in Nat /\ Len(slots') = calls' /\ ~ (calls' > MaxToolCalls)
    BY <1>0, <1>3, <1>4
  <1> QED BY <1>1, <1>2, <1>3, <1>4, <1>6, <1>7, <1>8 DEF DisplayInv

\* The first line of the full window becomes the summary.
LEMMA OverflowDisplay ==
  ASSUME DisplayInv, turns > 0, streamIdx \in 1 .. Len(display), UNCHANGED <<turns, quit, reader, chunks>>,
         NEW line \in Lines, NEW more \in Lines, FirstOverflow(line, more),
         calls' = calls + 1, ~ (calls' <= MaxToolCalls), overflow = 0
  PROVE  DisplayInv'
  <1>0. display \in Seq(Lines) /\ Len(display) \in Nat /\ calls \in Nat /\ slots \in Seq(Nat)
    BY DEF DisplayInv
  <1>1. Len(slots) = MaxToolCalls /\ calls = MaxToolCalls /\ 1 \in 1 .. Len(slots)
    <2>1. ~ (calls > MaxToolCalls)
      BY DEF DisplayInv
    <2>2. calls <= MaxToolCalls /\ calls = MaxToolCalls
      BY <1>0, <2>1
    <2> QED BY <1>0, <2>2 DEF DisplayInv
  <1>2. Head(slots) = slots[1] /\ slots[1] \in 1 .. Len(display)
    BY <1>0, <1>1 DEF DisplayInv
  <1> DEFINE d == [display EXCEPT ![slots[1]] = more]
  <1>3. d \in Seq(Lines) /\ Len(d) = Len(display)
    BY <1>0, <1>2
  <1>4. /\ display' = InsertAt(d, streamIdx, line) /\ streamIdx' = streamIdx + 1
        /\ slots' = Append(Tail(slots), streamIdx) /\ overflow' = slots[1]
    BY <1>2 DEF FirstOverflow
  <1> HIDE DEF d
  <1>5. display' \in Seq(Lines) /\ Len(display') = Len(display) + 1
    <2>1. streamIdx \in 1 .. Len(d)
      BY <1>3
    <2> QED BY <1>3, <1>4, <2>1, Inserted
  <1> DEFINE t == Tail(slots)
             l == Len(t)
  <1>6. /\ t \in Seq(Nat) /\ l = MaxToolCalls - 1 /\ l \in Nat
        /\ \A k \in 1 .. l : k + 1 \in 1 .. Len(slots) /\ t[k] = slots[k + 1]
    <2>1. slots # <<>>
      BY <1>1
    <2> QED BY <1>0, <1>1, <2>1
  <1>7. \A k \in 1 .. l : t[k] \in 1 .. Len(display')
    <2>1. \A k \in 1 .. Len(slots) : slots[k] \in 1 .. Len(display')
      BY <1>0, <1>5 DEF DisplayInv
    <2> QED BY <1>6, <2>1, Zenon
  <1>b. slots' = Append(t, streamIdx) /\ streamIdx \in Nat
    BY <1>0, <1>4
  <1> HIDE DEF t
  <1>8. /\ slots' \in Seq(Nat) /\ Len(slots') = l + 1 /\ slots'[l + 1] = streamIdx
        /\ \A k \in 1 .. l : slots'[k] = t[k]
    BY <1>6, <1>b
  <1> HIDE DEF l
  <1>9. \A k \in 1 .. Len(slots') : slots'[k] \in 1 .. Len(display')
    <2>1. \A k \in 1 .. l + 1 : k \in 1 .. l \/ k = l + 1
      BY <1>6
    <2>2. streamIdx \in 1 .. Len(display')
      BY <1>0, <1>5
    <2> QED BY <1>7, <1>8, <2>1, <2>2, Zenon
  <1>10. /\ streamIdx' \in Nat \ {0} /\ streamIdx' <= Len(display')
         /\ overflow' \in 0 .. Len(display') /\ overflow' # 0
    BY <1>0, <1>2, <1>4, <1>5
  <1>11. calls' \in Nat /\ calls' > MaxToolCalls /\ Len(slots') = MaxToolCalls
    BY <1>0, <1>1, <1>6, <1>8
  <1> QED BY <1>4, <1>5, <1>8, <1>9, <1>10, <1>11 DEF DisplayInv

\* The lines move up within the window: no line is read outside the display.
LEMMA ShiftDisplay ==
  ASSUME DisplayInv, turns > 0, streamIdx \in 1 .. Len(display), UNCHANGED <<turns, quit, reader, chunks>>,
         NEW line \in Lines, NEW more \in Lines, ShiftSlots(line, more),
         calls' = calls + 1, ~ (calls' <= MaxToolCalls), overflow # 0
  PROVE  DisplayInv'
  <1>0. display \in Seq(Lines) /\ Len(display) \in Nat /\ calls \in Nat /\ slots \in Seq(Nat)
    BY DEF DisplayInv
  <1> DEFINE J(i) == CHOOSE j \in DOMAIN slots : slots[j] = i
             f(i) == IF i = overflow THEN more
                     ELSE IF i = Last(slots) THEN line
                     ELSE IF i \in Range(slots) THEN display[slots[J(i) + 1]]
                     ELSE display[i]
  <1>1. display' = [i \in DOMAIN display |-> f(i)] /\ UNCHANGED <<streamIdx, slots, overflow>>
    BY DEF ShiftSlots
  <1>2. ASSUME NEW i \in 1 .. Len(display) PROVE f(i) \in Lines
    <2>1. ASSUME i # Last(slots), i \in Range(slots) PROVE display[slots[J(i) + 1]] \in Lines
      <3>1. \E j \in DOMAIN slots : slots[j] = i
        BY <2>1 DEF Range
      <3> DEFINE j == J(i)
      <3>2. j \in DOMAIN slots /\ slots[j] = i
        BY <3>1
      <3> HIDE DEF j
      <3>3. j # Len(slots)
        BY <2>1, <3>2 DEF Last
      <3>4. j + 1 \in 1 .. Len(slots)
        BY <1>0, <3>2, <3>3
      <3>5. slots[j + 1] \in 1 .. Len(display)
        BY <3>4 DEF DisplayInv
      <3>6. display[slots[j + 1]] \in Lines
        BY <1>0, <3>5
      <3> QED BY <3>6 DEF j
    <2>2. display[i] \in Lines
      BY <1>0
    <2> QED BY <2>1, <2>2
  <1> HIDE DEF f
  <1>3. display' \in Seq(Lines) /\ Len(display') = Len(display)
    <2>1. DOMAIN display = 1 .. Len(display)
      BY <1>0
    <2>2. display' = [i \in 1 .. Len(display) |-> f(i)]
      BY <1>1, <2>1
    <2> QED BY <1>0, <1>2, <2>2
  <1>4. calls > MaxToolCalls
    BY <1>0 DEF DisplayInv
  <1>5. calls' \in Nat /\ calls' > MaxToolCalls /\ Len(slots) = MaxToolCalls
    BY <1>0, <1>4 DEF DisplayInv
  <1> QED BY <1>1, <1>3, <1>5 DEF DisplayInv

\* A tool call below the limit, at the limit, or beyond it.
LEMMA ToolCallDisplay ==
  ASSUME DisplayInv, LinkTypes, ToolCall
  PROVE  DisplayInv'
  <1>1. /\ streamIdx \in 1 .. Len(display) /\ turns > 0 /\ Len(display) \in Nat
        /\ Head(toClient).n \in Nat
    BY Streaming DEF ToolCall
  <1>2. UNCHANGED <<turns, quit, reader, chunks>> /\ calls' = calls + 1 /\ calls \in Nat
    BY DEF ToolCall, procs, DisplayInv
  <1> DEFINE line == Line("tool", Head(toClient).n)
             more == Line("more", calls' - MaxToolCalls)
  <1>3. line \in Lines
    BY <1>1, LineTypes DEF Kinds
  <1>4. IF calls' <= MaxToolCalls THEN NewSlot(line)
        ELSE IF overflow = 0 THEN FirstOverflow(line, more) ELSE ShiftSlots(line, more)
    BY DEF ToolCall
  <1> HIDE DEF line
  <1>5. CASE calls' <= MaxToolCalls
    BY <1>1, <1>2, <1>3, <1>4, <1>5, NewSlotDisplay
  <1>6. CASE ~ (calls' <= MaxToolCalls)
    <2>1. more \in Lines
      <3>1. calls' - MaxToolCalls \in Nat
        BY <1>2, <1>6
      <3> QED BY <3>1, LineTypes DEF Kinds
    <2> HIDE DEF more
    <2>2. CASE overflow = 0
      BY <1>1, <1>2, <1>3, <1>4, <1>6, <2>1, <2>2, OverflowDisplay
    <2>3. CASE overflow # 0
      BY <1>1, <1>2, <1>3, <1>4, <1>6, <2>1, <2>3, ShiftDisplay
    <2> QED BY <2>2, <2>3
  <1> QED BY <1>5, <1>6

\* Every step keeps the indices into the display in range.
LEMMA DisplayStep ==
  ASSUME LinkInv, DisplayInv, [Next]_vars
  PROVE  DisplayInv'
  <1>0. LinkTypes
    BY DEF LinkInv
  <1> DEFINE Same == UNCHANGED <<display, streamIdx, chunks, slots, overflow, calls, quit, turns>>
  <1>1. CASE Server
    <2>1. Same /\ reader' = reader
      BY <1>1 DEF Server, DispatchCreate, DispatchList, DispatchMessage, DispatchInterrupt, DispatchClose,
                  CloseSession, screen, procs
    <2> QED BY <2>1, SameScreen
  <1>2. CASE Turn
    <2>1. Same /\ reader' = reader
      BY <1>2 DEF Turn, TurnStart, Clean, TurnEvent, TurnEnd, screen, procs
    <2> QED BY <2>1, SameScreen
  <1>3. CASE FetchSend \/ FetchRead \/ EventLost \/ EventShared \/ UNCHANGED vars
    <2>1. Same /\ reader' = reader
      BY <1>3 DEF FetchSend, FetchRead, EventLost, EventShared, vars, screen, procs
    <2> QED BY <2>1, SameScreen
  <1>4. CASE SendMessage \/ TodoSnapshot \/ Ignore
    <2>1. Same /\ (reader' # "none" => reader # "none")
      BY <1>4 DEF SendMessage, TodoSnapshot, Ignore, screen, procs
    <2> QED BY <2>1, SameScreen
  <1>5. CASE (\E i \in Inputs : Type(i)) \/ Select \/ Complete \/ Tick \/ Esc
    <2>1. Same /\ reader' = reader
      BY <1>5 DEF Type, Select, Complete, Tick, Esc, screen, procs
    <2> QED BY <2>1, SameScreen
  <1>6. CASE Reader
    BY <1>0, <1>4, <1>6, ChunkDisplay, InformDisplay, ToolCallDisplay, DoneDisplay, ErrorDisplay DEF Reader
  <1>7. CASE Keys
    BY <1>0, <1>5, <1>7, EnterDisplay, EmptyDisplay DEF Keys
  <1> QED BY <1>1, <1>2, <1>3, <1>6, <1>7, CreatedDisplay DEF Next

-----------------------------------------------------------------------------
(* What the screen shows                                                   *)

\* InsertAt puts the line at its place and moves the line there and those below down by one.
LEMMA Placed ==
  ASSUME NEW S, NEW s \in Seq(S), NEW i \in 1 .. Len(s), NEW e \in S
  PROVE  LET d == InsertAt(s, i, e)
         IN  /\ \A j \in 1 .. i - 1 : d[j] = s[j]
             /\ d[i] = e
             /\ \A j \in i .. Len(s) : d[j + 1] = s[j]
  <1> DEFINE a == SubSeq(s, 1, i - 1)
             b == SubSeq(s, i, Len(s))
             w == <<e>>
             c == a \o w
  <1>0. Len(s) \in Nat /\ i \in Int /\ i - 1 \in Int /\ \A j \in 1 .. Len(s) : s[j] \in S
    OBVIOUS
  <1>1. (\A j \in 1 .. i - 1 : s[j] \in S) /\ \A j \in i .. Len(s) : s[j] \in S
    BY <1>0
  <1>2. a \in Seq(S) /\ Len(a) = i - 1 /\ \A j \in 1 .. i - 1 : a[j] = s[j]
    <2>1. /\ a \in Seq(S) /\ Len(a) = IF 1 <= i - 1 THEN i - 1 - 1 + 1 ELSE 0
          /\ \A j \in 1 .. i - 1 - 1 + 1 : a[j] = s[1 + j - 1]
      BY <1>0, <1>1, SubSeqProperties
    <2> HIDE DEF a
    <2>2. \A j \in 1 .. i - 1 : j \in 1 .. i - 1 - 1 + 1 /\ 1 + j - 1 = j
      BY <1>0
    <2> QED BY <1>0, <2>1, <2>2
  <1>3. b \in Seq(S) /\ Len(b) = Len(s) - i + 1 /\ \A j \in i .. Len(s) : b[j - i + 1] = s[j]
    <2>1. /\ b \in Seq(S) /\ Len(b) = IF i <= Len(s) THEN Len(s) - i + 1 ELSE 0
          /\ \A j \in 1 .. Len(s) - i + 1 : b[j] = s[i + j - 1]
      BY <1>0, <1>1, SubSeqProperties
    <2> HIDE DEF b
    <2>2. ASSUME NEW j \in i .. Len(s) PROVE b[j - i + 1] = s[j]
      <3>1. j - i + 1 \in 1 .. Len(s) - i + 1 /\ i + (j - i + 1) - 1 = j
        BY <1>0
      <3> QED BY <2>1, <3>1
    <2> QED BY <1>0, <2>1, <2>2
  <1>4. InsertAt(s, i, e) = c \o b
    BY DEF InsertAt
  <1> HIDE DEF a, b
  <1>5. w \in Seq(S) /\ Len(w) = 1 /\ w[1] = e
    OBVIOUS
  <1> HIDE DEF w
  <1>6. /\ c \in Seq(S) /\ Len(c) = i /\ c[i] = e
        /\ \A j \in 1 .. i - 1 : c[j] = a[j]
    <2>1. /\ c \in Seq(S) /\ Len(c) = Len(a) + Len(w)
          /\ \A j \in 1 .. Len(a) + Len(w) : c[j] = IF j <= Len(a) THEN a[j] ELSE w[j - Len(a)]
      <3>a. a \in Seq(S) /\ w \in Seq(S)
        BY <1>2, <1>5
      <3>1. \A j \in 1 .. Len(a) + Len(w) : (a \o w)[j] = IF j <= Len(a) THEN a[j] ELSE w[j - Len(a)]
        BY <3>a, ConcatProperties
      <3>2. a \o w \in Seq(S) /\ Len(a \o w) = Len(a) + Len(w)
        BY <1>2, <1>5, ConcatProperties
      <3> QED BY <3>1, <3>2, Zenon
    <2> HIDE DEF c
    <2>2. i \in 1 .. Len(a) + Len(w) /\ ~ (i <= Len(a)) /\ i - Len(a) = 1
      BY <1>0, <1>2, <1>5
    <2>3. \A j \in 1 .. i - 1 : j \in 1 .. Len(a) + Len(w) /\ j <= Len(a)
      BY <1>0, <1>2, <1>5
    <2>4. Len(c) = i
      BY <1>0, <1>2, <1>5, <2>1
    <2> QED BY <1>5, <2>1, <2>2, <2>3, <2>4
  <1> HIDE DEF c
  <1>7. \A j \in 1 .. i + Len(b) : (c \o b)[j] = IF j <= i THEN c[j] ELSE b[j - i]
    <2>1. \A j \in 1 .. Len(c) + Len(b) : (c \o b)[j] = IF j <= Len(c) THEN c[j] ELSE b[j - Len(c)]
      BY <1>3, <1>6, ConcatProperties
    <2>2. Len(c) = i
      BY <1>6
    <2> QED BY <2>1, <2>2, Zenon
  <1> DEFINE d == InsertAt(s, i, e)
  <1>8. \A j \in 1 .. i + Len(b) : d[j] = IF j <= i THEN c[j] ELSE b[j - i]
    BY <1>4, <1>7, Zenon
  <1> HIDE DEF d
  <1>9. \A j \in 1 .. i - 1 : d[j] = s[j]
    <2>1. \A j \in 1 .. i - 1 : j \in 1 .. i + Len(b) /\ j <= i
      BY <1>0, <1>3
    <2> QED BY <1>2, <1>6, <1>8, <2>1
  <1>10. d[i] = e
    <2>1. i \in 1 .. i + Len(b) /\ i <= i
      BY <1>0, <1>3
    <2> QED BY <1>6, <1>8, <2>1
  <1>11. ASSUME NEW j \in i .. Len(s) PROVE d[j + 1] = s[j]
    <2>1. j + 1 \in 1 .. i + Len(b) /\ ~ (j + 1 <= i) /\ j + 1 - i = j - i + 1
      BY <1>0, <1>3
    <2> QED BY <1>3, <1>8, <2>1
  <1> QED BY <1>9, <1>10, <1>11 DEF d

\* The message of the turn and the lines about its tool calls are above the stream.
Turned == \E u \in 1 .. Len(display) : Begins(u) /\ Slotted(u) /\ Filled(u)

\* Steps that change lines at the stream or below it, and not to ones about tool calls.
LEMMA AboveKept ==
  ASSUME DisplayInv, Numbers, Turned, DisplayInv', UNCHANGED <<turns, slots, overflow, calls, seen>>,
         streamIdx \in 1 .. Len(display), streamIdx \in 1 .. Len(display'), streamIdx <= streamIdx',
         \A i \in 1 .. streamIdx - 1 : display'[i] = display[i],
         \A i \in streamIdx .. Len(display') : display'[i].kind \notin {"user", "tool", "more"}
  PROVE  Numbers' /\ Turned'
  <1>0. Len(display') \in Nat /\ Len(display) \in Nat /\ streamIdx \in Nat /\ streamIdx' \in Nat
    BY DEF DisplayInv
  <1>1. PICK u \in 1 .. Len(display) : Begins(u) /\ Slotted(u) /\ Filled(u)
    BY DEF Turned
  <1>2. \A i \in 1 .. Len(display') : display'[i].kind \in {"user", "tool", "more"} => i \in 1 .. streamIdx - 1
    BY <1>0
  <1>3. \A i \in 1 .. streamIdx - 1 : i \in 1 .. Len(display) /\ i \in 1 .. Len(display')
    BY <1>0
  <1>4. Line("user", turns).kind = "user"
    BY DEF Line
  <1>5. Numbers'
    BY <1>2, <1>3 DEF Numbers
  <1>6. u \in 1 .. streamIdx - 1
    BY <1>0, <1>1 DEF Begins
  <1>7. Begins(u)'
    <2>1. display'[u] = Line("user", turns)' /\ u < streamIdx'
      BY <1>0, <1>1, <1>6 DEF Begins, Line
    <2>2. ASSUME NEW i \in 1 .. Len(display'), display'[i] = Line("user", turns') PROVE i = u
      BY <1>1, <1>2, <1>3, <1>4, <2>2 DEF Begins
    <2> QED BY <2>1, <2>2 DEF Begins, Line
  <1>8. Slotted(u)'
    BY <1>0, <1>1 DEF Slotted, DisplayInv
  <1>9. (\A k \in 1 .. Len(slots) : slots[k] \in 1 .. streamIdx - 1) /\ (overflow # 0 => overflow \in 1 .. streamIdx - 1)
    BY <1>0, <1>1 DEF Slotted, DisplayInv
  <1>10. Filled(u)'
    <2>1. \A k \in 1 .. Len(slots') : display'[slots'[k]] = Line("tool", seen'[Len(seen') - Len(slots') + k])
      BY <1>1, <1>9 DEF Filled
    <2>2. overflow' # 0 => display'[overflow'] = Line("more", calls' - MaxToolCalls)
      BY <1>1, <1>9 DEF Filled
    <2>3. ASSUME NEW i \in 1 .. Len(display'), u <= i, display'[i].kind \in {"tool", "more"}
          PROVE  i = overflow' \/ \E k \in 1 .. Len(slots') : slots'[k] = i
      BY <1>1, <1>2, <1>3, <2>3 DEF Filled
    <2> QED BY <2>1, <2>2, <2>3 DEF Filled, Line
  <1>11. u \in 1 .. Len(display')
    BY <1>3, <1>6
  <1> QED BY <1>5, <1>7, <1>8, <1>10, <1>11 DEF Turned

\* A chunk, a status line, the end of the turn or an error.
LEMMA StreamScreen ==
  ASSUME LinkInv, DisplayInv, DisplayInv', ScreenInv, Chunk \/ Inform \/ Done \/ Error
  PROVE  ScreenInv'
  <1>1. \E K : ReadEvent(K)
    BY DEF Chunk, Inform, Done, Error
  <1>2. /\ streamIdx \in 1 .. Len(display) /\ turns > 0 /\ Len(display) \in Nat /\ ~ quit
        /\ display \in Seq(Lines) /\ reader = "read"
    <2>1. reader = "read"
      BY <1>1 DEF ReadEvent
    <2> QED BY <1>1, <2>1, Streaming DEF LinkInv, DisplayInv
  <1>3. Streamed /\ Turned /\ Numbers /\ loading
    BY <1>2 DEF ScreenInv, LinkInv, ModeInv, Turned
  <1>4. UNCHANGED <<turns, slots, overflow, calls, seen, quit>>
    BY DEF Chunk, Inform, Done, Error, procs
  <1>5. SUFFICES ASSUME streamIdx \in 1 .. Len(display'), streamIdx <= streamIdx',
                        \A i \in 1 .. streamIdx - 1 : display'[i] = display[i],
                        \A i \in streamIdx .. Len(display') : display'[i].kind \notin {"user", "tool", "more"},
                        Streamed'
                 PROVE  ScreenInv'
    <2>1. CASE Chunk
      <3>1. /\ display' = [display EXCEPT ![streamIdx] = Line("stream", chunks + 1)]
            /\ streamIdx' = streamIdx /\ chunks' = chunks + 1
        BY <2>1 DEF Chunk
      <3> DEFINE l == Line("stream", chunks + 1)
      <3>2. l.kind = "stream" /\ l = Line("stream", chunks)'
        BY <3>1 DEF Line
      <3> HIDE DEF l
      <3>3. /\ Len(display') = Len(display) /\ display'[streamIdx] = l
            /\ \A i \in 1 .. Len(display) : i # streamIdx => display'[i] = display[i]
        BY <1>2, <3>1 DEF l
      <3>4. \A i \in 1 .. streamIdx - 1 : display'[i] = display[i]
        BY <1>2, <3>3
      <3>5. \A i \in streamIdx .. Len(display') : display'[i].kind \in {"stream", "answer", "error"}
        BY <1>2, <1>3, <3>2, <3>3 DEF Streamed
      <3>6. Streamed'
        BY <3>1, <3>2, <3>3, <3>5, <1>2 DEF Streamed
      <3> QED BY <1>2, <1>5, <3>1, <3>3, <3>4, <3>5, <3>6
    <2>2. CASE Inform
      <3>1. display' = InsertAt(display, streamIdx, Line("inform", 0)) /\ streamIdx' = streamIdx + 1
            /\ chunks' = chunks /\ loading' = loading
        BY <2>2 DEF Inform, InsertBeforeStream, session
      <3> DEFINE l == Line("inform", 0)
      <3>2. l \in Lines /\ l.kind = "inform" /\ display' = InsertAt(display, streamIdx, l)
        BY <3>1 DEF Lines, Line, Kinds
      <3> HIDE DEF l
      <3>3. /\ Len(display') = Len(display) + 1
            /\ \A j \in 1 .. streamIdx - 1 : display'[j] = display[j]
            /\ display'[streamIdx] = l
            /\ \A j \in streamIdx .. Len(display) : display'[j + 1] = display[j]
        <4>1. Len(InsertAt(display, streamIdx, l)) = Len(display) + 1
          BY <1>2, <3>2, Inserted
        <4> DEFINE d == InsertAt(display, streamIdx, l)
        <4>2. /\ \A j \in 1 .. streamIdx - 1 : d[j] = display[j]
              /\ d[streamIdx] = l
              /\ \A j \in streamIdx .. Len(display) : d[j + 1] = display[j]
          BY <1>2, <3>2, Placed
        <4>3. display' = d
          BY <3>2
        <4> HIDE DEF d
        <4> QED BY <4>1, <4>2, <4>3 DEF d
      <3>4. ASSUME NEW i \in streamIdx + 1 .. Len(display') PROVE display'[i].kind \in {"stream", "answer", "error"}
        <4>1. i - 1 \in streamIdx .. Len(display) /\ (i - 1) + 1 = i
          BY <1>2, <3>3
        <4>2. display'[i] = display[i - 1]
          BY <3>3, <4>1
        <4> QED BY <1>3, <4>1, <4>2 DEF Streamed
      <3>5. \A i \in streamIdx .. Len(display') : i = streamIdx \/ i \in streamIdx + 1 .. Len(display')
        BY <1>2, <3>3
      <3>6. \A i \in streamIdx .. Len(display') : display'[i].kind \notin {"user", "tool", "more"}
        BY <3>2, <3>3, <3>4, <3>5
      <3>7. display'[streamIdx'] = display[streamIdx]
        BY <1>2, <3>1, <3>3
      <3>8. Streamed'
        BY <1>3, <3>1, <3>4, <3>7 DEF Streamed, Line
      <3> QED BY <1>2, <1>5, <3>1, <3>3, <3>6, <3>8
    <2>3. CASE Done
      <3>1. /\ display' \in {display, [display EXCEPT ![streamIdx].kind = "answer"]}
            /\ streamIdx' = streamIdx /\ ~ loading'
        BY <2>3 DEF Done
      <3> DEFINE l == [display[streamIdx] EXCEPT !.kind = "answer"]
      <3>2. display[streamIdx] \in Lines
        BY <1>2
      <3>3. l.kind = "answer" /\ display' \in {display, [display EXCEPT ![streamIdx] = l]}
        BY <3>1, <3>2 DEF Lines
      <3> HIDE DEF l
      <3>4. /\ Len(display') = Len(display) /\ display'[streamIdx] \in {display[streamIdx], l}
            /\ \A i \in 1 .. Len(display) : i # streamIdx => display'[i] = display[i]
        BY <1>2, <3>3
      <3>5. \A i \in 1 .. streamIdx - 1 : display'[i] = display[i]
        BY <1>2, <3>4
      <3>6. display'[streamIdx].kind \in {"stream", "answer"}
        BY <1>3, <3>3, <3>4 DEF Streamed
      <3>7. \A i \in streamIdx .. Len(display') : display'[i].kind \in {"stream", "answer", "error"}
        BY <1>2, <1>3, <3>4, <3>6 DEF Streamed
      <3>8. Streamed'
        BY <3>1, <3>6, <3>7 DEF Streamed
      <3>9. streamIdx \in 1 .. Len(display') /\ streamIdx <= streamIdx'
        BY <1>2, <3>1, <3>4
      <3>10. \A i \in streamIdx .. Len(display') : display'[i].kind \notin {"user", "tool", "more"}
        BY <3>7
      <3> QED BY <1>5, <3>5, <3>8, <3>9, <3>10
    <2>4. CASE Error
      <3>1. display' = Append(display, Line("error", 0)) /\ streamIdx' = streamIdx /\ ~ loading'
        BY <2>4 DEF Error
      <3> DEFINE l == Line("error", 0)
      <3>2. l \in Lines /\ l.kind = "error" /\ display' = Append(display, l)
        BY <3>1 DEF Lines, Line, Kinds
      <3> HIDE DEF l
      <3>3. /\ Len(display') = Len(display) + 1 /\ display'[Len(display) + 1] = l
            /\ \A i \in 1 .. Len(display) : display'[i] = display[i]
        BY <1>2, <3>2
      <3>4. \A i \in 1 .. streamIdx - 1 : display'[i] = display[i]
        BY <1>2, <3>3
      <3>5. \A i \in streamIdx .. Len(display') : i = Len(display) + 1 \/ i \in streamIdx .. Len(display)
        BY <1>2, <3>3
      <3>6. \A i \in streamIdx .. Len(display) : i \in 1 .. Len(display)
        BY <1>2
      <3>7. \A i \in streamIdx .. Len(display') : display'[i].kind \in {"stream", "answer", "error"}
        BY <1>3, <3>2, <3>3, <3>5, <3>6 DEF Streamed
      <3>8. Streamed'
        BY <1>2, <1>3, <3>1, <3>3, <3>7 DEF Streamed
      <3> QED BY <1>2, <1>5, <3>1, <3>3, <3>4, <3>7, <3>8
    <2> QED BY <2>1, <2>2, <2>3, <2>4
  <1>6. Numbers' /\ Turned'
    BY <1>2, <1>3, <1>4, <1>5, AboveKept
  <1> QED BY <1>4, <1>5, <1>6 DEF ScreenInv, Turned

\* What is known of the lines of the turn when a tool call arrives.
LEMMA TurnShown ==
  ASSUME LinkInv, DisplayInv, ScreenInv, NEW K, ReadEvent(K)
  PROVE  /\ streamIdx \in 1 .. Len(display) /\ Len(display) \in Nat /\ display \in Seq(Lines)
         /\ slots \in Seq(Nat) /\ Len(slots) \in Nat /\ calls \in Nat /\ overflow \in Nat
         /\ seen \in Seq(Nat) /\ Len(seen) = calls /\ Head(toClient).n \in Nat
         /\ ~ quit /\ turns > 0 /\ loading /\ Streamed /\ Turned /\ Numbers
         /\ \A k \in 1 .. Len(slots) : slots[k] \in 1 .. streamIdx - 1
         /\ overflow # 0 => overflow \in 1 .. streamIdx - 1
  <1>1. /\ streamIdx \in 1 .. Len(display) /\ turns > 0 /\ Len(display) \in Nat /\ ~ quit
        /\ Head(toClient).n \in Nat
    BY Streaming DEF LinkInv
  <1>2. display \in Seq(Lines) /\ slots \in Seq(Nat) /\ Len(slots) \in Nat /\ calls \in Nat /\ overflow \in Nat
    BY <1>1 DEF DisplayInv
  <1>3. loading
    BY <1>1 DEF LinkInv, ModeInv, ReadEvent
  <1>4. Streamed /\ Turned /\ Numbers /\ seen \in Seq(Nat) /\ Len(seen) = calls
    BY <1>1 DEF ScreenInv, Turned
  <1>5. (\A k \in 1 .. Len(slots) : slots[k] < streamIdx) /\ (overflow # 0 => overflow < streamIdx)
    BY <1>4 DEF Turned, Slotted
  <1>6. \A k \in 1 .. Len(slots) : slots[k] \in 1 .. Len(display)
    BY DEF DisplayInv
  <1>7. \A k \in 1 .. Len(slots) : slots[k] \in 1 .. streamIdx - 1
    BY <1>1, <1>5, <1>6
  <1> QED BY <1>1, <1>2, <1>3, <1>4, <1>5, <1>7

\* The new line of a tool call is inserted above the stream: nothing else of the turn is
\* new, but that lines about tool calls may have changed.
LEMMA InsertedLine ==
  ASSUME LinkInv, DisplayInv, ScreenInv, NEW K, ReadEvent(K), NEW d \in Seq(Lines), Len(d) = Len(display),
         NEW line \in Lines, display' = InsertAt(d, streamIdx, line), streamIdx' = streamIdx + 1,
         line.kind = "tool", UNCHANGED <<chunks, loading>>,
         \A i \in streamIdx .. Len(display) : d[i] = display[i]
  PROVE  /\ Len(display') = Len(display) + 1
         /\ \A i \in 1 .. streamIdx - 1 : display'[i] = d[i]
         /\ display'[streamIdx] = line
         /\ \A i \in 1 .. Len(display') : i \in 1 .. streamIdx - 1 \/ i = streamIdx
                                          \/ display'[i].kind \in {"stream", "answer", "error"}
         /\ Streamed'
  <1>0. /\ streamIdx \in 1 .. Len(display) /\ Len(display) \in Nat /\ Streamed
    BY TurnShown
  <1> DEFINE D == InsertAt(d, streamIdx, line)
  <1>1. Len(D) = Len(display) + 1
    BY <1>0, Inserted
  <1>2. /\ \A j \in 1 .. streamIdx - 1 : D[j] = d[j]
        /\ D[streamIdx] = line
        /\ \A j \in streamIdx .. Len(d) : D[j + 1] = d[j]
    BY <1>0, Placed
  <1>3. display' = D
    OBVIOUS
  <1> HIDE DEF D
  <1>4. \A j \in streamIdx .. Len(display) : display'[j + 1] = display[j]
    BY <1>2, <1>3
  <1>5. ASSUME NEW i \in streamIdx + 1 .. Len(display') PROVE display'[i].kind \in {"stream", "answer", "error"}
    <2>1. i - 1 \in streamIdx .. Len(display) /\ (i - 1) + 1 = i
      BY <1>0, <1>1, <1>3
    <2>2. display'[i] = display[i - 1]
      BY <1>4, <2>1
    <2> QED BY <1>0, <2>1, <2>2 DEF Streamed
  <1>6. \A i \in 1 .. Len(display') : i \in 1 .. streamIdx - 1 \/ i = streamIdx \/ i \in streamIdx + 1 .. Len(display')
    BY <1>0, <1>1, <1>3
  <1>7. display'[streamIdx'] = display[streamIdx]
    BY <1>0, <1>4
  <1>8. Streamed'
    BY <1>0, <1>5, <1>7 DEF Streamed, Line
  <1>9. Len(display') = Len(display) + 1 /\ display'[streamIdx] = line
    BY <1>1, <1>2, <1>3
  <1>10. \A i \in 1 .. streamIdx - 1 : display'[i] = d[i]
    BY <1>2, <1>3
  <1> QED BY <1>5, <1>6, <1>8, <1>9, <1>10

\* A new slot below the others.
LEMMA NewSlotScreen ==
  ASSUME LinkInv, DisplayInv, ScreenInv, NEW K, ReadEvent(K), UNCHANGED <<turns, quit, chunks, loading>>,
         NEW n \in Nat, NewSlot(Line("tool", n)), seen' = Append(seen, n),
         calls' = calls + 1, calls' <= MaxToolCalls
  PROVE  ScreenInv'
  <1>0. /\ streamIdx \in 1 .. Len(display) /\ Len(display) \in Nat /\ display \in Seq(Lines)
        /\ slots \in Seq(Nat) /\ Len(slots) \in Nat /\ calls \in Nat
        /\ seen \in Seq(Nat) /\ Len(seen) = calls /\ Turned /\ Numbers
        /\ \A k \in 1 .. Len(slots) : slots[k] \in 1 .. streamIdx - 1
    BY TurnShown
  <1>1. Len(slots) = calls /\ overflow = 0 /\ overflow' = 0
    BY <1>0 DEF DisplayInv, NewSlot
  <1> DEFINE l == Len(slots)
             line == Line("tool", n)
  <1>2. line \in Lines /\ line.kind = "tool"
    BY DEF Line, Lines, Kinds
  <1>3. display' = InsertAt(display, streamIdx, line) /\ streamIdx' = streamIdx + 1 /\ slots' = Append(slots, streamIdx)
    BY DEF NewSlot, InsertBeforeStream
  <1>4. /\ Len(slots') = l + 1 /\ slots'[l + 1] = streamIdx /\ \A k \in 1 .. l : slots'[k] = slots[k]
    BY <1>0, <1>3
  <1>5. seen' \in Seq(Nat) /\ Len(seen') = l + 1 /\ seen'[l + 1] = n /\ \A k \in 1 .. l : seen'[k] = seen[k]
    BY <1>0, <1>1
  <1> HIDE DEF line
  <1>6. /\ Len(display') = Len(display) + 1
        /\ \A i \in 1 .. streamIdx - 1 : display'[i] = display[i]
        /\ display'[streamIdx] = line
        /\ \A i \in 1 .. Len(display') : i \in 1 .. streamIdx - 1 \/ i = streamIdx
                                         \/ display'[i].kind \in {"stream", "answer", "error"}
        /\ Streamed'
    BY <1>0, <1>2, <1>3, InsertedLine
  <1>l. l \in Nat
    BY <1>0
  <1> HIDE DEF l
  <1>7. PICK u \in 1 .. Len(display) : Begins(u) /\ Slotted(u) /\ Filled(u)
    BY <1>0 DEF Turned
  <1>8. u \in 1 .. streamIdx - 1
    BY <1>0, <1>7 DEF Begins
  <1>9. \A i \in 1 .. streamIdx - 1 : i \in 1 .. Len(display)
    BY <1>0
  <1>10. \A i \in 1 .. Len(display') : display'[i].kind = "user" => i \in 1 .. streamIdx - 1
    BY <1>2, <1>6
  <1>11. Numbers'
    BY <1>0, <1>6, <1>9, <1>10 DEF Numbers
  <1>12. Begins(u)'
    <2>1. Line("user", turns).kind = "user"
      BY DEF Line
    <2>2. ASSUME NEW i \in 1 .. Len(display'), display'[i] = Line("user", turns) PROVE i = u
      BY <1>6, <1>7, <1>9, <1>10, <2>1, <2>2 DEF Begins
    <2>3. display'[u] = Line("user", turns) /\ u < streamIdx'
      BY <1>0, <1>3, <1>6, <1>7, <1>8 DEF Begins
    <2> QED BY <2>2, <2>3 DEF Begins, Line
  <1>13. \A k \in 1 .. l + 1 : k \in 1 .. l \/ k = l + 1
    BY <1>l
  <1>14. Slotted(u)'
    <2>1. \A k \in 1 .. l : u < slots[k] /\ slots[k] < streamIdx
      BY <1>7 DEF Slotted, l
    <2>2. \A k \in 1 .. l + 1 : u < slots'[k] /\ slots'[k] < streamIdx'
      <3>1. streamIdx \in Nat /\ streamIdx' = streamIdx + 1 /\ u \in Nat /\ u < streamIdx
        BY <1>0, <1>3, <1>8
      <3>2. \A k \in 1 .. l : slots[k] \in Nat
        BY <1>0 DEF l
      <3>3. ASSUME NEW k \in 1 .. l PROVE u < slots'[k] /\ slots'[k] < streamIdx'
        BY <1>4, <2>1, <3>1, <3>2
      <3>4. u < slots'[l + 1] /\ slots'[l + 1] < streamIdx'
        BY <1>4, <3>1
      <3> QED BY <1>13, <3>3, <3>4
    <2>3. \A j, k \in 1 .. l : j < k => slots[j] < slots[k]
      BY <1>7 DEF Slotted, l
    <2>4. ASSUME NEW j \in 1 .. l + 1, NEW k \in 1 .. l + 1, j < k PROVE slots'[j] < slots'[k]
      <3>1. j \in 1 .. l /\ slots'[j] = slots[j]
        BY <1>0, <1>4, <2>4 DEF l
      <3>2. CASE k \in 1 .. l
        BY <1>4, <2>3, <2>4, <3>1, <3>2
      <3>3. CASE k = l + 1
        BY <1>4, <2>1, <3>1, <3>3
      <3> QED BY <1>13, <3>2, <3>3
    <2> QED BY <1>1, <1>4, <2>2, <2>4 DEF Slotted
  <1>15. Filled(u)'
    <2>1. \A k \in 1 .. l : display[slots[k]] = Line("tool", seen[Len(seen) - Len(slots) + k])
      BY <1>7 DEF Filled, l
    <2>2. \A k \in 1 .. l + 1 : Len(seen') - Len(slots') + k = k /\ Len(seen) - Len(slots) + k = k
      BY <1>0, <1>1, <1>4, <1>5 DEF l
    <2>3. \A k \in 1 .. l : display'[slots'[k]] = Line("tool", seen'[k])
      <3>1. \A k \in 1 .. l : k \in 1 .. l + 1 /\ display[slots[k]] = Line("tool", seen[k])
        <4>1. \A k \in 1 .. l : k \in 1 .. l + 1
          BY <1>l
        <4>2. \A k \in 1 .. l : Len(seen) - Len(slots) + k = k
          BY <2>2, <4>1
        <4> QED BY <2>1, <4>1, <4>2
      <3>2. \A k \in 1 .. l : display'[slots'[k]] = display[slots[k]]
        BY <1>0, <1>4, <1>6 DEF l
      <3> QED BY <1>5, <3>1, <3>2
    <2>4. display'[slots'[l + 1]] = Line("tool", seen'[l + 1])
      BY <1>4, <1>5, <1>6 DEF line
    <2>5. \A k \in 1 .. Len(slots') : display'[slots'[k]] = Line("tool", seen'[Len(seen') - Len(slots') + k])
      BY <1>4, <1>13, <2>2, <2>3, <2>4
    <2>6. ASSUME NEW i \in 1 .. Len(display'), u <= i, display'[i].kind \in {"tool", "more"}
          PROVE  i = overflow' \/ \E k \in 1 .. Len(slots') : slots'[k] = i
      <3>1. CASE i = streamIdx
        <4>1. l + 1 \in 1 .. Len(slots')
          BY <1>0, <1>4 DEF l
        <4> QED BY <1>4, <3>1, <4>1
      <3>2. CASE i \in 1 .. streamIdx - 1
        <4>1. PICK k \in 1 .. l : slots[k] = i
          <5>1. i \in 1 .. Len(display) /\ display[i].kind \in {"tool", "more"} /\ i # 0
            BY <1>6, <1>9, <2>6, <3>2
          <5> QED BY <1>1, <1>7, <2>6, <5>1 DEF Filled, l
        <4>2. k \in 1 .. Len(slots')
          BY <1>0, <1>4 DEF l
        <4> QED BY <1>4, <4>1, <4>2
      <3> QED BY <1>6, <2>6, <3>1, <3>2
    <2> QED BY <1>1, <2>5, <2>6 DEF Filled, Line
  <1>16. u \in 1 .. Len(display')
    BY <1>0, <1>6
  <1>17. Len(seen') = calls'
    BY <1>1, <1>5 DEF l
  <1> QED BY <1>5, <1>6, <1>11, <1>12, <1>14, <1>15, <1>16, <1>17 DEF ScreenInv

\* The window is full: its first line becomes the summary of one call.
LEMMA OverflowScreen ==
  ASSUME LinkInv, DisplayInv, ScreenInv, NEW K, ReadEvent(K), UNCHANGED <<turns, quit, chunks, loading>>,
         NEW n \in Nat, FirstOverflow(Line("tool", n), Line("more", calls' - MaxToolCalls)),
         seen' = Append(seen, n), calls' = calls + 1, ~ (calls' <= MaxToolCalls), overflow = 0
  PROVE  ScreenInv'
  <1>0. /\ streamIdx \in 1 .. Len(display) /\ Len(display) \in Nat /\ display \in Seq(Lines)
        /\ slots \in Seq(Nat) /\ Len(slots) \in Nat /\ calls \in Nat
        /\ seen \in Seq(Nat) /\ Len(seen) = calls /\ Turned /\ Numbers
        /\ \A k \in 1 .. Len(slots) : slots[k] \in 1 .. streamIdx - 1
    BY TurnShown
  <1> DEFINE m == MaxToolCalls
  <1>1. Len(slots) = m /\ calls = m /\ calls' - m = 1 /\ m \in Nat \ {0}
    <2>1. ~ (calls > MaxToolCalls)
      BY DEF DisplayInv
    <2>2. calls <= MaxToolCalls /\ calls = MaxToolCalls
      BY <1>0, <2>1
    <2> QED BY <1>0, <2>2 DEF DisplayInv
  <1> DEFINE line == Line("tool", n)
             more == Line("more", calls' - MaxToolCalls)
  <1>2. line \in Lines /\ line.kind = "tool" /\ more \in Lines /\ more.kind = "more"
    BY <1>1 DEF Line, Lines, Kinds
  <1>3. Head(slots) = slots[1] /\ slots[1] \in 1 .. streamIdx - 1 /\ slots[1] # 0 /\ 1 \in 1 .. m
    BY <1>0, <1>1
  <1> DEFINE d == [display EXCEPT ![slots[1]] = more]
  <1>4. /\ d \in Seq(Lines) /\ Len(d) = Len(display) /\ d[slots[1]] = more
        /\ \A i \in 1 .. Len(display) : i # slots[1] => d[i] = display[i]
    <2> HIDE DEF more
    <2>1. slots[1] \in 1 .. Len(display)
      BY <1>0, <1>3
    <2> QED BY <1>0, <1>2, <2>1
  <1>5. /\ display' = InsertAt(d, streamIdx, line) /\ streamIdx' = streamIdx + 1
        /\ slots' = Append(Tail(slots), streamIdx) /\ overflow' = slots[1]
    BY <1>3 DEF FirstOverflow
  <1>6. /\ Len(slots') = m /\ slots'[m] = streamIdx /\ \A k \in 1 .. m - 1 : slots'[k] = slots[k + 1]
    <2>1. slots # <<>>
      BY <1>1
    <2>2. /\ Tail(slots) \in Seq(Nat) /\ Len(Tail(slots)) = m - 1
          /\ \A k \in 1 .. m - 1 : Tail(slots)[k] = slots[k + 1]
      BY <1>0, <1>1, <2>1, HeadTailProperties
    <2> DEFINE t == Tail(slots)
    <2>3. t \in Seq(Nat) /\ Len(t) = m - 1 /\ slots' = Append(t, streamIdx) /\ \A k \in 1 .. m - 1 : t[k] = slots[k + 1]
      BY <1>5, <2>2
    <2> HIDE DEF t
    <2>a. streamIdx \in Nat
      BY <1>0
    <2> DEFINE l == Len(t)
    <2>4. Len(slots') = l + 1 /\ slots'[l + 1] = streamIdx /\ \A k \in 1 .. l : slots'[k] = t[k]
      BY <2>3, <2>a
    <2>5. l = m - 1 /\ l + 1 = m
      BY <1>1, <2>3
    <2> HIDE DEF l
    <2> QED BY <2>3, <2>4, <2>5
  <1>7. /\ seen' \in Seq(Nat) /\ Len(seen') = m + 1 /\ seen'[m + 1] = n
        /\ \A k \in 1 .. m : seen'[k] = seen[k]
    BY <1>0, <1>1
  <1> HIDE DEF line, d
  <1>8. \A i \in streamIdx .. Len(display) : d[i] = display[i]
    <2>1. \A i \in streamIdx .. Len(display) : i \in 1 .. Len(display) /\ i # slots[1]
      BY <1>0, <1>3
    <2> QED BY <1>4, <2>1
  <1>9. /\ Len(display') = Len(display) + 1
        /\ \A i \in 1 .. streamIdx - 1 : display'[i] = d[i]
        /\ display'[streamIdx] = line
        /\ \A i \in 1 .. Len(display') : i \in 1 .. streamIdx - 1 \/ i = streamIdx
                                         \/ display'[i].kind \in {"stream", "answer", "error"}
        /\ Streamed'
    BY <1>2, <1>4, <1>5, <1>8, InsertedLine
  <1>10. PICK u \in 1 .. Len(display) : Begins(u) /\ Slotted(u) /\ Filled(u)
    BY <1>0 DEF Turned
  <1>11. u \in 1 .. streamIdx - 1 /\ u < slots[1]
    <2>1. 1 \in 1 .. Len(slots)
      BY <1>1
    <2>2. u < slots[1] /\ u < streamIdx
      BY <1>10, <2>1 DEF Begins, Slotted
    <2> QED BY <1>0, <2>2
  <1>12. /\ \A i \in 1 .. streamIdx - 1 : i \in 1 .. Len(display)
         /\ \A i \in 1 .. streamIdx - 1 : i # slots[1] => display'[i] = display[i]
         /\ display'[slots[1]] = more
    <2>1. \A i \in 1 .. streamIdx - 1 : i \in 1 .. Len(display)
      BY <1>0
    <2> QED BY <1>3, <1>4, <1>9, <2>1
  <1>13. \A i \in 1 .. Len(display') : display'[i].kind = "user" => i \in 1 .. streamIdx - 1 /\ i # slots[1]
    BY <1>2, <1>9, <1>12
  <1>14. Numbers'
    BY <1>0, <1>12, <1>13 DEF Numbers
  <1>15. Begins(u)'
    <2>1. Line("user", turns).kind = "user"
      BY DEF Line
    <2>2. ASSUME NEW i \in 1 .. Len(display'), display'[i] = Line("user", turns) PROVE i = u
      BY <1>10, <1>12, <1>13, <2>1, <2>2 DEF Begins
    <2>3. display'[u] = Line("user", turns) /\ u < streamIdx'
      <3>1. u # slots[1] /\ u < streamIdx + 1
        BY <1>0, <1>3, <1>11
      <3> QED BY <1>5, <1>10, <1>11, <1>12, <3>1 DEF Begins
    <2> QED BY <2>2, <2>3 DEF Begins, Line
  <1>16. /\ \A k \in 1 .. m : k \in 1 .. m - 1 \/ k = m
         /\ \A k \in 1 .. m - 1 : k + 1 \in 1 .. m /\ 1 < k + 1 /\ k \in 1 .. m
         /\ \A k \in 1 .. m : slots[k] \in 1 .. streamIdx - 1
         /\ \A j, k \in 1 .. m : j < k => slots[j] < slots[k]
         /\ \A k \in 1 .. m : u < slots[k]
    <2>1. \A k \in 1 .. m : slots[k] \in 1 .. streamIdx - 1
      BY <1>0, <1>1
    <2>2. (\A j, k \in 1 .. m : j < k => slots[j] < slots[k]) /\ \A k \in 1 .. m : u < slots[k]
      BY <1>1, <1>10 DEF Slotted
    <2> QED BY <1>1, <2>1, <2>2
  <1>17. \A k \in 1 .. m - 1 : slots'[k] \in 1 .. streamIdx - 1 /\ slots[1] < slots'[k] /\ slots'[k] # slots[1]
    <2>1. ASSUME NEW k \in 1 .. m - 1 PROVE slots'[k] \in 1 .. streamIdx - 1 /\ slots[1] < slots'[k] /\ slots'[k] # slots[1]
      <3>1. slots'[k] = slots[k + 1] /\ k + 1 \in 1 .. m /\ 1 < k + 1
        BY <1>6, <1>16
      <3>2. slots[1] < slots[k + 1] /\ slots[k + 1] \in 1 .. streamIdx - 1
        BY <1>3, <1>16, <3>1
      <3>3. slots[1] \in Int /\ slots[k + 1] \in Int
        BY <1>3, <3>2
      <3> QED BY <3>1, <3>2, <3>3
    <2> QED BY <2>1
  <1>18. Slotted(u)'
    <2>1. \A k \in 1 .. m : u < slots'[k] /\ slots'[k] < streamIdx'
      <3>1. ASSUME NEW k \in 1 .. m - 1 PROVE u < slots'[k] /\ slots'[k] < streamIdx'
        <4>1. slots'[k] \in 1 .. streamIdx - 1 /\ slots[1] < slots'[k]
          BY <1>17
        <4>2. streamIdx \in Nat /\ streamIdx' = streamIdx + 1 /\ u < slots[1] /\ u \in Nat /\ slots[1] \in Nat
          BY <1>0, <1>3, <1>5, <1>11
        <4> QED BY <4>1, <4>2
      <3>2. u < slots'[m] /\ slots'[m] < streamIdx'
        BY <1>0, <1>5, <1>6, <1>11
      <3> QED BY <1>16, <3>1, <3>2
    <2>2. ASSUME NEW j \in 1 .. m, NEW k \in 1 .. m, j < k PROVE slots'[j] < slots'[k]
      <3>1. j \in 1 .. m - 1
        BY <1>1, <2>2
      <3>2. CASE k \in 1 .. m - 1
        <4>1. j + 1 < k + 1 /\ j + 1 \in 1 .. m /\ k + 1 \in 1 .. m
          BY <1>16, <2>2, <3>1, <3>2
        <4> QED BY <1>6, <1>16, <3>1, <3>2, <4>1
      <3>3. CASE k = m
        BY <1>0, <1>6, <1>17, <3>1, <3>3
      <3> QED BY <1>16, <3>2, <3>3
    <2>3. overflow' # 0 /\ u < overflow' /\ overflow' < streamIdx' /\ \A k \in 1 .. m : overflow' < slots'[k]
      <3>1. overflow' < streamIdx' /\ overflow' < slots'[m]
        <4>a. streamIdx \in Nat
          BY <1>0
        <4>b. slots[1] \in 1 .. streamIdx - 1
          BY <1>3
        <4>1. streamIdx \in Nat /\ slots[1] < streamIdx /\ slots[1] \in Nat
          BY <4>a, <4>b
        <4>2. overflow' = slots[1] /\ slots'[m] = streamIdx /\ streamIdx' = streamIdx + 1
          BY <1>5, <1>6
        <4> HIDE DEF m
        <4> QED BY <4>1, <4>2
      <3> QED BY <1>3, <1>5, <1>11, <1>16, <1>17, <3>1
    <2> QED BY <1>6, <2>1, <2>2, <2>3 DEF Slotted
  <1>19. Filled(u)'
    <2>1. \A k \in 1 .. m : display[slots[k]] = Line("tool", seen[k])
      <3>1. \A k \in 1 .. Len(slots) : display[slots[k]] = Line("tool", seen[Len(seen) - Len(slots) + k])
        BY <1>10 DEF Filled
      <3>2. \A k \in 1 .. m : Len(seen) - Len(slots) + k = k
        BY <1>0, <1>1
      <3> QED BY <1>1, <3>1, <3>2
    <2>2. \A k \in 1 .. m : Len(seen') - Len(slots') + k = k + 1
      BY <1>1, <1>6, <1>7
    <2>3. \A k \in 1 .. m - 1 : display'[slots'[k]] = Line("tool", seen'[k + 1])
      <3>1. \A k \in 1 .. m - 1 : display'[slots'[k]] = display[slots[k + 1]]
        BY <1>6, <1>12, <1>17
      <3>2. \A k \in 1 .. m - 1 : display[slots[k + 1]] = Line("tool", seen[k + 1]) /\ seen'[k + 1] = seen[k + 1]
        BY <1>7, <1>16, <2>1
      <3> QED BY <3>1, <3>2
    <2>4. display'[slots'[m]] = Line("tool", seen'[m + 1])
      BY <1>6, <1>7, <1>9 DEF line
    <2>5. \A k \in 1 .. m : display'[slots'[k]] = Line("tool", seen'[k + 1])
      BY <1>16, <2>3, <2>4
    <2>6. \A k \in 1 .. Len(slots') : display'[slots'[k]] = Line("tool", seen'[Len(seen') - Len(slots') + k])
      BY <1>6, <2>2, <2>5
    <2>7. display'[overflow'] = Line("more", calls' - MaxToolCalls)
      BY <1>5, <1>12
    <2>8. ASSUME NEW i \in 1 .. Len(display'), u <= i, display'[i].kind \in {"tool", "more"}
          PROVE  i = overflow' \/ \E k \in 1 .. Len(slots') : slots'[k] = i
      <3>1. CASE i = streamIdx
        <4>1. m \in 1 .. Len(slots')
          BY <1>1, <1>6
        <4> QED BY <1>6, <3>1, <4>1
      <3>2. CASE i \in 1 .. streamIdx - 1 /\ i # slots[1]
        <4>1. i \in 1 .. Len(display) /\ display[i].kind \in {"tool", "more"} /\ i # 0
          BY <1>12, <2>8, <3>2
        <4>2. PICK k \in 1 .. m : slots[k] = i
          BY <1>1, <1>10, <2>8, <4>1 DEF Filled
        <4>3. k # 1 /\ k - 1 \in 1 .. m - 1 /\ (k - 1) + 1 = k
          BY <1>1, <3>2, <4>2
        <4>4. slots'[k - 1] = i /\ k - 1 \in 1 .. Len(slots')
          BY <1>6, <1>16, <4>2, <4>3
        <4> QED BY <4>4
      <3>3. CASE i = slots[1]
        BY <1>5, <3>3
      <3> QED BY <1>9, <2>8, <3>1, <3>2, <3>3
    <2> QED BY <2>6, <2>7, <2>8 DEF Filled, Line
  <1>20. u \in 1 .. Len(display')
    BY <1>0, <1>9
  <1>21. Len(seen') = calls'
    BY <1>1, <1>7
  <1> QED BY <1>7, <1>9, <1>14, <1>15, <1>18, <1>19, <1>20, <1>21 DEF ScreenInv

\* The window moves on: each slot shows the next call, the last one the new call, and the
\* summary counts on.
LEMMA ShiftScreen ==
  ASSUME LinkInv, DisplayInv, DisplayInv', ScreenInv, NEW K, ReadEvent(K), UNCHANGED <<turns, quit, chunks, loading>>,
         NEW n \in Nat, ShiftSlots(Line("tool", n), Line("more", calls' - MaxToolCalls)),
         seen' = Append(seen, n), calls' = calls + 1, ~ (calls' <= MaxToolCalls), overflow # 0
  PROVE  ScreenInv'
  <1>0. /\ streamIdx \in 1 .. Len(display) /\ Len(display) \in Nat /\ display \in Seq(Lines)
        /\ slots \in Seq(Nat) /\ Len(slots) \in Nat /\ calls \in Nat
        /\ seen \in Seq(Nat) /\ Len(seen) = calls /\ Streamed /\ Turned /\ Numbers
        /\ \A k \in 1 .. Len(slots) : slots[k] \in 1 .. streamIdx - 1
        /\ overflow \in 1 .. streamIdx - 1
    BY TurnShown
  <1> DEFINE m == MaxToolCalls
             line == Line("tool", n)
             more == Line("more", calls' - m)
  <1>1. Len(slots) = m /\ m \in Nat \ {0} /\ calls > m
    <2>1. calls > m
      BY <1>0 DEF DisplayInv
    <2> QED BY <2>1 DEF DisplayInv
  <1>2. line.kind = "tool" /\ more.kind = "more"
    BY DEF Line
  <1>3. seen' \in Seq(Nat) /\ Len(seen') = calls + 1 /\ seen'[calls + 1] = n /\ \A k \in 1 .. calls : seen'[k] = seen[k]
    <2> DEFINE c == Len(seen)
    <2>1. seen' \in Seq(Nat) /\ Len(seen') = c + 1 /\ seen'[c + 1] = n /\ \A k \in 1 .. c : seen'[k] = seen[k]
      <3>1. seen \in Seq(Nat)
        BY <1>0
      <3> QED BY <3>1
    <2>2. c = calls
      BY <1>0
    <2> HIDE DEF c
    <2> QED BY <2>1, <2>2
  <1> DEFINE J(i) == CHOOSE j \in DOMAIN slots : slots[j] = i
             f(i) == IF i = overflow THEN more
                     ELSE IF i = Last(slots) THEN line
                     ELSE IF i \in Range(slots) THEN display[slots[J(i) + 1]]
                     ELSE display[i]
  <1>4. display' = [i \in DOMAIN display |-> f(i)] /\ UNCHANGED <<streamIdx, slots, overflow>>
    BY DEF ShiftSlots
  <1>5. PICK u \in 1 .. Len(display) : Begins(u) /\ Slotted(u) /\ Filled(u)
    BY <1>0 DEF Turned
  <1>6. /\ \A k \in 1 .. m : slots[k] \in 1 .. streamIdx - 1
        /\ \A j, k \in 1 .. m : j < k => slots[j] < slots[k]
        /\ \A k \in 1 .. m : u < slots[k]
        /\ u < overflow /\ \A k \in 1 .. m : overflow < slots[k]
        /\ \A k \in 1 .. m : display[slots[k]] = Line("tool", seen[calls - m + k])
        /\ \A i \in 1 .. Len(display) : u <= i /\ display[i].kind \in {"tool", "more"} =>
             i = overflow \/ \E k \in 1 .. m : slots[k] = i
    BY <1>0, <1>1, <1>5 DEF Slotted, Filled
  <1>7. \A j, k \in 1 .. m : slots[j] = slots[k] => j = k
    <2>1. ASSUME NEW j \in 1 .. m, NEW k \in 1 .. m, slots[j] = slots[k], j # k PROVE FALSE
      <3>1. j < k \/ k < j
        BY <1>1, <2>1
      <3>2. slots[j] < slots[k] \/ slots[k] < slots[j]
        BY <1>6, <3>1
      <3>3. slots[j] \in Int
        BY <1>6
      <3> QED BY <2>1, <3>2, <3>3
    <2> QED BY <2>1
  <1>8. \A k \in 1 .. m : slots[k] # overflow
    <2>1. ASSUME NEW k \in 1 .. m PROVE slots[k] # overflow
      <3>1. overflow < slots[k] /\ overflow \in Int
        BY <1>0, <1>6
      <3> QED BY <3>1
    <2> QED BY <2>1
  <1>9. DOMAIN display = 1 .. Len(display) /\ DOMAIN slots = 1 .. m /\ Last(slots) = slots[m]
    BY <1>0, <1>1 DEF Last
  <1>10. \A i : i \in Range(slots) <=> \E k \in 1 .. m : slots[k] = i
    BY <1>9 DEF Range
  <1>11. \A k \in 1 .. m : J(slots[k]) = k
    BY <1>7, <1>9
  <1>12. \A i \in 1 .. Len(display) : display'[i] = f(i)
    BY <1>4, <1>9
  <1>13. overflow \in 1 .. Len(display) /\ \A k \in 1 .. m : slots[k] \in 1 .. Len(display)
    <2>1. \A i \in 1 .. streamIdx - 1 : i \in 1 .. Len(display)
      BY <1>0
    <2> QED BY <1>0, <1>6, <2>1
  <1>14. display'[overflow] = more
    BY <1>12, <1>13
  <1>15. display'[slots[m]] = line
    <2>1. m \in 1 .. m
      BY <1>1
    <2>2. f(slots[m]) = line
      BY <1>8, <1>9, <2>1
    <2> QED BY <1>12, <1>13, <2>1, <2>2
  <1>16. ASSUME NEW k \in 1 .. m - 1 PROVE display'[slots[k]] = Line("tool", seen[calls - m + k + 1])
    <2>1. k \in 1 .. m /\ k + 1 \in 1 .. m /\ m \in 1 .. m /\ k # m
      BY <1>1
    <2>2. slots[k] # overflow /\ slots[k] # slots[m] /\ slots[k] \in Range(slots) /\ J(slots[k]) = k
      BY <1>7, <1>8, <1>10, <1>11, <2>1
    <2>3. display'[slots[k]] = display[slots[k + 1]]
      BY <1>9, <1>12, <1>13, <2>1, <2>2
    <2>4. display[slots[k + 1]] = Line("tool", seen[calls - m + (k + 1)])
      BY <1>6, <2>1
    <2>5. calls - m + (k + 1) = calls - m + k + 1
      BY <1>0, <1>1
    <2> QED BY <2>3, <2>4, <2>5
  <1>17. ASSUME NEW i \in 1 .. Len(display), i # overflow, \A k \in 1 .. m : slots[k] # i PROVE display'[i] = display[i]
    <2>1. m \in 1 .. m
      BY <1>1
    <2> QED BY <1>9, <1>10, <1>12, <1>17, <2>1
  <1> HIDE DEF f, J
  <1>18. Len(display') = Len(display)
    <2>1. DOMAIN display' = 1 .. Len(display)
      BY <1>4, <1>9
    <2>2. Len(display') \in Nat /\ DOMAIN display' = 1 .. Len(display')
      BY DEF DisplayInv
    <2> DEFINE x == Len(display)
               y == Len(display')
    <2>3. x \in Nat /\ y \in Nat /\ 1 .. x = 1 .. y
      BY <1>0, <2>1, <2>2
    <2> HIDE DEF x, y
    <2>4. ~ (x < y)
      <3>1. x < y => y \in 1 .. y /\ y \notin 1 .. x
        BY <2>3
      <3> QED BY <2>3, <3>1
    <2>5. ~ (y < x)
      <3>1. y < x => x \in 1 .. x /\ x \notin 1 .. y
        BY <2>3
      <3> QED BY <2>3, <3>1
    <2>6. x = y
      BY <2>3, <2>4, <2>5
    <2> QED BY <2>6 DEF x, y
  <1>19. \A k \in 1 .. m : k \in 1 .. m - 1 \/ k = m
    BY <1>1
  <1>20. Line("tool", 0).kind = "tool" /\ \A x : Line("tool", x).kind = "tool"
    BY DEF Line
  <1>21. \A i \in 1 .. Len(display') :
           \/ display'[i] = display[i] /\ i # overflow /\ \A k \in 1 .. m : slots[k] # i
           \/ display'[i].kind \in {"tool", "more"} /\ (i = overflow \/ \E k \in 1 .. m : slots[k] = i)
    <2>1. ASSUME NEW i \in 1 .. Len(display') PROVE
             \/ display'[i] = display[i] /\ i # overflow /\ \A k \in 1 .. m : slots[k] # i
             \/ display'[i].kind \in {"tool", "more"} /\ (i = overflow \/ \E k \in 1 .. m : slots[k] = i)
      <3>1. CASE i = overflow
        BY <1>2, <1>14, <3>1
      <3>2. CASE \E k \in 1 .. m : slots[k] = i
        <4>1. PICK k \in 1 .. m : slots[k] = i
          BY <3>2
        <4>2. CASE k = m
          BY <1>2, <1>15, <4>1, <4>2
        <4>3. CASE k \in 1 .. m - 1
          BY <1>16, <1>20, <4>1, <4>3
        <4> QED BY <1>19, <4>1, <4>2, <4>3
      <3>3. CASE i # overflow /\ \A k \in 1 .. m : slots[k] # i
        BY <1>17, <1>18, <3>3
      <3> QED BY <3>1, <3>2, <3>3
    <2> QED BY <2>1
  <1>22. Numbers'
    <2>1. ASSUME NEW i \in 1 .. Len(display'), display'[i].kind = "user" PROVE display'[i].n <= turns'
      <3>1. display'[i] = display[i]
        BY <1>21, <2>1
      <3> QED BY <1>0, <1>18, <2>1, <3>1 DEF Numbers
    <2> QED BY <2>1 DEF Numbers
  <1>23. Begins(u)'
    <2>1. Line("user", turns).kind = "user"
      BY DEF Line
    <2>2. ASSUME NEW i \in 1 .. Len(display'), display'[i] = Line("user", turns) PROVE i = u
      <3>1. display'[i] = display[i]
        BY <1>21, <2>1, <2>2
      <3> QED BY <1>5, <1>18, <2>2, <3>1 DEF Begins
    <2>3. display'[u] = Line("user", turns) /\ u < streamIdx'
      <3>1. u # overflow
        <4>1. u < overflow /\ overflow \in Int
          BY <1>0, <1>6
        <4> QED BY <4>1
      <3>2. \A k \in 1 .. m : slots[k] # u
        <4>1. \A k \in 1 .. m : u < slots[k] /\ slots[k] \in Int
          BY <1>6
        <4> QED BY <4>1
      <3> QED BY <1>4, <1>5, <1>17, <3>1, <3>2 DEF Begins
    <2> QED BY <2>2, <2>3 DEF Begins, Line
  <1>24. Slotted(u)'
    BY <1>4, <1>5 DEF Slotted
  <1>25. Filled(u)'
    <2>1. \A k \in 1 .. m : Len(seen') - Len(slots') + k = calls - m + k + 1
      <3>1. Len(slots') = m /\ Len(seen') = calls + 1 /\ calls \in Nat /\ m \in Nat
        BY <1>0, <1>1, <1>3, <1>4
      <3> QED BY <3>1
    <2>2. \A k \in 1 .. m - 1 : seen'[calls - m + k + 1] = seen[calls - m + k + 1]
      <3>1. \A k \in 1 .. m - 1 : calls - m + k + 1 \in 1 .. calls
        BY <1>0, <1>1
      <3> QED BY <1>3, <3>1
    <2>3. display'[slots[m]] = Line("tool", seen'[calls - m + m + 1])
      <3>1. calls - m + m + 1 = calls + 1
        BY <1>0, <1>1
      <3> QED BY <1>3, <1>15, <3>1
    <2>4. \A k \in 1 .. m : display'[slots[k]] = Line("tool", seen'[calls - m + k + 1])
      BY <1>16, <1>19, <2>2, <2>3
    <2>5. \A k \in 1 .. Len(slots') : display'[slots'[k]] = Line("tool", seen'[Len(seen') - Len(slots') + k])
      BY <1>1, <1>4, <2>1, <2>4
    <2>6. display'[overflow'] = Line("more", calls' - MaxToolCalls)
      BY <1>4, <1>14
    <2>7. ASSUME NEW i \in 1 .. Len(display'), u <= i, display'[i].kind \in {"tool", "more"}
          PROVE  i = overflow' \/ \E k \in 1 .. Len(slots') : slots'[k] = i
      <3>1. i = overflow \/ \E k \in 1 .. m : slots[k] = i
        BY <1>6, <1>18, <1>21, <2>7
      <3> QED BY <1>1, <1>4, <3>1
    <2> QED BY <2>5, <2>6, <2>7 DEF Filled, Line
  <1>26. Streamed'
    <2>1. \A i \in streamIdx .. Len(display) : i \in 1 .. Len(display) /\ i # overflow /\ \A k \in 1 .. m : slots[k] # i
      <3>1. ASSUME NEW i \in streamIdx .. Len(display) PROVE i \in 1 .. Len(display) /\ i # overflow
        BY <1>0
      <3>2. ASSUME NEW i \in streamIdx .. Len(display), NEW k \in 1 .. m PROVE slots[k] # i
        <4>1. slots[k] \in 1 .. streamIdx - 1 /\ streamIdx \in Int
          BY <1>0, <1>6
        <4> QED BY <4>1
      <3> QED BY <3>1, <3>2
    <2>2. \A i \in streamIdx .. Len(display) : display'[i] = display[i]
      BY <1>17, <2>1
    <2>3. streamIdx \in streamIdx .. Len(display)
      BY <1>0
    <2> QED BY <1>0, <1>4, <1>18, <2>2, <2>3 DEF Streamed, Line
  <1>27. u \in 1 .. Len(display')
    BY <1>18
  <1>28. Len(seen') = calls'
    BY <1>3
  <1> QED BY <1>3, <1>22, <1>23, <1>24, <1>25, <1>26, <1>27, <1>28 DEF ScreenInv

\* A tool call below the limit, at the limit, or beyond it.
LEMMA ToolCallScreen ==
  ASSUME LinkInv, DisplayInv, DisplayInv', ScreenInv, ToolCall
  PROVE  ScreenInv'
  <1> DEFINE n == Head(toClient).n
  <1>1. ReadEvent({"tool_call"}) /\ n \in Nat
    BY TurnShown DEF ToolCall
  <1>2. /\ UNCHANGED <<turns, quit, chunks, loading>> /\ calls' = calls + 1 /\ seen' = Append(seen, n)
    BY DEF ToolCall, procs, session
  <1>3. IF calls' <= MaxToolCalls THEN NewSlot(Line("tool", n))
        ELSE IF overflow = 0 THEN FirstOverflow(Line("tool", n), Line("more", calls' - MaxToolCalls))
        ELSE ShiftSlots(Line("tool", n), Line("more", calls' - MaxToolCalls))
    BY DEF ToolCall
  <1> HIDE DEF n
  <1>4. CASE calls' <= MaxToolCalls
    BY <1>1, <1>2, <1>3, <1>4, NewSlotScreen
  <1>5. CASE ~ (calls' <= MaxToolCalls) /\ overflow = 0
    BY <1>1, <1>2, <1>3, <1>5, OverflowScreen
  <1>6. CASE ~ (calls' <= MaxToolCalls) /\ overflow # 0
    BY <1>1, <1>2, <1>3, <1>6, ShiftScreen
  <1> QED BY <1>4, <1>5, <1>6

\* Enter begins the lines of a turn below everything that is there.
LEMMA EnterScreen ==
  ASSUME LinkInv, DisplayInv, DisplayInv', ScreenInv, Enter
  PROVE  ScreenInv'
  <1> DEFINE l == Len(display)
             x == Line("user", turns + 1)
             y == Line("agent", 0)
             z == Line("stream", 0)
  <1>1. /\ display' = display \o <<x, y, z>> /\ streamIdx' = Len(display') /\ turns' = turns + 1
        /\ chunks' = 0 /\ slots' = <<>> /\ overflow' = 0 /\ calls' = 0 /\ seen' = <<>>
    BY DEF Enter
  <1>2. display \in Seq(Lines) /\ turns \in Nat /\ l \in Nat
    BY DEF LinkInv, LinkTypes, DisplayInv
  <1>3. x \in Lines /\ y \in Lines /\ z \in Lines
    BY <1>2, LineTypes DEF Kinds
  <1>4. x.kind = "user" /\ x.n = turns + 1 /\ y.kind = "agent" /\ z.kind = "stream" /\ z = Line("stream", 0)
    BY DEF Line
  <1>x. x = Line("user", turns')
    BY <1>1
  <1> HIDE DEF x, y, z
  <1> DEFINE w == <<x, y, z>>
  <1>5. w \in Seq(Lines) /\ Len(w) = 3 /\ w[1] = x /\ w[2] = y /\ w[3] = z
    BY <1>3
  <1>6. /\ Len(display') = l + 3 /\ \A i \in 1 .. l : display'[i] = display[i]
        /\ display'[l + 1] = x /\ display'[l + 2] = y /\ display'[l + 3] = z
    <2>1. display' = display \o w
      BY <1>1
    <2> HIDE DEF w
    <2>2. /\ Len(display \o w) = Len(display) + Len(w)
          /\ \A i \in 1 .. Len(display) + Len(w) :
               (display \o w)[i] = IF i <= Len(display) THEN display[i] ELSE w[i - Len(display)]
      <3>1. display \in Seq(Lines) /\ w \in Seq(Lines)
        BY <1>2, <1>5
      <3> QED BY <3>1, ConcatProperties
    <2>3. /\ Len(display') = l + 3
          /\ \A i \in 1 .. l + 3 : display'[i] = IF i <= l THEN display[i] ELSE w[i - l]
      BY <1>5, <2>1, <2>2
    <2> HIDE DEF l
    <2>4. \A i \in 1 .. l : i \in 1 .. l + 3 /\ i <= l
      BY <1>2
    <2>5. /\ l + 1 \in 1 .. l + 3 /\ l + 2 \in 1 .. l + 3 /\ l + 3 \in 1 .. l + 3
          /\ ~ (l + 1 <= l) /\ ~ (l + 2 <= l) /\ ~ (l + 3 <= l)
          /\ (l + 1) - l = 1 /\ (l + 2) - l = 2 /\ (l + 3) - l = 3
      BY <1>2
    <2> QED BY <1>5, <2>3, <2>4, <2>5
  <1>7. \A i \in 1 .. l : display[i].kind = "user" => display[i].n <= turns
    BY DEF ScreenInv, Numbers
  <1>7a. \A i \in 1 .. l : display[i].n \in Nat
    <2>1. \A i \in 1 .. l : display[i] \in Lines
      BY <1>2
    <2>2. \A e \in Lines : e.n \in Nat
      BY DEF Lines
    <2> QED BY <2>1, <2>2
  <1>u. display'[Len(display')] = z
    BY <1>6
  <1> HIDE DEF l, w
  <1>v. PICK v \in Nat : v = l + 1
    BY <1>2
  <1>8. \A i \in 1 .. Len(display') : i \in 1 .. l \/ i = l + 1 \/ i = l + 2 \/ i = l + 3
    BY <1>2, <1>6
  <1>9. Numbers'
    <2>1. ASSUME NEW i \in 1 .. Len(display'), display'[i].kind = "user" PROVE display'[i].n <= turns + 1
      <3>1. CASE i \in 1 .. l
        BY <1>2, <1>6, <1>7, <1>7a, <2>1, <3>1
      <3>2. CASE i = l + 1
        BY <1>2, <1>4, <1>6, <3>2
      <3> QED BY <1>4, <1>6, <1>8, <2>1, <3>1, <3>2
    <2> QED BY <1>1, <2>1 DEF Numbers
  <1>10. Begins(v)'
    <2>1. ASSUME NEW i \in 1 .. Len(display'), display'[i] = x PROVE i = v
      <3>1. display'[i].kind = "user" /\ display'[i].n = turns + 1
        BY <1>4, <2>1
      <3>2. i \notin 1 .. l
        BY <1>2, <1>6, <1>7, <1>7a, <3>1
      <3> QED BY <1>v, <1>4, <1>6, <1>8, <3>1, <3>2
    <2>2. v < streamIdx'
      BY <1>v, <1>1, <1>2, <1>6
    <2>3. display'[v] = x
      BY <1>v, <1>6
    <2> QED BY <1>x, <2>1, <2>2, <2>3 DEF Begins, Line
  <1>11. Len(slots') = 0 /\ Len(seen') = 0 /\ seen' \in Seq(Nat) /\ \A k \in 1 .. Len(slots') : FALSE
    BY <1>1
  <1>12. Slotted(v)'
    BY <1>1, <1>11 DEF Slotted
  <1>13. Filled(v)'
    <2>1. ASSUME NEW i \in 1 .. Len(display'), v <= i PROVE display'[i].kind \notin {"tool", "more"}
      <3>1. i \notin 1 .. l
        BY <1>v, <1>2, <2>1
      <3> QED BY <1>4, <1>6, <1>8, <3>1
    <2> QED BY <1>1, <1>11, <2>1 DEF Filled
  <1>14. Streamed'
    <2>1. \A i \in streamIdx' .. Len(display') : i = Len(display')
      BY <1>1, <1>2, <1>6
    <2>2. display'[streamIdx'] = z
      BY <1>1, <1>u
    <2>3. z = Line("stream", chunks')
      BY <1>1, <1>4
    <2>4. \A i \in streamIdx' .. Len(display') : display'[i].kind = "stream"
      BY <1>u, <1>4, <2>1
    <2> QED BY <1>4, <2>2, <2>3, <2>4 DEF Streamed, Line
  <1>15. v \in 1 .. Len(display')
    BY <1>v, <1>2, <1>6
  <1>16. Len(seen') = calls'
    BY <1>1, <1>11
  <1> QED BY <1>9, <1>10, <1>11, <1>12, <1>13, <1>14, <1>15, <1>16 DEF ScreenInv

\* Every step keeps the screen of the turn.
LEMMA ScreenStep ==
  ASSUME LinkInv, DisplayInv, DisplayInv', ScreenInv, [Next]_vars
  PROVE  ScreenInv'
  <1> DEFINE Same == UNCHANGED <<display, streamIdx, chunks, slots, overflow, calls, seen, quit, turns, loading>>
  <1>1. ASSUME Same PROVE ScreenInv'
    <2>1. Numbers => Numbers'
      BY <1>1 DEF Numbers
    <2>2. Streamed => Streamed'
      BY <1>1 DEF Streamed, Line
    <2>3. \A u : Begins(u) => Begins(u)'
      BY <1>1 DEF Begins, Line
    <2>4. \A u : Slotted(u) => Slotted(u)'
      BY <1>1 DEF Slotted
    <2>5. \A u : Filled(u) => Filled(u)'
      BY <1>1 DEF Filled, Line
    <2> QED BY <1>1, <2>1, <2>2, <2>3, <2>4, <2>5 DEF ScreenInv
  <1>2. CASE Server
    <2>1. Same
      BY <1>2 DEF Server, DispatchCreate, DispatchList, DispatchMessage, DispatchInterrupt, DispatchClose,
                  CloseSession, screen, procs, session
    <2> QED BY <1>1, <2>1
  <1>3. CASE Turn
    <2>1. Same
      BY <1>3 DEF Turn, TurnStart, Clean, TurnEvent, TurnEnd, screen, procs, session
    <2> QED BY <1>1, <2>1
  <1>4. CASE FetchSend \/ FetchRead \/ EventLost \/ EventShared \/ UNCHANGED vars
    <2>1. Same
      BY <1>4 DEF FetchSend, FetchRead, EventLost, EventShared, vars, screen, procs, session
    <2> QED BY <1>1, <2>1
  <1>5. CASE SendMessage \/ TodoSnapshot \/ Ignore
    <2>1. Same
      BY <1>5 DEF SendMessage, TodoSnapshot, Ignore, screen, procs, session
    <2> QED BY <1>1, <2>1
  <1>6. CASE (\E i \in Inputs : Type(i)) \/ Select \/ Complete \/ Tick \/ Esc
    <2>1. Same
      BY <1>6 DEF Type, Select, Complete, Tick, Esc, screen, procs, session
    <2> QED BY <1>1, <2>1
  <1>7. CASE Created
    <2>1. sessionID = 0 /\ display' \in {display, <<Line("error", 0)>>} /\ UNCHANGED <<turns, calls, seen>>
      BY <1>7 DEF Created
    <2>2. turns' = 0
      BY <2>1 DEF LinkInv, StartInv
    <2>3. Numbers'
      <3>1. CASE display' = display
        BY <2>1, <3>1 DEF ScreenInv, Numbers
      <3>2. CASE display' = <<Line("error", 0)>>
        <4> DEFINE e == Line("error", 0)
        <4>1. e.kind # "user"
          BY DEF Line
        <4> HIDE DEF e
        <4>2. Len(<<e>>) = 1 /\ <<e>>[1] = e
          OBVIOUS
        <4>3. display' = <<e>>
          BY <3>2 DEF e
        <4>4. \A i \in 1 .. Len(display') : display'[i] = e
          BY <4>2, <4>3
        <4> QED BY <4>1, <4>4 DEF Numbers
      <3> QED BY <2>1, <3>1, <3>2
    <2> QED BY <2>1, <2>2, <2>3 DEF ScreenInv
  <1>8. CASE CtrlC
    <2>1. display' = <<>> /\ calls' = 0 /\ seen' = <<>> /\ quit'
      BY <1>8 DEF CtrlC, Exit
    <2>2. Len(display') = 0 /\ Len(seen') = 0 /\ seen' \in Seq(Nat)
      BY <2>1
    <2>3. Numbers'
      BY <2>2 DEF Numbers
    <2> QED BY <2>1, <2>2, <2>3 DEF ScreenInv
  <1>9. CASE Reader
    BY <1>5, <1>9, StreamScreen, ToolCallScreen DEF Reader
  <1>10. CASE Keys
    BY <1>6, <1>8, <1>10, EnterScreen DEF Keys
  <1> QED BY <1>2, <1>3, <1>4, <1>7, <1>9, <1>10 DEF Next

\* The slots and the summary are where the lines of the turn about tool calls are.
LEMMA ScreenShows ==
  ASSUME DisplayInv, ScreenInv, TodoInv, turns > 0, ~ quit
  PROVE  ScreenShowsTurn
  <1>1. /\ display \in Seq(Lines) /\ Len(display) \in Nat /\ slots \in Seq(Nat) /\ Len(slots) \in Nat
        /\ calls \in Nat /\ seen \in Seq(Nat) /\ Len(seen) = calls /\ Streamed /\ streamIdx \in 1 .. Len(display)
        /\ \A k \in 1 .. Len(slots) : slots[k] \in 1 .. Len(display)
        /\ overflow \in 0 .. Len(display)
    BY DEF DisplayInv, ScreenInv
  <1>2. PICK u \in 1 .. Len(display) : Begins(u) /\ Slotted(u) /\ Filled(u)
    BY DEF ScreenInv
  <1>3. LastUser = u
    <2>1. DOMAIN display = 1 .. Len(display)
      BY <1>1
    <2>2. \A i \in DOMAIN display : display[i] = Line("user", turns) <=> i = u
      BY <1>2, <2>1 DEF Begins
    <2> QED BY <2>1, <2>2 DEF LastUser
  <1> DEFINE n == Len(slots)
             m == MaxToolCalls
             base == Len(seen) - n
  <1>4. (calls <= m => n = calls /\ overflow = 0) /\ (~ (calls <= m) => n = m /\ overflow # 0) /\ m \in Nat \ {0}
    BY <1>1 DEF DisplayInv
  <1>5. base \in Nat /\ n \in Nat /\ n <= calls
    <2>1. n \in Nat /\ n <= calls
      BY <1>1, <1>4
    <2> HIDE DEF n
    <2> QED BY <1>1, <2>1
  <1>6. /\ Latest \in Seq(Nat) /\ Len(Latest) = n
        /\ \A k \in 1 .. n : Latest[k] = seen[base + k]
    <2>1. base + 1 \in Int /\ Len(seen) \in Int /\ \A i \in base + 1 .. Len(seen) : seen[i] \in Nat
      <3>1. \A i \in 1 .. Len(seen) : seen[i] \in Nat
        BY <1>1
      <3>2. base + 1 \in Int /\ Len(seen) \in Int /\ \A i \in base + 1 .. Len(seen) : i \in 1 .. Len(seen)
        <4>1. Len(seen) \in Nat
          BY <1>1
        <4> HIDE DEF base
        <4> QED BY <1>5, <4>1
      <3> QED BY <3>1, <3>2
    <2> DEFINE s == SubSeq(seen, base + 1, Len(seen))
    <2>2. /\ s \in Seq(Nat)
          /\ Len(s) = IF base + 1 <= Len(seen) THEN Len(seen) - (base + 1) + 1 ELSE 0
          /\ \A i \in 1 .. Len(seen) - (base + 1) + 1 : s[i] = seen[base + 1 + i - 1]
      BY <2>1, SubSeqProperties
    <2>3. Latest = s
      <3>1. Earlier = base
        <4>1. Len(seen) = calls /\ calls \in Nat /\ m \in Nat
          BY <1>1, <1>4
        <4>2. n = IF calls > m THEN m ELSE calls
          BY <1>4, <4>1
        <4>3. base = calls - n
          BY <4>1
        <4>4. Earlier = IF calls > m THEN calls - m ELSE 0
          BY <4>1 DEF Earlier
        <4> HIDE DEF n, m, base
        <4> QED BY <4>1, <4>2, <4>3, <4>4
      <3> HIDE DEF base
      <3> QED BY <3>1 DEF Latest
    <2> HIDE DEF s
    <2>4. Len(seen) - (base + 1) + 1 = n /\ (base + 1 <= Len(seen) <=> n > 0)
      <3>1. Len(seen) \in Nat /\ n \in Nat
        BY <1>1, <1>5
      <3> DEFINE x == Len(seen)
      <3>2. base = x - n
        OBVIOUS
      <3> HIDE DEF x, n, base
      <3> QED BY <3>1, <3>2 DEF x
    <2>5. \A k \in 1 .. n : base + 1 + k - 1 = base + k
      BY <1>5
    <2>6. Len(s) = n
      BY <1>5, <2>2, <2>4
    <2> QED BY <2>2, <2>3, <2>4, <2>5, <2>6
  <1> DEFINE tools == [i \in DOMAIN Latest |-> Line("tool", Latest[i])]
             more  == Line("more", calls - m)
             lines == (IF calls > m THEN <<more>> ELSE <<>>) \o tools
  <1>7. tools \in Seq(Lines) /\ Len(tools) = n /\ \A k \in 1 .. n : tools[k] = display[slots[k]]
    <2>1. DOMAIN Latest = 1 .. n /\ \A k \in 1 .. n : Latest[k] \in Nat
      BY <1>6
    <2>2. \A k \in 1 .. n : Line("tool", Latest[k]) \in Lines
      BY <2>1, LineTypes DEF Kinds
    <2>3. tools = [i \in 1 .. n |-> Line("tool", Latest[i])]
      BY <2>1
    <2>4. \A k \in 1 .. n : display[slots[k]] = Line("tool", Latest[k])
      BY <1>2, <1>6 DEF Filled
    <2> HIDE DEF tools, n
    <2>5. tools \in Seq(Lines) /\ Len(tools) = n
      BY <1>5, <2>2, <2>3
    <2> QED BY <2>3, <2>4, <2>5
  <1> HIDE DEF tools, base
  <1>8. DOMAIN slots = 1 .. n /\ \A i \in LastUser .. Len(display) : i \in 1 .. Len(display) /\ u <= i
    BY <1>1, <1>3
  <1>9. \A k \in 1 .. n : slots[k] \in ToolLines
    <2>1. ASSUME NEW k \in 1 .. n PROVE slots[k] \in ToolLines
      <3>1. u < slots[k] /\ slots[k] \in 1 .. Len(display)
        BY <1>1, <1>2 DEF Slotted
      <3>2. slots[k] \in u .. Len(display)
        BY <1>1, <3>1
      <3>3. display[slots[k]].kind = "tool"
        <4>1. display[slots[k]] = Line("tool", seen[Len(seen) - Len(slots) + k])
          BY <1>2 DEF Filled
        <4> QED BY <4>1 DEF Line
      <3> QED BY <1>3, <3>2, <3>3 DEF ToolLines
    <2> QED BY <2>1
  <1>10. \A i \in ToolLines : i = overflow \/ \E k \in 1 .. n : slots[k] = i
    BY <1>2, <1>8 DEF ToolLines, Filled
  <1>11. \A j, k \in 1 .. n : j < k => slots[j] < slots[k]
    BY <1>2 DEF Slotted
  <1>12. ASSUME calls <= m PROVE Shown(lines)
    <2>1. overflow = 0 /\ ~ (calls > m)
      BY <1>1, <1>4, <1>12
    <2>2. lines = tools
      <3>1. lines = <<>> \o tools
        BY <2>1
      <3> QED BY <1>7, <3>1, ConcatEmptySeq
    <2>3. 0 \notin ToolLines
      BY <1>8 DEF ToolLines
    <2>4. DOMAIN lines = 1 .. n
      BY <1>7, <2>2
    <2>5. slots \in [DOMAIN lines -> ToolLines]
      <3> HIDE DEF lines
      <3>1. slots \in [1 .. n -> Nat]
        BY <1>1
      <3> QED BY <1>9, <2>4, <3>1
    <2>6. Range(slots) = ToolLines
      BY <1>8, <1>9, <1>10, <2>1, <2>3 DEF Range
    <2>7. \A k \in DOMAIN lines : display[slots[k]] = lines[k]
      BY <1>7, <2>2, <2>4
    <2>8. \A j, k \in DOMAIN lines : j < k => slots[j] < slots[k]
      BY <1>11, <2>4
    <2> HIDE DEF lines
    <2> QED BY <2>5, <2>6, <2>7, <2>8 DEF Shown
  <1>13. ASSUME ~ (calls <= m) PROVE Shown(lines)
    <2>1. overflow # 0 /\ calls > m
      BY <1>1, <1>4, <1>13
    <2>2. more \in Lines /\ display[overflow] = more
      <3>1. calls - m \in Nat
        BY <1>1, <1>4, <2>1
      <3>2. more \in Lines
        BY <3>1, LineTypes DEF Kinds
      <3> QED BY <1>2, <2>1, <3>2 DEF Filled
    <2> HIDE DEF more
    <2> DEFINE w == <<more>>
               f == [k \in 1 .. n + 1 |-> IF k = 1 THEN overflow ELSE slots[k - 1]]
    <2>3. w \in Seq(Lines) /\ Len(w) = 1 /\ w[1] = more
      BY <2>2
    <2>4. lines = w \o tools
      BY <2>1
    <2> HIDE DEF w, lines
    <2>a. w \in Seq(Lines) /\ tools \in Seq(Lines)
      BY <1>7, <2>3
    <2>5. \A k \in 1 .. Len(w) + Len(tools) :
            (w \o tools)[k] = IF k <= Len(w) THEN w[k] ELSE tools[k - Len(w)]
      BY <2>a, ConcatProperties
    <2>6. Len(w \o tools) = Len(w) + Len(tools) /\ w \o tools \in Seq(Lines)
      BY <2>a, ConcatProperties
    <2>7. Len(w) + Len(tools) = n + 1
      BY <1>5, <1>7, <2>3
    <2>8. DOMAIN lines = 1 .. n + 1
      BY <2>4, <2>6, <2>7
    <2>9. \A k \in 1 .. n + 1 : k = 1 \/ (k # 1 /\ k - 1 \in 1 .. n /\ ~ (k <= 1))
      BY <1>5
    <2>10. \A k \in 1 .. n + 1 : lines[k] = display[f[k]]
      <3>1. lines[1] = more /\ 1 \in 1 .. n + 1
        <4>1. 1 \in 1 .. n + 1 /\ 1 <= Len(w)
          BY <1>5, <2>3
        <4>2. (w \o tools)[1] = w[1]
          BY <2>5, <2>7, <4>1
        <4> QED BY <2>3, <2>4, <4>1, <4>2
      <3>2. ASSUME NEW k \in 1 .. n + 1, k # 1 PROVE lines[k] = display[slots[k - 1]]
        BY <1>7, <2>3, <2>4, <2>5, <2>7, <2>9, <3>2
      <3> QED BY <2>2, <3>1, <3>2
    <2>11. overflow \in ToolLines
      <3>1. u < overflow /\ overflow \in Nat /\ overflow <= Len(display)
        BY <1>1, <1>2, <2>1 DEF Slotted
      <3>2. overflow \in u .. Len(display)
        BY <1>1, <3>1
      <3>3. display[overflow].kind = "more"
        BY <2>2 DEF more, Line
      <3> QED BY <1>3, <3>2, <3>3 DEF ToolLines
    <2>12. f \in [1 .. n + 1 -> ToolLines]
      BY <1>9, <2>9, <2>11
    <2>13. \A i \in ToolLines : \E k \in 1 .. n + 1 : f[k] = i
      <3>1. ASSUME NEW i \in ToolLines PROVE \E k \in 1 .. n + 1 : f[k] = i
        <4>1. CASE i = overflow
          <5>1. 1 \in 1 .. n + 1
            BY <1>5
          <5> QED BY <4>1, <5>1
        <4>2. CASE \E k \in 1 .. n : slots[k] = i
          <5>1. PICK k \in 1 .. n : slots[k] = i
            BY <4>2
          <5>2. k + 1 \in 1 .. n + 1 /\ k + 1 # 1 /\ (k + 1) - 1 = k
            BY <1>5
          <5> QED BY <5>1, <5>2
        <4> QED BY <1>10, <4>1, <4>2
      <3> QED BY <3>1
    <2>14. Range(f) = ToolLines
      BY <2>12, <2>13 DEF Range
    <2>15. ASSUME NEW j \in 1 .. n + 1, NEW k \in 1 .. n + 1, j < k PROVE f[j] < f[k]
      <3>1. k # 1 /\ k - 1 \in 1 .. n
        BY <1>5, <2>15
      <3>2. CASE j = 1
        <4>1. \A i \in 1 .. n : overflow < slots[i]
          BY <1>2, <2>1 DEF Slotted
        <4> QED BY <3>1, <3>2, <4>1
      <3>3. CASE j # 1
        <4>1. j - 1 \in 1 .. n /\ j - 1 < k - 1
          BY <1>5, <2>15, <3>3
        <4> QED BY <1>11, <3>1, <3>3, <4>1
      <3> QED BY <3>2, <3>3
    <2> HIDE DEF f
    <2>16. /\ f \in [DOMAIN lines -> ToolLines] /\ Range(f) = ToolLines
           /\ \A j, k \in DOMAIN lines : j < k => f[j] < f[k]
           /\ \A k \in DOMAIN lines : display[f[k]] = lines[k]
      BY <2>8, <2>10, <2>12, <2>14, <2>15
    <2> QED BY <2>16 DEF Shown
  <1>14. Shown(lines)
    BY <1>12, <1>13
  <1>15. Shown((IF Earlier > 0 THEN <<Line("more", Earlier)>> ELSE <<>>)
                 \o [i \in DOMAIN Latest |-> Line("tool", Latest[i])])
    <2>1. Earlier = (IF calls > m THEN calls - m ELSE 0) /\ (Earlier > 0 <=> calls > m)
      BY <1>1, <1>4 DEF Earlier
    <2>2. (IF Earlier > 0 THEN <<Line("more", Earlier)>> ELSE <<>>) = IF calls > m THEN <<more>> ELSE <<>>
      BY <2>1
    <2> HIDE DEF m
    <2> QED BY <1>14, <2>2 DEF tools
  <1>16. todos \in {0, sessionID}
    BY DEF TodoInv
  <1> QED BY <1>1, <1>15, <1>16 DEF ScreenShowsTurn, Streamed

-----------------------------------------------------------------------------
(* The dropdown                                                            *)

\* A remainder is less than what it is divided by.
LEMMA Wraps ==
  ASSUME NEW n \in Nat \ {0}, NEW x \in Nat
  PROVE  x % n \in Nat /\ x % n < n
  OBVIOUS

\* Every step keeps the selection among the matches: MoveUp and MoveDown wrap around.
LEMMA TypingStep ==
  ASSUME TypingInv, [Next]_vars
  PROVE  TypingInv'
  <1> DEFINE Same == UNCHANGED <<input, matches, selected, loaded>>
  <1>1. Same => TypingInv'
    BY DEF TypingInv
  <1>2. CASE Server
    <2>1. Same
      BY <1>2 DEF Server, DispatchCreate, DispatchList, DispatchMessage, DispatchInterrupt, DispatchClose,
                  CloseSession, typing
    <2> QED BY <1>1, <2>1
  <1>3. CASE Turn
    <2>1. Same
      BY <1>3 DEF Turn, TurnStart, Clean, TurnEvent, TurnEnd, typing
    <2> QED BY <1>1, <2>1
  <1>4. CASE Reader
    <2>1. Same
      BY <1>4 DEF Reader, SendMessage, Chunk, Inform, ToolCall, TodoSnapshot, Done, Error, Ignore, typing
    <2> QED BY <1>1, <2>1
  <1>5. CASE Created \/ FetchSend \/ EventLost \/ Esc \/ UNCHANGED vars
    <2>1. Same
      BY <1>5 DEF Created, FetchSend, EventLost, Esc, vars, typing
    <2> QED BY <1>1, <2>1
  <1>6. \A i \in Inputs : Matching(i) \in Nat
    BY DEF Matching
  <1>7. CASE FetchRead \/ EventShared
    <2>1. matches' = 0 /\ selected' = 0 /\ input' = input /\ loaded' = (Head(toClient).type = "commands")
      BY <1>7 DEF FetchRead, EventShared
    <2>2. loaded' \in BOOLEAN
      BY <2>1
    <2> QED BY <2>1, <2>2 DEF TypingInv
  <1>8. ASSUME NEW i \in Inputs, Type(i) PROVE TypingInv'
    <2>1. input' = i /\ matches' = Matching(i) /\ selected' = 0 /\ loaded' = loaded
      BY <1>8 DEF Type
    <2> QED BY <1>6, <2>1 DEF TypingInv
  <1>9. CASE Select
    <2>1. UNCHANGED <<input, matches, loaded>> /\ matches \in Nat \ {0} /\ selected \in Nat /\ selected < matches
      BY <1>9 DEF Select, TypingInv
    <2>2. selected' \in {(selected + 1) % matches, (selected - 1 + matches) % matches}
      BY <1>9 DEF Select, MoveDown, MoveUp
    <2>3. selected + 1 \in Nat /\ selected - 1 + matches \in Nat
      BY <2>1
    <2>4. selected' \in Nat /\ selected' < matches
      BY <2>1, <2>2, <2>3, Wraps
    <2> QED BY <2>1, <2>4 DEF TypingInv
  <1>10. CASE Complete
    BY <1>10 DEF Complete, TypingInv
  <1>11. CASE Tick
    <2>1. input' = input /\ matches' = Matching(input) /\ selected' = 0 /\ loaded' = loaded
      BY <1>11 DEF Tick
    <2> QED BY <1>6, <2>1 DEF TypingInv
  <1>12. CASE Enter
    BY <1>12 DEF Enter, TypingInv
  <1>13. CASE CtrlC
    <2>1. input' = Empty /\ matches' = 0 /\ selected' = 0 /\ loaded' = FALSE
      BY <1>13 DEF CtrlC, Exit
    <2>2. loaded' \in BOOLEAN
      BY <2>1
    <2> QED BY <2>1, <2>2 DEF TypingInv
  <1> QED BY <1>2, <1>3, <1>4, <1>5, <1>7, <1>8, <1>9, <1>10, <1>11, <1>12, <1>13 DEF Next, Keys

-----------------------------------------------------------------------------
(* Theorems                                                                *)

\* Before session.create is dispatched nothing else is there.
LEMMA InitIndInv == Init => IndInv
  <1> SUFFICES ASSUME Init PROVE IndInv
    OBVIOUS
  <1> DEFINE r == [type |-> "create", session |-> 0, turn |-> 0]
  <1>1. r \in Requests /\ r.type = "create" /\ r.session = 0
    BY DEF Requests
  <1>2. toServer = <<r>>
    BY DEF Init
  <1> HIDE DEF r
  <1>3. toServer \in Seq(Requests) /\ Len(toServer) = 1 /\ toServer[1] = r
    BY <1>1, <1>2
  <1>4. quit \in BOOLEAN /\ loading \in BOOLEAN /\ loaded \in BOOLEAN /\ ~ quit /\ ~ loading
    BY DEF Init
  <1>5. toClient \in Seq(Events) /\ Len(toClient) = 0 /\ running \in Seq(Messages) /\ Len(running) = 0
    BY DEF Init
  <1>6. LinkTypes
    BY <1>3, <1>4, <1>5 DEF LinkTypes, Init
  <1>7. Asked /\ Told /\ Runs
    BY <1>1, <1>3, <1>5 DEF Asked, Told, Runs, Init
  <1>8. StartInv
    BY <1>1, <1>3, <1>5 DEF StartInv, Init
  <1>9. ModeInv /\ SessionInv
    BY <1>4 DEF ModeInv, SessionInv, Init
  <1>10. Sent = {} /\ Ends = {}
    BY <1>1, <1>3, <1>5 DEF Sent, Ends
  <1>11. FlightInv /\ TagInv
    BY <1>10 DEF FlightInv, TagInv, Init
  <1>12. EscHitsItsTurn
    BY DEF EscHitsItsTurn, Init
  <1>13. DisplayInv
    BY DEF DisplayInv, Init
  <1>14. TypingInv
    BY <1>4 DEF TypingInv, Init
  <1>15. TodoInv
    BY <1>5, <1>10 DEF TodoInv, OfSession, Owner, Lists, Init
  <1>16. ScreenInv
    <2>1. seen \in Seq(Nat) /\ Len(seen) = 0 /\ Len(display) = 0 /\ calls = 0 /\ turns = 0
      BY DEF Init
    <2> QED BY <2>1 DEF ScreenInv, Numbers
  <1> QED BY <1>6, <1>7, <1>8, <1>9, <1>11, <1>12, <1>13, <1>14, <1>15, <1>16 DEF IndInv, LinkInv

\* Every step of the daemon, of the client and of its user keeps the inductive invariant: at
\* most one turn is in flight, behind it there are only requests of that turn and todo lists of
\* its session, the indices into the display and the dropdown are in range, and the lines of the
\* turn show the tool calls that were received.
THEOREM Invariance == Spec => []IndInv
  <1>1. Init => IndInv
    BY InitIndInv
  <1>2. IndInv /\ [Next]_vars => IndInv'
    BY LinkStep, EscStep, DisplayStep, TypingStep, TodoStep, ScreenStep DEF IndInv
  <1> QED BY <1>1, <1>2, PTL DEF Spec

\* No index the client keeps into its display, its slots or its dropdown is out of range when
\* it is used, whatever the order of events and keys.
THEOREM TypeCorrect == Spec => []TypeOK
  <1>1. IndInv => TypeOK
    <2> SUFFICES ASSUME LinkInv, DisplayInv, TypingInv PROVE TypeOK
      BY DEF IndInv
    <2>1. display \in Seq([kind : Kinds, n : Nat]) /\ DOMAIN display = 1 .. Len(display)
      BY DEF DisplayInv, Lines
    <2>2. turns > 0 /\ ~ quit => streamIdx \in DOMAIN display
      BY <2>1 DEF DisplayInv
    <2>3. Range(slots) \cup {overflow} \subseteq DOMAIN display \cup {0}
      <3>1. DOMAIN slots = 1 .. Len(slots)
        BY DEF DisplayInv
      <3>2. \A x \in Range(slots) : x \in DOMAIN display
        BY <2>1, <3>1 DEF DisplayInv, Range
      <3>3. overflow \in DOMAIN display \cup {0}
        BY <2>1 DEF DisplayInv
      <3> QED BY <3>2, <3>3
    <2>4. Len(slots) <= MaxToolCalls
      <3>1. calls \in Nat
        BY DEF DisplayInv
      <3> QED BY <3>1 DEF DisplayInv
    <2>5. /\ input \in Inputs /\ matches \in Nat
          /\ selected \in 0 .. matches /\ (matches > 0 => selected < matches)
      BY DEF TypingInv
    <2>6. sessionID \in 0 .. created /\ todos \in 0 .. created /\ live \subseteq 1 .. created
      BY DEF LinkInv, LinkTypes, SessionInv
    <2>7. /\ reader \in {"none", "send", "read"} /\ fetch \in {"none", "send", "read", "done"}
          /\ Len(toClient) <= MaxWire
      BY DEF LinkInv, LinkTypes, Told
    <2> QED BY <2>1, <2>2, <2>3, <2>4, <2>5, <2>6, <2>7 DEF TypeOK
  <1> QED BY <1>1, Invariance, PTL

\* A press of Esc cancels the turn it was meant for or none, however many turns there are and
\* however long the request travels.
THEOREM EscIsPrecise == Spec => []EscHitsItsTurn
  <1>1. IndInv => EscHitsItsTurn
    BY DEF IndInv
  <1> QED BY <1>1, Invariance, PTL

\* While a turn runs and after it, the screen shows its latest tool calls in their order below
\* the count of the earlier ones, and its text; the todo list is of the session of the screen:
\* for any limit of the lines, and however calls, chunks, status lines and errors alternate.
THEOREM ScreenIsRight == Spec => []ScreenShowsTurn
  <1>1. IndInv => ScreenShowsTurn
    <2>1. ~ (turns > 0 /\ ~ quit) => ScreenShowsTurn
      BY DEF ScreenShowsTurn
    <2> QED BY <2>1, ScreenShows DEF IndInv
  <1> QED BY <1>1, Invariance, PTL
=============================================================================
