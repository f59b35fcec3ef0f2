------------------------------ MODULE AgentLoop ------------------------------
(***************************************************************************)
(* One session's turns, seen from inside: session.RunTurnStream, the       *)
(* generate-execute loop of provider.RunAgentLoop(Stream), the parallel    *)
(* execution of a round's tool calls, the todo list with its reminder and  *)
(* its snapshots, and the subagents that spawn_agent runs.                 *)
(*                                                                         *)
(* The caller holds sess.mu (module SessionManager), so at most one root   *)
(* loop runs: a chat turn, or the memory agent of Finalize. Each agent     *)
(* (the root, and every subagent) is a loop of its own; the goroutines are *)
(* the agents' tool calls.                                                 *)
(***************************************************************************)
EXTENDS Naturals, Sequences, FiniteSets

CONSTANTS
  Root,       \* the agent that runs the turn
  Children,   \* identities for subagents
  MaxCalls,   \* bound: tool calls in one model message
  MaxRounds,  \* bound: rounds of tool calls in one loop (the code has none)
  MaxLog,     \* bound: a turn starts only below this history length
  MaxTodos,   \* bound: items in the todo list
  MaxBatch,   \* bound: items in one todo_create
  Lists       \* the explicit tool lists a spawn_agent call may carry

ASSUME BoundsAssumption ==
  /\ Root \notin Children
  /\ {MaxCalls, MaxRounds, MaxLog, MaxTodos, MaxBatch} \subseteq Nat \ {0}
  /\ \A l \in Lists : l \subseteq {"todo_create", "todo_update", "spawn_agent", "bash"}

Agents == {Root} \cup Children

\* Tools, by what calling them does; "bash" stands for every tool without effect on
\* the session.
TodoTools  == {"todo_create", "todo_update"}
ChatTools  == TodoTools \cup {"spawn_agent", "bash"}
ToolNames  == ChatTools \cup {"write_memory"}
Statuses   == {"pending", "completed"}

VARIABLES
  log,      \* ManagedSession.messages
  mode,     \* what the root loop runs: "idle", "chat" or "memory"
  tail,     \* applyReminder: index of the message that carries the reminder, or 0
  phase,    \* per agent: "off", "generate" or "tools"
  toolset,  \* per agent: the tools it was given
  msgs,     \* per agent: the messages slice of its loop
  calls,    \* per agent: the calls of the current round and how far each has got
  todos,    \* todo.List.items: id and status of each item
  next,     \* todo.List.next: the last id given out
  screen    \* the todo list the client shows

vars == <<log, mode, tail, phase, toolset, msgs, calls, todos, next, screen>>

-----------------------------------------------------------------------------
(* Messages                                                                *)

User              == [role |-> "user", calls |-> 0, answers |-> 0, reminder |-> FALSE]
Model(n)          == [role |-> "model", calls |-> n, answers |-> 0, reminder |-> FALSE]
Tool(i)           == [role |-> "tool", calls |-> 0, answers |-> i, reminder |-> FALSE]
Rounds(ms)        == Cardinality({i \in DOMAIN ms : ms[i].calls > 0})

\* A call that runs in its own goroutine. "view" is the todo snapshot it carries, "child"
\* the subagent it waits for.
Call(name)        == [name |-> name, at |-> "start", signal |-> FALSE, view |-> <<>>, child |-> Root]
SetCall(a, i, r)  == calls' = [calls EXCEPT ![a][i] = r]

-----------------------------------------------------------------------------
(* todo.List                                                               *)

\* Mutant: ids are counted per batch.
CreateFromOne(n) ==
  /\ todos' = todos \o [i \in 1 .. n |-> [id |-> i, status |-> "pending"]]
  /\ next'  = next + n

\* List.Create: the whole batch is numbered and appended under the list's mutex.
Create(n) ==
  /\ todos' = todos \o [i \in 1 .. n |-> [id |-> next + i, status |-> "pending"]]
  /\ next'  = next + n

\* Mutant: a status the call leaves out is stored.
UpdateBlank(id, s) ==
  todos' = [i \in DOMAIN todos |-> IF todos[i].id = id THEN [todos[i] EXCEPT !.status = s]
                                                       ELSE todos[i]]

\* List.Update: an empty status leaves the item's, an unknown id is an error and changes
\* nothing.
Update(id, s) ==
  todos' = [i \in DOMAIN todos |->
              IF todos[i].id = id /\ s # "" THEN [todos[i] EXCEPT !.status = s] ELSE todos[i]]

-----------------------------------------------------------------------------
Init ==
  /\ log = <<>> /\ mode = "idle" /\ tail = 0
  /\ phase   = [a \in Agents |-> "off"]
  /\ toolset = [a \in Agents |-> {}]
  /\ msgs    = [a \in Agents |-> <<>>]
  /\ calls   = [a \in Agents |-> <<>>]
  /\ todos = <<>> /\ next = 0 /\ screen = <<>>

\* A loop starts on the given messages and tools.
Run(a, ms, ts) ==
  /\ phase'   = [phase EXCEPT ![a] = "generate"]
  /\ toolset' = [toolset EXCEPT ![a] = ts]
  /\ msgs'    = [msgs EXCEPT ![a] = ms]

\* applyReminder: the tail user message of a copy carries the reminder, if the todo list
\* is not empty and there is a user message at all.
UserMessages(ms) == {i \in DOMAIN ms : ms[i].role = "user"}
TailUser(ms) == IF todos = <<>> \/ UserMessages(ms) = {} THEN 0
                ELSE CHOOSE i \in UserMessages(ms) : \A j \in UserMessages(ms) : j <= i
ApplyReminder(ms) == [i \in DOMAIN ms |-> IF i = TailUser(ms) THEN [ms[i] EXCEPT !.reminder = TRUE]
                                                             ELSE ms[i]]

\* stripReminder: the carrier is restored in the slice that is handed back.
StripReminder(ms) == IF tail = 0 THEN ms ELSE [ms EXCEPT ![tail].reminder = FALSE]

\* RunTurnStream: the user message (omitted for an empty input) and the reminder.
StartTurn(input) ==
  LET ms == IF input = "text" THEN Append(log, User) ELSE log IN
  /\ mode = "idle"
  /\ Len(log) < MaxLog
  /\ mode' = "chat"
  /\ tail' = TailUser(ms)
  /\ Run(Root, ApplyReminder(ms), ChatTools)
  /\ UNCHANGED <<log, calls, todos, next, screen>>

\* RunMemoryAgent: one user message and the finalizer tool.
StartMemoryAgent ==
  /\ mode = "idle"
  /\ log # <<>>
  /\ mode' = "memory"
  /\ tail' = 0
  /\ Run(Root, <<User>>, {"write_memory"})
  /\ UNCHANGED <<log, calls, todos, next, screen>>

-----------------------------------------------------------------------------
(* The loop                                                                *)

Stop(a) == /\ phase' = [phase EXCEPT ![a] = "off"]
           /\ msgs'  = [msgs EXCEPT ![a] = <<>>]
           /\ toolset' = [toolset EXCEPT ![a] = {}]

\* The call whose goroutine runs subagent c.
Waiting(c) == CHOOSE p \in Agents \X (1 .. MaxCalls) :
                /\ p[2] \in DOMAIN calls[p[1]]
                /\ calls[p[1]][p[2]].at = "child" /\ calls[p[1]][p[2]].child = c

\* The loop of a returns to its caller: the turn stores its messages, the memory agent's
\* are dropped, and a subagent's answer is the result of the call that spawned it.
ReturnTo(a, updated) ==
  \/ /\ a = Root
     /\ log' = IF mode = "chat" THEN StripReminder(updated) ELSE log
     /\ mode' = "idle" /\ tail' = 0
     /\ UNCHANGED calls
  \/ /\ a # Root
     /\ calls' = [calls EXCEPT ![Waiting(a)[1]][Waiting(a)[2]].at = "done"]
     /\ UNCHANGED <<log, mode, tail>>

\* The model answers with text.
GenerateText(a) ==
  /\ phase[a] = "generate"
  /\ ReturnTo(a, Append(msgs[a], Model(0)))
  /\ Stop(a)
  /\ UNCHANGED <<todos, next, screen>>

\* Mutant: a failed turn stores the messages it got so far.
GenerateErrorKeeps(a) ==
  /\ phase[a] = "generate"
  /\ ReturnTo(a, msgs[a])
  /\ Stop(a)
  /\ UNCHANGED <<todos, next, screen>>

\* The model call fails, or the context is done. A failed turn leaves the log alone; a
\* failed subagent is an error message for its parent.
GenerateError(a) ==
  /\ phase[a] = "generate"
  /\ \/ a = Root /\ mode' = "idle" /\ tail' = 0 /\ UNCHANGED <<log, calls>>
     \/ a # Root /\ ReturnTo(a, <<>>)
  /\ Stop(a)
  /\ UNCHANGED <<todos, next, screen>>

\* The model asks for tools. Asking for one that was not offered is answered by the
\* registry's executor without effect, like "bash"; an agent that was offered none is
\* assumed to ask for none (the loop has no executor then).
GenerateTools(a, names) ==
  /\ phase[a] = "generate"
  /\ toolset[a] # {}
  /\ \A i \in DOMAIN names : names[i] \in toolset[a] \cup {"bash"}
  /\ Rounds(msgs[a]) < MaxRounds
  /\ msgs'  = [msgs EXCEPT ![a] = Append(@, Model(Len(names)))]
  /\ calls' = [calls EXCEPT ![a] = [i \in DOMAIN names |-> Call(names[i])]]
  /\ phase' = [phase EXCEPT ![a] = "tools"]
  /\ UNCHANGED <<log, mode, tail, toolset, todos, next, screen>>

\* wg.Wait(): every goroutine of the round has ended.
\* Mutant: a call that runs a subagent is not waited for.
AllDoneButSpawn(a) == \A i \in DOMAIN calls[a] : calls[a][i].at \in {"done", "child"}
AllDone(a)         == \A i \in DOMAIN calls[a] : calls[a][i].at = "done"

\* msgs[i] = msg: goroutine i fills slot i, so results stand in call order.
\* Mutant: a goroutine appends its result, the last call's first.
ResultsAppended(a) == [i \in DOMAIN calls[a] |-> Tool(Len(calls[a]) + 1 - i)]
Results(a)         == [i \in DOMAIN calls[a] |-> Tool(i)]

\* done: an atomic flag that any call of the round may set.
\* Mutant: every goroutine writes the flag, and the last one wins.
SignalledByLast(a) == calls[a][Len(calls[a])].signal
Signalled(a)       == \E i \in DOMAIN calls[a] : calls[a][i].signal

\* executeToolsParallel returns: ErrDone ends the loop, otherwise the results are appended
\* and the model is asked again.
CollectTools(a) ==
  /\ phase[a] = "tools"
  /\ AllDone(a)
  /\ calls' = [calls EXCEPT ![a] = <<>>]
  /\ IF Signalled(a)
     THEN /\ Stop(a)
          /\ mode' = "idle" /\ tail' = 0
     ELSE /\ msgs'  = [msgs EXCEPT ![a] = @ \o Results(a)]
          /\ phase' = [phase EXCEPT ![a] = "generate"]
          /\ UNCHANGED <<mode, tail, toolset>>
  /\ UNCHANGED <<log, todos, next, screen>>

-----------------------------------------------------------------------------
(* executeOne, per call                                                    *)

\* The call has been executed. The turn's executor is wrapped to report the todo list
\* after a todo tool; a subagent's executor is the bare registry.
Executed(a, c) == IF a = Root /\ mode = "chat" /\ c.name \in TodoTools
                  THEN [c EXCEPT !.at = "acted"] ELSE [c EXCEPT !.at = "done"]

Starting(a, i) == /\ phase[a] = "tools"
                  /\ i \in DOMAIN calls[a]
                  /\ calls[a][i].at = "start"

\* bash, an unknown tool, or an error of any tool: a result message and nothing else.
CallPlain(a, i) ==
  /\ Starting(a, i)
  /\ SetCall(a, i, Executed(a, calls[a][i]))
  /\ UNCHANGED <<log, mode, tail, phase, toolset, msgs, todos, next, screen>>

CallTodoCreate(a, i, n) ==
  /\ Starting(a, i)
  /\ calls[a][i].name = "todo_create" /\ "todo_create" \in toolset[a]
  /\ Len(todos) + n <= MaxTodos
  /\ Create(n)
  /\ SetCall(a, i, Executed(a, calls[a][i]))
  /\ UNCHANGED <<log, mode, tail, phase, toolset, msgs, screen>>

CallTodoUpdate(a, i, id, s) ==
  /\ Starting(a, i)
  /\ calls[a][i].name = "todo_update" /\ "todo_update" \in toolset[a]
  /\ Update(id, s)
  /\ SetCall(a, i, Executed(a, calls[a][i]))
  /\ UNCHANGED <<log, mode, tail, phase, toolset, msgs, next, screen>>

\* onTodoSnapshot(todos.Snapshot()): the copy is taken, and then sent under the
\* connection's encoder mutex.
TakeSnapshot(a, i) ==
  /\ i \in DOMAIN calls[a] /\ calls[a][i].at = "acted"
  /\ SetCall(a, i, [calls[a][i] EXCEPT !.at = "snapped", !.view = todos])
  /\ UNCHANGED <<log, mode, tail, phase, toolset, msgs, todos, next, screen>>

SendSnapshot(a, i) ==
  /\ i \in DOMAIN calls[a] /\ calls[a][i].at = "snapped"
  /\ screen' = calls[a][i].view
  /\ SetCall(a, i, [calls[a][i] EXCEPT !.at = "done", !.view = <<>>])
  /\ UNCHANGED <<log, mode, tail, phase, toolset, msgs, todos, next>>

\* write_memory succeeds and signals ErrDone.
CallWriteMemory(a, i) ==
  /\ Starting(a, i)
  /\ calls[a][i].name = "write_memory" /\ "write_memory" \in toolset[a]
  /\ SetCall(a, i, [calls[a][i] EXCEPT !.at = "done", !.signal = TRUE])
  /\ UNCHANGED <<log, mode, tail, phase, toolset, msgs, todos, next, screen>>

\* spawn_agent. The child's tools come from the registry of the turn, whichever agent
\* calls: all but the spawn and todo tools, or the explicit list.
ChildTools(explicit, list) ==
  IF explicit THEN ChatTools \cap list ELSE ChatTools \ (TodoTools \cup {"spawn_agent"})

CallSpawnAgent(a, i, c, explicit, list) ==
  /\ explicit \/ list = {}
  /\ Starting(a, i)
  /\ calls[a][i].name = "spawn_agent" /\ "spawn_agent" \in toolset[a]
  /\ phase[c] = "off"
  /\ SetCall(a, i, [calls[a][i] EXCEPT !.at = "child", !.child = c])
  /\ Run(c, <<User>>, ChildTools(explicit, list))
  /\ UNCHANGED <<log, mode, tail, todos, next, screen>>

-----------------------------------------------------------------------------
CallStep(a, i) ==
  \/ CallPlain(a, i) \/ TakeSnapshot(a, i) \/ SendSnapshot(a, i) \/ CallWriteMemory(a, i)
  \/ \E n \in 1 .. MaxBatch : CallTodoCreate(a, i, n)
  \/ \E id \in 1 .. MaxTodos, s \in Statuses \cup {""} : CallTodoUpdate(a, i, id, s)
  \/ \E c \in Children, list \in Lists \cup {{}}, e \in BOOLEAN : CallSpawnAgent(a, i, c, e, list)

LoopStep(a) ==
  \/ GenerateText(a) \/ GenerateError(a) \/ CollectTools(a)
  \/ \E n \in 1 .. MaxCalls : \E names \in [1 .. n -> ToolNames] : GenerateTools(a, names)
  \/ \E i \in 1 .. MaxCalls : CallStep(a, i)

\* The history has reached its bound and no loop runs.
Finished == mode = "idle" /\ Len(log) >= MaxLog /\ UNCHANGED vars

Next ==
  \/ \E input \in {"text", "empty"} : StartTurn(input)
  \/ StartMemoryAgent
  \/ \E a \in Agents : LoopStep(a)
  \/ Finished

Spec == Init /\ [][Next]_vars

-----------------------------------------------------------------------------
(* Properties                                                              *)

Messages == [role : {"user", "model", "tool"}, calls : Nat, answers : Nat, reminder : BOOLEAN]
Items    == [id : Nat, status : Statuses]
CallRecords == [name : ToolNames, at : {"start", "acted", "snapped", "child", "done"},
                signal : BOOLEAN, view : Seq(Items), child : Agents]

\* Every variable has the shape its Go counterpart has.
TypeOK ==
  /\ log \in Seq(Messages)
  /\ mode \in {"idle", "chat", "memory"}
  /\ tail \in Nat
  /\ phase \in [Agents -> {"off", "generate", "tools"}]
  /\ toolset \in [Agents -> SUBSET ToolNames]
  /\ msgs \in [Agents -> Seq(Messages)]
  /\ calls \in [Agents -> Seq(CallRecords)]
  /\ todos \in Seq(Items) /\ screen \in Seq(Items)
  /\ next \in Nat

\* Every history sent to a model is one a provider accepts: each message with tool calls is
\* followed by exactly one result per call, in call order, and no result stands alone.
Paired(ms) ==
  /\ \A i \in DOMAIN ms : ms[i].calls > 0 =>
       /\ i + ms[i].calls <= Len(ms)
       /\ \A k \in 1 .. ms[i].calls : ms[i + k].answers = k
  /\ \A i \in DOMAIN ms : ms[i].answers > 0 =>
       ms[i].answers < i /\ ms[i - ms[i].answers].calls >= ms[i].answers
RequestsArePaired == /\ \A a \in Agents : phase[a] = "generate" => Paired(msgs[a])
                     /\ Paired(log)

\* A turn is all or nothing: the log only changes by the whole of an answered turn, which
\* ends with the model's text, rewrites nothing that was there, and carries no trace of the
\* reminder that was sent with it (session.Config: it "never lands in the session's
\* canonical log").
Carriers(ms) == {i \in DOMAIN ms : ms[i].reminder}
TurnIsAtomic ==
  [][log' = log \/ /\ Len(log') > Len(log)
                   /\ SubSeq(log', 1, Len(log)) = log
                   /\ log'[Len(log')] = Model(0)
                   /\ Carriers(log') = {}]_vars

\* An id means the same item for ever, to the model and to the user: parallel calls of the
\* turn and of its subagents never number two items alike, and every list the client shows
\* or is about to be sent, however old, is the beginning of the session's list.
Ids(items) == [i \in DOMAIN items |-> items[i].id]
InFlight   == UNION {{calls[a][i].view : i \in DOMAIN calls[a]} : a \in Agents}
TodoIdsAreStable ==
  /\ Ids(todos) = [i \in 1 .. next |-> i]
  /\ \A items \in InFlight \cup {screen} :
       Len(items) <= Len(todos) /\ Ids(items) = SubSeq(Ids(todos), 1, Len(items))

\* Structured concurrency: a subagent runs exactly while one call waits for it, so no
\* subagent outlives the turn that (directly or not) spawned it.
Waits(c) == {p \in Agents \X (1 .. MaxCalls) :
               /\ p[2] \in DOMAIN calls[p[1]]
               /\ calls[p[1]][p[2]].at = "child" /\ calls[p[1]][p[2]].child = c}
SubagentsAreAwaited ==
  /\ \A c \in Children : Cardinality(Waits(c)) = (IF phase[c] = "off" THEN 0 ELSE 1)
  /\ mode = "idle" => \A a \in Agents : phase[a] = "off" /\ calls[a] = <<>>

\* The finalizer's signal is never lost among the parallel calls of its round: once it has
\* been given, the loop does not call the model again.
FinalizerStops ==
  [][\A a \in Agents : (\E i \in DOMAIN calls[a] : calls[a][i].signal)
       => phase'[a] # "generate"]_vars

\* What OnTodoSnapshotFunc says ("called after each todo_create or todo_update tool
\* executes, carrying a defensive copy of the session's current todo list"): between turns
\* the client shows the list. Does not hold: of two parallel calls the one that copied
\* first may send last.
ScreenIsCurrent == mode = "idle" => screen = todos
=============================================================================
