--------------------------- MODULE AgentLoopProofs ---------------------------
(***************************************************************************)
(* Safety of AgentLoop for any number of subagents, calls and rounds.      *)
(***************************************************************************)
EXTENDS AgentLoop, NumberFacts, SequenceTheorems, FiniteSetTheorems, TLAPS

\* Goroutines belong to a round of tool calls, the root loop to a turn or the memory agent,
\* and only the latter has the finalizer tool.
LoopInv ==
  /\ \A a \in Agents : phase[a] # "tools" => calls[a] = <<>>
  /\ mode = "idle" <=> phase[Root] = "off"
  /\ \A a \in Agents : "write_memory" \in toolset[a] => a = Root /\ mode = "memory"
  /\ \A a \in Agents : \A i \in DOMAIN calls[a] : calls[a][i].signal => a = Root /\ mode = "memory"

\* A call that waits for a subagent.
WaitsFor(a, i, c) == i \in DOMAIN calls[a] /\ calls[a][i].at = "child" /\ calls[a][i].child = c

\* A subagent runs while exactly one call waits for it, ...
WaitInv ==
  \A c \in Children :
    /\ phase[c] # "off" => \E p \in Agents \X (1 .. MaxCalls) : Waits(c) = {p}
    /\ phase[c] = "off" => Waits(c) = {}

\* ... and no subagents wait for each other in a circle: of any set of them that run, one is
\* waited for from outside the set.
TreeInv ==
  \A S \in SUBSET Children :
    S # {} /\ (\A c \in S : phase[c] # "off") => \E c \in S : \E p \in Waits(c) : p[1] \notin S

\* A list of todo items numbered from one on, at most as long as the session's.
Numbered(items) == Len(items) <= next /\ \A i \in 1 .. Len(items) : items[i].id = i

TodoInv ==
  /\ Len(todos) = next /\ Numbered(todos) /\ Numbered(screen)
  /\ \A a \in Agents : \A i \in DOMAIN calls[a] : Numbered(calls[a][i].view)

\* The messages of a loop are paired up to the round under way, whose calls they end with.
PairInv ==
  /\ Paired(log)
  /\ \A a \in Agents : phase[a] = "generate" => Paired(msgs[a])
  /\ \A a \in Agents : phase[a] = "tools" =>
       /\ msgs[a] # <<>> /\ msgs[a][Len(msgs[a])] = Model(Len(calls[a]))
       /\ Paired(SubSeq(msgs[a], 1, Len(msgs[a]) - 1))

\* A turn's messages extend the log, apart from the reminder in the one message that carries
\* it.
TurnInv ==
  /\ \A i \in 1 .. Len(log) : log[i].reminder = FALSE
  /\ mode = "chat" =>
       /\ Len(log) <= Len(msgs[Root]) /\ tail <= Len(msgs[Root])
       /\ \A i \in 1 .. Len(msgs[Root]) : i # tail => msgs[Root][i].reminder = FALSE
       /\ \A i \in 1 .. Len(log) :
            log[i] = IF i = tail THEN [msgs[Root][i] EXCEPT !.reminder = FALSE] ELSE msgs[Root][i]

IndInv == TypeOK /\ LoopInv /\ WaitInv /\ TreeInv /\ TodoInv /\ PairInv /\ TurnInv

-----------------------------------------------------------------------------
(* Records                                                                 *)

USE BoundsAssumption DEF Agents

\* The messages of the loop are messages, and what their fields hold.
LEMMA MessageFields ==
  /\ User \in Messages /\ User.calls = 0 /\ User.answers = 0 /\ User.reminder = FALSE
  /\ \A n \in Nat : /\ Model(n) \in Messages /\ Model(n).calls = n
                    /\ Model(n).answers = 0 /\ Model(n).reminder = FALSE
  /\ \A n \in Nat : /\ Tool(n) \in Messages /\ Tool(n).calls = 0
                    /\ Tool(n).answers = n /\ Tool(n).reminder = FALSE
  /\ \A m \in Messages : m.calls \in Nat /\ m.answers \in Nat
  BY DEF User, Model, Tool, Messages

\* The reminder is added to a message and taken out again.
LEMMA ReminderField ==
  ASSUME NEW m \in Messages, NEW b \in BOOLEAN
  PROVE  LET x == [m EXCEPT !.reminder = b]
         IN  /\ x \in Messages /\ x.calls = m.calls /\ x.answers = m.answers /\ x.reminder = b
             /\ m.reminder = FALSE => [x EXCEPT !.reminder = FALSE] = m
  BY DEF Messages

\* A call's record as the steps of its goroutine change it.
LEMMA CallFields ==
  ASSUME NEW r \in CallRecords
  PROVE  /\ [r EXCEPT !.at = "done"] \in CallRecords
         /\ [r EXCEPT !.at = "done"].at = "done"
         /\ [r EXCEPT !.at = "done"].signal = r.signal /\ [r EXCEPT !.at = "done"].view = r.view
         /\ \A a \in Agents : /\ Executed(a, r) \in CallRecords
                              /\ Executed(a, r).at \in {"acted", "done"}
                              /\ Executed(a, r).signal = r.signal /\ Executed(a, r).view = r.view
  BY DEF CallRecords, Executed

\* The same for the snapshot, the finalizer's signal and the spawned subagent.
LEMMA CallFieldsMore ==
  ASSUME NEW r \in CallRecords
  PROVE  /\ LET x == [r EXCEPT !.at = "done", !.view = <<>>]
            IN  x \in CallRecords /\ x.at = "done" /\ x.signal = r.signal /\ x.view = <<>>
         /\ LET x == [r EXCEPT !.at = "done", !.signal = TRUE]
            IN  x \in CallRecords /\ x.at = "done" /\ x.view = r.view
         /\ \A c \in Agents :
              LET x == [r EXCEPT !.at = "child", !.child = c]
              IN  /\ x \in CallRecords /\ x.at = "child" /\ x.child = c
                  /\ x.signal = r.signal /\ x.view = r.view
  BY EmptySeq DEF CallRecords

\* The snapshot a todo call takes.
LEMMA SnapshotFields ==
  ASSUME NEW r \in CallRecords, NEW v \in Seq(Items)
  PROVE  LET x == [r EXCEPT !.at = "snapped", !.view = v]
         IN  x \in CallRecords /\ x.at = "snapped" /\ x.signal = r.signal /\ x.view = v
  BY DEF CallRecords

\* A call that has just been asked for.
LEMMA NewCallFields ==
  \A n \in ToolNames : Call(n) \in CallRecords /\ Call(n).at = "start" /\ Call(n).signal = FALSE /\ Call(n).view = <<>>
  BY EmptySeq DEF CallRecords, Call

\* SetCall changes one call.
LEMMA OneCall ==
  ASSUME TypeOK, NEW a \in Agents, NEW i \in DOMAIN calls[a], NEW r \in CallRecords, SetCall(a, i, r)
  PROVE  /\ calls' \in [Agents -> Seq(CallRecords)]
         /\ \A b \in Agents : Len(calls'[b]) = Len(calls[b]) /\ DOMAIN calls'[b] = DOMAIN calls[b]
         /\ calls'[a][i] = r
         /\ \A b \in Agents : b # a => calls'[b] = calls[b]
         /\ \A b \in Agents : \A j \in DOMAIN calls[b] : b # a \/ j # i => calls'[b][j] = calls[b][j]
  <1>1. calls \in [Agents -> Seq(CallRecords)] /\ calls' = [calls EXCEPT ![a] = [calls[a] EXCEPT ![i] = r]]
    BY DEF TypeOK, SetCall
  <1>2. i \in 1 .. Len(calls[a]) /\ DOMAIN calls[a] = 1 .. Len(calls[a])
    BY <1>1
  <1>3. /\ [calls[a] EXCEPT ![i] = r] \in Seq(CallRecords) /\ Len([calls[a] EXCEPT ![i] = r]) = Len(calls[a])
        /\ \A j \in 1 .. Len(calls[a]) : [calls[a] EXCEPT ![i] = r][j] = IF j = i THEN r ELSE calls[a][j]
    BY <1>1, <1>2, ExceptSeq
  <1> QED BY <1>1, <1>2, <1>3

-----------------------------------------------------------------------------
(* Steps                                                                   *)

\* What any step of a goroutine does, other than spawning: it changes its own record and
\* perhaps the todo list or the screen.
TodoStep(a, i) ==
  \/ UNCHANGED <<todos, next, screen>>
  \/ \E n \in 1 .. MaxBatch : Create(n) /\ UNCHANGED screen
  \/ \E id \in 1 .. MaxTodos, s \in Statuses \cup {""} : Update(id, s) /\ UNCHANGED <<next, screen>>
  \/ screen' = calls[a][i].view /\ UNCHANGED <<todos, next>>

Effect(a, i) ==
  /\ i \in DOMAIN calls[a] /\ calls[a][i].at # "child"
  /\ \E r \in CallRecords :
       /\ SetCall(a, i, r)
       /\ r.at # "child"
       /\ r.signal => calls[a][i].signal \/ "write_memory" \in toolset[a]
       /\ r.view = calls[a][i].view \/ r.view = todos \/ r.view = <<>>
  /\ UNCHANGED <<log, mode, tail, phase, toolset, msgs>>
  /\ TodoStep(a, i)

\* The root loop ends with an answer or an error, ...
RootAnswers ==
  /\ phase[Root] = "generate"
  /\ log' = IF mode = "chat" THEN StripReminder(Append(msgs[Root], Model(0))) ELSE log
  /\ mode' = "idle" /\ tail' = 0
  /\ Stop(Root)
  /\ UNCHANGED <<calls, todos, next, screen>>

RootFails ==
  /\ phase[Root] = "generate"
  /\ mode' = "idle" /\ tail' = 0
  /\ Stop(Root)
  /\ UNCHANGED <<log, calls, todos, next, screen>>

\* ... and a subagent's by ending the one call that waits for it.
Returns(c) ==
  /\ phase[c] = "generate"
  /\ \E b \in Agents, j \in 1 .. MaxCalls :
       /\ Waits(c) = {<<b, j>>}
       /\ SetCall(b, j, [calls[b][j] EXCEPT !.at = "done"])
  /\ Stop(c)
  /\ UNCHANGED <<log, mode, tail, todos, next, screen>>

Spawns(a, i, c) ==
  \E list \in Lists \cup {{}}, e \in BOOLEAN : CallSpawnAgent(a, i, c, e, list)

Step ==
  \/ \E input \in {"text", "empty"} : StartTurn(input)
  \/ StartMemoryAgent
  \/ RootAnswers
  \/ RootFails
  \/ \E c \in Children : Returns(c)
  \/ \E a \in Agents, n \in 1 .. MaxCalls : \E names \in [1 .. n -> ToolNames] : GenerateTools(a, names)
  \/ \E a \in Agents : CollectTools(a)
  \/ \E a \in Agents, i \in 1 .. MaxCalls : Effect(a, i)
  \/ \E a \in Agents, i \in 1 .. MaxCalls, c \in Children : Spawns(a, i, c)
  \/ UNCHANGED vars

\* The members of Waits.
LEMMA WaitMembers ==
  ASSUME TypeOK, NEW c \in Children, NEW b, NEW j, <<b, j>> \in Waits(c)
  PROVE  /\ b \in Agents /\ j \in 1 .. MaxCalls /\ j \in DOMAIN calls[b]
         /\ calls[b][j].at = "child" /\ calls[b][j].child = c /\ calls[b][j] \in CallRecords
  BY DEF Waits, TypeOK

\* A subagent's loop returns to the call that waits for it.
LEMMA ChildReturns ==
  ASSUME TypeOK, WaitInv, NEW c \in Children, GenerateText(c) \/ GenerateError(c)
  PROVE  Returns(c)
  <1>1. phase[c] = "generate" /\ Stop(c) /\ UNCHANGED <<log, mode, tail, todos, next, screen>>
    BY DEF GenerateText, GenerateError, ReturnTo
  <1>2. calls' = [calls EXCEPT ![Waiting(c)[1]][Waiting(c)[2]].at = "done"]
    BY DEF GenerateText, GenerateError, ReturnTo
  <1>3. PICK p \in Agents \X (1 .. MaxCalls) : Waits(c) = {p}
    BY <1>1 DEF WaitInv
  <1>4. PICK b \in Agents, j \in 1 .. MaxCalls : p = <<b, j>>
    BY <1>3
  <1>5. Waiting(c) = p
    BY <1>3 DEF Waiting, Waits
  <1>6. SetCall(b, j, [calls[b][j] EXCEPT !.at = "done"])
    BY <1>2, <1>4, <1>5 DEF SetCall
  <1> QED BY <1>1, <1>3, <1>4, <1>6 DEF Returns

\* Every step of a goroutine is one of the abstract steps.
LEMMA CallSteps ==
  ASSUME TypeOK, NEW a \in Agents, NEW i \in 1 .. MaxCalls, CallStep(a, i)
  PROVE  Effect(a, i) \/ \E c \in Children : Spawns(a, i, c)
  <1> DEFINE r == calls[a][i]
  <1>1. CASE CallPlain(a, i)
    <2> DEFINE x == Executed(a, r)
    <2>1. i \in DOMAIN calls[a] /\ r \in CallRecords /\ r.at = "start" /\ todos \in Seq(Items)
      <3>1. Starting(a, i)
        BY <1>1 DEF CallPlain
      <3> QED BY <3>1 DEF Starting, TypeOK
    <2>2. SetCall(a, i, x) /\ UNCHANGED <<log, mode, tail, phase, toolset, msgs>> /\ TodoStep(a, i)
      BY <1>1 DEF CallPlain, TodoStep
    <2>3. x \in CallRecords /\ x.at # "child"
      BY <2>1, CallFields
    <2>4. x.view = r.view \/ x.view = todos \/ x.view = <<>>
      BY <2>1, CallFields
    <2>5. x.signal = r.signal
      BY <2>1, CallFields
    <2> HIDE DEF x
    <2> QED BY <2>1, <2>2, <2>3, <2>4, <2>5 DEF Effect
  <1>2. CASE TakeSnapshot(a, i)
    <2> DEFINE x == [r EXCEPT !.at = "snapped", !.view = todos]
    <2>1. i \in DOMAIN calls[a] /\ r \in CallRecords /\ r.at = "acted" /\ todos \in Seq(Items)
      BY <1>2 DEF TakeSnapshot, TypeOK
    <2>2. SetCall(a, i, x) /\ UNCHANGED <<log, mode, tail, phase, toolset, msgs>> /\ TodoStep(a, i)
      BY <1>2 DEF TakeSnapshot, TodoStep
    <2>3. x \in CallRecords /\ x.at # "child"
      BY <2>1, SnapshotFields
    <2>4. x.view = todos
      BY <2>1 DEF CallRecords
    <2>5. x.signal = r.signal
      BY <2>1, SnapshotFields
    <2> HIDE DEF x
    <2> QED BY <2>1, <2>2, <2>3, <2>4, <2>5 DEF Effect
  <1>3. CASE SendSnapshot(a, i)
    <2> DEFINE x == [r EXCEPT !.at = "done", !.view = <<>>]
    <2>1. i \in DOMAIN calls[a] /\ r \in CallRecords /\ r.at = "snapped" /\ todos \in Seq(Items)
      BY <1>3 DEF SendSnapshot, TypeOK
    <2>2. SetCall(a, i, x) /\ UNCHANGED <<log, mode, tail, phase, toolset, msgs>> /\ TodoStep(a, i)
      BY <1>3 DEF SendSnapshot, TodoStep
    <2>3. x \in CallRecords /\ x.at # "child"
      BY <2>1, CallFieldsMore
    <2>4. x.view = r.view \/ x.view = todos \/ x.view = <<>>
      BY <2>1, CallFieldsMore
    <2>5. x.signal = r.signal
      BY <2>1, CallFieldsMore
    <2> HIDE DEF x
    <2> QED BY <2>1, <2>2, <2>3, <2>4, <2>5 DEF Effect
  <1>4. CASE CallWriteMemory(a, i)
    <2> DEFINE x == [r EXCEPT !.at = "done", !.signal = TRUE]
    <2>1. i \in DOMAIN calls[a] /\ r \in CallRecords /\ r.at = "start" /\ todos \in Seq(Items)
      <3>1. Starting(a, i)
        BY <1>4 DEF CallWriteMemory
      <3> QED BY <3>1 DEF Starting, TypeOK
    <2>2. SetCall(a, i, x) /\ UNCHANGED <<log, mode, tail, phase, toolset, msgs>> /\ TodoStep(a, i)
      BY <1>4 DEF CallWriteMemory, TodoStep
    <2>3. x \in CallRecords /\ x.at # "child"
      BY <2>1, CallFieldsMore
    <2>4. x.view = r.view \/ x.view = todos \/ x.view = <<>>
      BY <2>1, CallFieldsMore
    <2>5. x.signal => r.signal \/ "write_memory" \in toolset[a]
      BY <1>4 DEF CallWriteMemory
    <2> HIDE DEF x
    <2> QED BY <2>1, <2>2, <2>3, <2>4, <2>5 DEF Effect
  <1>5. CASE \E n \in 1 .. MaxBatch : CallTodoCreate(a, i, n)
    <2> DEFINE x == Executed(a, r)
    <2>1. i \in DOMAIN calls[a] /\ r \in CallRecords /\ r.at = "start" /\ todos \in Seq(Items)
      <3>1. Starting(a, i)
        BY <1>5 DEF CallTodoCreate
      <3> QED BY <3>1 DEF Starting, TypeOK
    <2>2. SetCall(a, i, x) /\ UNCHANGED <<log, mode, tail, phase, toolset, msgs>> /\ TodoStep(a, i)
      BY <1>5 DEF CallTodoCreate, TodoStep
    <2>3. x \in CallRecords /\ x.at # "child"
      BY <2>1, CallFields
    <2>4. x.view = r.view \/ x.view = todos \/ x.view = <<>>
      BY <2>1, CallFields
    <2>5. x.signal = r.signal
      BY <2>1, CallFields
    <2> HIDE DEF x
    <2> QED BY <2>1, <2>2, <2>3, <2>4, <2>5 DEF Effect
  <1>6. CASE \E id \in 1 .. MaxTodos, s \in Statuses \cup {""} : CallTodoUpdate(a, i, id, s)
    <2> DEFINE x == Executed(a, r)
    <2>1. i \in DOMAIN calls[a] /\ r \in CallRecords /\ r.at = "start" /\ todos \in Seq(Items)
      <3>1. Starting(a, i)
        BY <1>6 DEF CallTodoUpdate
      <3> QED BY <3>1 DEF Starting, TypeOK
    <2>2. SetCall(a, i, x) /\ UNCHANGED <<log, mode, tail, phase, toolset, msgs>> /\ TodoStep(a, i)
      BY <1>6 DEF CallTodoUpdate, TodoStep
    <2>3. x \in CallRecords /\ x.at # "child"
      BY <2>1, CallFields
    <2>4. x.view = r.view \/ x.view = todos \/ x.view = <<>>
      BY <2>1, CallFields
    <2>5. x.signal = r.signal
      BY <2>1, CallFields
    <2> HIDE DEF x
    <2> QED BY <2>1, <2>2, <2>3, <2>4, <2>5 DEF Effect
  <1>7. CASE \E c \in Children, list \in Lists \cup {{}}, e \in BOOLEAN : CallSpawnAgent(a, i, c, e, list)
    BY <1>7 DEF Spawns
  <1> QED BY <1>1, <1>2, <1>3, <1>4, <1>5, <1>6, <1>7 DEF CallStep

\* Every step is one of the abstract steps.
LEMMA Steps ==
  ASSUME TypeOK, WaitInv, [Next]_vars
  PROVE  Step
  <1>1. ASSUME NEW a \in Agents, LoopStep(a) PROVE Step
    <2>1. CASE a \in Children /\ (GenerateText(a) \/ GenerateError(a))
      BY <2>1, ChildReturns DEF Step
    <2>2. CASE a = Root /\ GenerateText(a)
      <3>1. RootAnswers
        BY <2>2 DEF GenerateText, ReturnTo, RootAnswers
      <3> QED BY <3>1 DEF Step
    <2>3. CASE a = Root /\ GenerateError(a)
      <3>1. RootFails
        BY <2>3 DEF GenerateError, RootFails
      <3> QED BY <3>1 DEF Step
    <2>4. CASE CollectTools(a)
      BY <2>4 DEF Step
    <2>5. CASE \E n \in 1 .. MaxCalls : \E names \in [1 .. n -> ToolNames] : GenerateTools(a, names)
      BY <2>5 DEF Step
    <2>6. CASE \E i \in 1 .. MaxCalls : CallStep(a, i)
      BY <2>6, CallSteps DEF Step
    <2> QED BY <1>1, <2>1, <2>2, <2>3, <2>4, <2>5, <2>6 DEF LoopStep
  <1>2. CASE Finished
    BY <1>2 DEF Finished, Step
  <1> QED BY <1>1, <1>2 DEF Next, Step

-----------------------------------------------------------------------------
(* Message sequences                                                       *)

\* The reminder goes to a message of the sequence, or to none.
LEMMA TailBound ==
  ASSUME NEW ms \in Seq(Messages)
  PROVE  TailUser(ms) \in 0 .. Len(ms)
  <1>1. CASE todos = <<>> \/ UserMessages(ms) = {}
    BY <1>1 DEF TailUser
  <1>2. CASE ~ (todos = <<>> \/ UserMessages(ms) = {})
    <2>1. UserMessages(ms) \in SUBSET (0 .. Len(ms))
      BY DEF UserMessages
    <2>2. \E i \in UserMessages(ms) : \A j \in UserMessages(ms) : i >= j
      <3>1. Len(ms) \in Nat /\ UserMessages(ms) # {}
        BY <1>2
      <3> QED BY <2>1, <3>1, GreatestNumber
    <2>3. \E i \in UserMessages(ms) : \A j \in UserMessages(ms) : j <= i
      BY <2>1, <2>2
    <2>4. TailUser(ms) \in UserMessages(ms)
      BY <1>2, <2>3 DEF TailUser
    <2> QED BY <2>1, <2>4
  <1> QED BY <1>1, <1>2

\* applyReminder changes the reminder of one message and nothing else.
LEMMA Reminded ==
  ASSUME NEW ms \in Seq(Messages)
  PROVE  /\ ApplyReminder(ms) \in Seq(Messages) /\ Len(ApplyReminder(ms)) = Len(ms)
         /\ \A i \in 1 .. Len(ms) :
              /\ ApplyReminder(ms)[i].calls = ms[i].calls
              /\ ApplyReminder(ms)[i].answers = ms[i].answers
              /\ ApplyReminder(ms)[i] = IF i = TailUser(ms) THEN [ms[i] EXCEPT !.reminder = TRUE]
                                                           ELSE ms[i]
  <1> DEFINE x(i) == IF i = TailUser(ms) THEN [ms[i] EXCEPT !.reminder = TRUE] ELSE ms[i]
  <1>1. ASSUME NEW i \in 1 .. Len(ms)
        PROVE  x(i) \in Messages /\ x(i).calls = ms[i].calls /\ x(i).answers = ms[i].answers
    <2>1. ms[i] \in Messages
      OBVIOUS
    <2> QED BY <2>1, ReminderField
  <1>2. ApplyReminder(ms) = [i \in 1 .. Len(ms) |-> x(i)]
    BY DEF ApplyReminder
  <1> HIDE DEF x
  <1>3. Len(ms) \in Nat /\ \A i \in 1 .. Len(ms) : x(i) \in Messages
    BY <1>1
  <1>4. [i \in 1 .. Len(ms) |-> x(i)] \in Seq(Messages)
    BY <1>3, IsASeq
  <1>5. Len(ApplyReminder(ms)) = Len(ms)
    BY <1>2, <1>3, <1>4
  <1> QED BY <1>1, <1>2, <1>4, <1>5 DEF x

\* stripReminder likewise.
LEMMA Stripped ==
  ASSUME NEW ms \in Seq(Messages), tail \in 0 .. Len(ms)
  PROVE  /\ StripReminder(ms) \in Seq(Messages) /\ Len(StripReminder(ms)) = Len(ms)
         /\ \A i \in 1 .. Len(ms) :
              /\ StripReminder(ms)[i].calls = ms[i].calls
              /\ StripReminder(ms)[i].answers = ms[i].answers
              /\ StripReminder(ms)[i] = IF i = tail THEN [ms[i] EXCEPT !.reminder = FALSE] ELSE ms[i]
  <1>1. CASE tail = 0
    BY <1>1 DEF StripReminder
  <1>2. CASE tail # 0
    <2> DEFINE m == [ms[tail] EXCEPT !.reminder = FALSE]
    <2>1. tail \in 1 .. Len(ms) /\ ms[tail] \in Messages
      BY <1>2
    <2>2. m \in Messages /\ m.calls = ms[tail].calls /\ m.answers = ms[tail].answers
      BY <2>1, ReminderField
    <2>3. StripReminder(ms) = [ms EXCEPT ![tail] = m]
      BY <1>2 DEF StripReminder
    <2> HIDE DEF m
    <2>4. /\ [ms EXCEPT ![tail] = m] \in Seq(Messages) /\ Len([ms EXCEPT ![tail] = m]) = Len(ms)
          /\ \A i \in 1 .. Len(ms) : [ms EXCEPT ![tail] = m][i] = IF i = tail THEN m ELSE ms[i]
      BY <2>1, <2>2, ExceptSeq
    <2> QED BY <2>2, <2>3, <2>4 DEF m
  <1> QED BY <1>1, <1>2

\* The results of a round, in call order.
LEMMA ResultList ==
  ASSUME NEW n \in Nat
  PROVE  LET rs == [i \in 1 .. n |-> Tool(i)]
         IN  /\ rs \in Seq(Messages) /\ Len(rs) = n /\ \A i \in 1 .. n : rs[i] = Tool(i)
  <1>1. \A i \in 1 .. n : Tool(i) \in Messages
    BY MessageFields
  <1> DEFINE rs == [i \in 1 .. n |-> Tool(i)]
  <1>2. rs \in Seq(Messages)
    BY <1>1, IsASeq
  <1>3. DOMAIN rs = 1 .. n /\ \A i \in 1 .. n : rs[i] = Tool(i)
    OBVIOUS
  <1> HIDE DEF rs
  <1>4. Len(rs) = n
    BY <1>2, <1>3
  <1> QED BY <1>2, <1>3, <1>4 DEF rs

\* The part of a history whose calls and answers are those of a paired one.
LEMMA PairedStart ==
  ASSUME NEW ms \in Seq(Messages), NEW ns \in Seq(Messages), Len(ms) <= Len(ns), Paired(ms),
         \A i \in 1 .. Len(ms) : ns[i].calls = ms[i].calls /\ ns[i].answers = ms[i].answers,
         NEW i \in 1 .. Len(ms)
  PROVE  /\ ns[i].calls > 0 => /\ i + ns[i].calls <= Len(ms)
                               /\ \A k \in 1 .. ns[i].calls : ns[i + k].answers = k
         /\ ns[i].answers > 0 => /\ ns[i].answers < i
                                 /\ ns[i - ns[i].answers].calls >= ns[i].answers
  <1> DEFINE c == ms[i].calls
             d == ms[i].answers
             l == Len(ms)
  <1>1. c \in Nat /\ d \in Nat /\ l \in Nat /\ DOMAIN ms = 1 .. l
    BY MessageFields
  <1>2. ns[i].calls = c /\ ns[i].answers = d
    OBVIOUS
  <1>3. \A j \in 1 .. l : ns[j].calls = ms[j].calls /\ ns[j].answers = ms[j].answers
    OBVIOUS
  <1>4. c > 0 => i + c <= l /\ \A k \in 1 .. c : ms[i + k].answers = k
    BY <1>1 DEF Paired
  <1>5. d > 0 => d < i /\ ms[i - d].calls >= d
    BY <1>1 DEF Paired
  <1>6. i \in 1 .. l
    OBVIOUS
  <1> HIDE DEF c, d, l
  <1>7. ASSUME c > 0
        PROVE  i + c <= l /\ \A k \in 1 .. c : ns[i + k].answers = k
    <2>1. i + c <= l
      BY <1>4, <1>7
    <2>2. ASSUME NEW k \in 1 .. c PROVE ns[i + k].answers = k
      <3>1. i + k \in 1 .. l
        BY <1>1, <1>6, <2>1
      <3> QED BY <1>3, <1>4, <1>7, <3>1
    <2> QED BY <2>1, <2>2
  <1>8. ASSUME d > 0
        PROVE  d < i /\ ns[i - d].calls >= d
    <2>1. d < i
      BY <1>5, <1>8
    <2>2. i - d \in 1 .. l
      BY <1>1, <1>6, <1>8, <2>1
    <2> QED BY <1>3, <1>5, <1>8, <2>1, <2>2
  <1> QED BY <1>2, <1>7, <1>8 DEF l

\* Whether a history is paired depends on the calls and the answers only.
LEMMA PairedBySkeleton ==
  ASSUME NEW ms \in Seq(Messages), NEW ns \in Seq(Messages), Len(ns) = Len(ms), Paired(ms),
         \A i \in 1 .. Len(ms) : ns[i].calls = ms[i].calls /\ ns[i].answers = ms[i].answers
  PROVE  Paired(ns)
  <1>1. DOMAIN ns = 1 .. Len(ns) /\ Len(ms) <= Len(ns)
    OBVIOUS
  <1> QED BY <1>1, PairedStart DEF Paired

\* A message without calls or answers may follow a paired history.
LEMMA PairedAppend ==
  ASSUME NEW ms \in Seq(Messages), NEW m \in Messages, m.calls = 0, m.answers = 0, Paired(ms)
  PROVE  Paired(Append(ms, m))
  <1> DEFINE ns == Append(ms, m)
             l  == Len(ms)
  <1>1. /\ ns \in Seq(Messages) /\ Len(ns) = l + 1 /\ ns[l + 1] = m /\ l \in Nat
        /\ \A i \in 1 .. l : ns[i] = ms[i]
    OBVIOUS
  <1> HIDE DEF ns
  <1>2. \A i \in 1 .. l : ns[i].calls = ms[i].calls /\ ns[i].answers = ms[i].answers
    BY <1>1
  <1>3. l <= Len(ns) /\ DOMAIN ns = 1 .. l + 1
    BY <1>1
  <1>4. ASSUME NEW i \in 1 .. l
        PROVE  /\ ns[i].calls > 0 => /\ i + ns[i].calls <= l
                                     /\ \A k \in 1 .. ns[i].calls : ns[i + k].answers = k
               /\ ns[i].answers > 0 => /\ ns[i].answers < i
                                       /\ ns[i - ns[i].answers].calls >= ns[i].answers
    BY <1>1, <1>2, <1>3, PairedStart
  <1>5. \A i \in 1 .. l + 1 : i \in 1 .. l \/ i = l + 1
    BY <1>1
  <1>6. ns[l + 1].calls = 0 /\ ns[l + 1].answers = 0 /\ ~ (0 > 0)
    BY <1>1
  <1> HIDE DEF l
  <1>7. \A i \in 1 .. l : ns[i].calls \in Nat
    <2>1. \A i \in 1 .. l : ns[i] \in Messages
      BY <1>1
    <2> QED BY <2>1, MessageFields
  <1>8. \A i \in 1 .. l : i + ns[i].calls <= l => i + ns[i].calls <= l + 1
    BY <1>1, <1>7
  <1>9. Paired(ns)
    BY <1>1, <1>3, <1>4, <1>5, <1>6, <1>8 DEF Paired
  <1> QED BY <1>9 DEF ns

\* The results of the round under way complete it.
LEMMA PairedRound ==
  ASSUME NEW s \in Seq(Messages), NEW n \in Nat, s # <<>>, s[Len(s)] = Model(n),
         Paired(SubSeq(s, 1, Len(s) - 1))
  PROVE  Paired(s \o [i \in 1 .. n |-> Tool(i)])
  <1> DEFINE rs == [i \in 1 .. n |-> Tool(i)]
             ns == s \o rs
             l  == Len(s) - 1
             ms == SubSeq(s, 1, l)
  <1>1. rs \in Seq(Messages) /\ Len(rs) = n /\ \A i \in 1 .. n : rs[i] = Tool(i)
    BY ResultList
  <1>2. l \in Nat /\ Len(s) = l + 1
    BY EmptySeq
  <1>3. ms \in Seq(Messages) /\ Len(ms) = l /\ \A i \in 1 .. l : ms[i] = s[i]
    <2>1. \A i \in 1 .. l : s[i] \in Messages
      BY <1>2
    <2>2. l \in Int /\ 1 \in Int
      BY <1>2
    <2> HIDE DEF l
    <2>3. /\ SubSeq(s, 1, l) \in Seq(Messages) /\ Len(SubSeq(s, 1, l)) = IF 1 <= l THEN l - 1 + 1 ELSE 0
          /\ \A i \in 1 .. l - 1 + 1 : SubSeq(s, 1, l)[i] = s[1 + i - 1]
      BY <2>1, <2>2, SubSeqProperties
    <2> QED BY <1>2, <2>3
  <1>4. Paired(ms) /\ s[l + 1] = Model(n)
    BY <1>2
  <1> HIDE DEF rs, l, ms
  <1>5. /\ ns \in Seq(Messages) /\ Len(ns) = l + 1 + n
        /\ \A i \in 1 .. l + 1 + n : ns[i] = IF i <= l + 1 THEN s[i] ELSE rs[i - (l + 1)]
    <2>1. /\ s \o rs \in Seq(Messages) /\ Len(s \o rs) = Len(s) + Len(rs)
          /\ \A i \in 1 .. Len(s) + Len(rs) : (s \o rs)[i] = IF i <= Len(s) THEN s[i] ELSE rs[i - Len(s)]
      BY <1>1, ConcatProperties
    <2>2. Len(s) = l + 1 /\ Len(rs) = n
      BY <1>1, <1>2
    <2> QED BY <2>1, <2>2
  <1> HIDE DEF ns
  <1>6. \A i \in 1 .. l : ns[i] = ms[i]
    BY <1>2, <1>3, <1>5
  <1>7. \A i \in 1 .. Len(ms) : ns[i].calls = ms[i].calls /\ ns[i].answers = ms[i].answers
    BY <1>3, <1>6
  <1>8. ns[l + 1].calls = n /\ ns[l + 1].answers = 0
    <2>1. ns[l + 1] = Model(n)
      BY <1>2, <1>4, <1>5
    <2> QED BY <2>1, MessageFields
  <1>9. \A k \in 1 .. n : ns[l + 1 + k].calls = 0 /\ ns[l + 1 + k].answers = k
    <2>1. ASSUME NEW k \in 1 .. n PROVE ns[l + 1 + k] = rs[k]
      <3> DEFINE i == l + 1 + k
      <3>1. i \in 1 .. l + 1 + n /\ ~ (i <= l + 1) /\ i - (l + 1) = k
        BY <1>2
      <3> HIDE DEF i
      <3>2. ns[i] = rs[i - (l + 1)]
        BY <1>5, <3>1
      <3>3. ns[i] = rs[k]
        BY <3>1, <3>2
      <3> QED BY <3>3 DEF i
    <2> QED BY <1>1, <2>1, MessageFields
  <1>10. ASSUME NEW i \in 1 .. l
         PROVE  /\ ns[i].calls > 0 => /\ i + ns[i].calls <= l
                                      /\ \A k \in 1 .. ns[i].calls : ns[i + k].answers = k
                /\ ns[i].answers > 0 => /\ ns[i].answers < i
                                        /\ ns[i - ns[i].answers].calls >= ns[i].answers
    <2>1. Len(ms) <= Len(ns) /\ i \in 1 .. Len(ms)
      BY <1>2, <1>3, <1>5
    <2> QED BY <1>3, <1>4, <1>5, <1>7, <2>1, PairedStart
  <1>11. \A i \in 1 .. l : i + ns[i].calls <= l => i + ns[i].calls <= Len(ns)
    <2>1. \A i \in 1 .. l : ns[i].calls \in Nat
      BY <1>3, <1>6, MessageFields
    <2>2. ASSUME NEW i \in 1 .. l, NEW c \in Nat, i + c <= l PROVE i + c <= l + 1 + n
      BY <1>2, <2>2
    <2> QED BY <1>5, <2>1, <2>2
  <1>12. ASSUME NEW i \in 1 .. Len(ns)
         PROVE  \/ i \in 1 .. l
                \/ i = l + 1
                \/ \E k \in 1 .. n : i = l + 1 + k
    <2>1. CASE i <= l
      BY <1>2, <2>1
    <2>2. CASE i = l + 1
      BY <2>2
    <2>3. CASE i > l + 1
      <3>1. i - (l + 1) \in 1 .. n /\ i = l + 1 + (i - (l + 1))
        BY <1>2, <1>5, <2>3
      <3> QED BY <3>1
    <2> QED BY <1>2, <1>5, <2>1, <2>2, <2>3
  <1>13. ASSUME NEW i \in 1 .. Len(ns)
         PROVE  /\ ns[i].calls > 0 => /\ i + ns[i].calls <= Len(ns)
                                      /\ \A k \in 1 .. ns[i].calls : ns[i + k].answers = k
                /\ ns[i].answers > 0 => /\ ns[i].answers < i
                                        /\ ns[i - ns[i].answers].calls >= ns[i].answers
    <2>1. CASE i \in 1 .. l
      BY <1>10, <1>11, <2>1
    <2>2. CASE i = l + 1
      BY <1>2, <1>5, <1>8, <1>9, <2>2
    <2>3. ASSUME NEW k \in 1 .. n, i = l + 1 + k
          PROVE  /\ ~ (ns[i].calls > 0)
                 /\ ns[i].answers < i /\ ns[i - ns[i].answers].calls >= ns[i].answers
      <3>1. ns[i].calls = 0 /\ ns[i].answers = k
        BY <1>9, <2>3
      <3>2. i - k = l + 1 /\ k < i /\ n >= k
        BY <1>2, <2>3
      <3> QED BY <1>8, <3>1, <3>2
    <2> QED BY <1>12, <2>1, <2>2, <2>3
  <1>14. DOMAIN ns = 1 .. Len(ns)
    BY <1>5
  <1>15. Paired(ns)
    BY <1>13, <1>14 DEF Paired
  <1> QED BY <1>15 DEF ns, rs

-----------------------------------------------------------------------------
(* Types                                                                   *)

\* A loop that starts.
LEMMA RunFields ==
  ASSUME TypeOK, NEW a \in Agents, NEW ms \in Seq(Messages), NEW ts \in SUBSET ToolNames, Run(a, ms, ts)
  PROVE  /\ phase' \in [Agents -> {"off", "generate", "tools"}]
         /\ toolset' \in [Agents -> SUBSET ToolNames]
         /\ msgs' \in [Agents -> Seq(Messages)]
         /\ phase'[a] = "generate" /\ toolset'[a] = ts /\ msgs'[a] = ms
         /\ \A b \in Agents : b # a => /\ phase'[b] = phase[b] /\ toolset'[b] = toolset[b]
                                       /\ msgs'[b] = msgs[b]
  BY DEF TypeOK, Run

\* A loop that ends.
LEMMA StopFields ==
  ASSUME TypeOK, NEW a \in Agents, Stop(a)
  PROVE  /\ phase' \in [Agents -> {"off", "generate", "tools"}]
         /\ toolset' \in [Agents -> SUBSET ToolNames]
         /\ msgs' \in [Agents -> Seq(Messages)]
         /\ phase'[a] = "off" /\ toolset'[a] = {}
         /\ \A b \in Agents : b # a => /\ phase'[b] = phase[b] /\ toolset'[b] = toolset[b]
                                       /\ msgs'[b] = msgs[b]
  BY EmptySeq DEF TypeOK, Stop

\* The messages a turn starts with.
LEMMA TurnMessages ==
  ASSUME TypeOK, NEW input \in {"text", "empty"}, StartTurn(input)
  PROVE  \E ms \in Seq(Messages) :
           /\ ms = log \/ ms = Append(log, User)
           /\ Len(log) <= Len(ms) /\ \A i \in 1 .. Len(log) : ms[i] = log[i]
           /\ \A i \in 1 .. Len(ms) : i \in 1 .. Len(log) \/ ms[i] = User
           /\ tail' = TailUser(ms) /\ Run(Root, ApplyReminder(ms), ChatTools)
  <1> DEFINE ms == IF input = "text" THEN Append(log, User) ELSE log
  <1>1. log \in Seq(Messages) /\ User \in Messages
    BY MessageFields DEF TypeOK
  <1>2. tail' = TailUser(ms) /\ Run(Root, ApplyReminder(ms), ChatTools)
    BY DEF StartTurn
  <1>3. ms = log \/ ms = Append(log, User)
    OBVIOUS
  <1> HIDE DEF ms
  <1>4. ms \in Seq(Messages) /\ Len(log) <= Len(ms)
    BY <1>1, <1>3
  <1>5. \A i \in 1 .. Len(log) : ms[i] = log[i]
    BY <1>1, <1>3
  <1>6. \A i \in 1 .. Len(ms) : i \in 1 .. Len(log) \/ ms[i] = User
    BY <1>1, <1>3
  <1> QED BY <1>2, <1>3, <1>4, <1>5, <1>6

\* The answer is stored without the reminder.
LEMMA StoredMessages ==
  ASSUME TypeOK, TurnInv, RootAnswers, mode = "chat"
  PROVE  LET ms == Append(msgs[Root], Model(0))
         IN  /\ ms \in Seq(Messages) /\ tail \in 0 .. Len(ms)
             /\ log' = StripReminder(ms) /\ log' \in Seq(Messages)
             /\ Len(log') = Len(msgs[Root]) + 1
             /\ log'[Len(msgs[Root]) + 1] = Model(0)
             /\ \A i \in 1 .. Len(msgs[Root]) :
                  log'[i] = IF i = tail THEN [msgs[Root][i] EXCEPT !.reminder = FALSE]
                                        ELSE msgs[Root][i]
  <1> DEFINE s  == msgs[Root]
             ms == Append(s, Model(0))
             l  == Len(s)
  <1>1. s \in Seq(Messages) /\ l \in Nat /\ Model(0) \in Messages /\ tail \in Nat /\ tail <= l
    BY MessageFields DEF TypeOK, TurnInv
  <1>2. log' = StripReminder(ms)
    BY DEF RootAnswers
  <1> HIDE DEF s
  <1>3. /\ ms \in Seq(Messages) /\ Len(ms) = l + 1 /\ ms[l + 1] = Model(0)
        /\ \A i \in 1 .. l : ms[i] = s[i]
    BY <1>1
  <1> HIDE DEF ms, l
  <1>4. tail \in 0 .. Len(ms) /\ tail # l + 1 /\ l + 1 \in 1 .. Len(ms)
    BY <1>1, <1>3
  <1>5. /\ log' \in Seq(Messages) /\ Len(log') = l + 1
        /\ \A i \in 1 .. Len(ms) : log'[i] = IF i = tail THEN [ms[i] EXCEPT !.reminder = FALSE] ELSE ms[i]
    BY <1>2, <1>3, <1>4, Stripped
  <1>6. log'[l + 1] = Model(0)
    BY <1>3, <1>4, <1>5
  <1>7. \A i \in 1 .. l : i \in 1 .. Len(ms)
    BY <1>1, <1>3
  <1>8. \A i \in 1 .. l : log'[i] = IF i = tail THEN [s[i] EXCEPT !.reminder = FALSE] ELSE s[i]
    BY <1>3, <1>5, <1>7
  <1> QED BY <1>2, <1>3, <1>4, <1>5, <1>6, <1>8 DEF ms, s, l

\* The model asks for calls.
LEMMA AskedCalls ==
  ASSUME TypeOK, NEW a \in Agents, NEW n \in 1 .. MaxCalls, NEW names \in [1 .. n -> ToolNames],
         GenerateTools(a, names)
  PROVE  /\ msgs'[a] = Append(msgs[a], Model(n)) /\ msgs' \in [Agents -> Seq(Messages)]
         /\ calls' \in [Agents -> Seq(CallRecords)]
         /\ Len(calls'[a]) = n
         /\ \A i \in 1 .. n : calls'[a][i].at = "start" /\ calls'[a][i].view = <<>>
         /\ \A i \in 1 .. n : ~ calls'[a][i].signal
         /\ phase' \in [Agents -> {"off", "generate", "tools"}] /\ phase'[a] = "tools"
         /\ \A b \in Agents : b # a => /\ calls'[b] = calls[b] /\ msgs'[b] = msgs[b]
                                       /\ phase'[b] = phase[b]
  <1> DEFINE cs == [i \in 1 .. n |-> Call(names[i])]
  <1>1. n \in Nat /\ \A i \in 1 .. n : Call(names[i]) \in CallRecords
    BY NewCallFields
  <1>2. cs \in Seq(CallRecords) /\ DOMAIN cs = 1 .. n
    BY <1>1, IsASeq
  <1>3. \A i \in 1 .. n : cs[i].at = "start" /\ ~ cs[i].signal /\ cs[i].view = <<>>
    BY NewCallFields
  <1>4. calls' = [calls EXCEPT ![a] = cs]
    BY DEF GenerateTools
  <1> HIDE DEF cs
  <1>5. Len(cs) = n
    BY <1>1, <1>2
  <1>6. names \in Seq(ToolNames) /\ Len(names) = n
    BY <1>1
  <1>7. msgs' = [msgs EXCEPT ![a] = Append(msgs[a], Model(n))] /\ phase' = [phase EXCEPT ![a] = "tools"]
    BY <1>6 DEF GenerateTools
  <1>8. Model(n) \in Messages
    BY <1>1, MessageFields
  <1>9. /\ calls \in [Agents -> Seq(CallRecords)] /\ msgs \in [Agents -> Seq(Messages)]
        /\ phase \in [Agents -> {"off", "generate", "tools"}]
    BY DEF TypeOK
  <1>10. Append(msgs[a], Model(n)) \in Seq(Messages)
    BY <1>8, <1>9
  <1>11. calls' \in [Agents -> Seq(CallRecords)] /\ calls'[a] = cs /\ \A b \in Agents : b # a => calls'[b] = calls[b]
    BY <1>2, <1>4, <1>9
  <1>12. /\ msgs' \in [Agents -> Seq(Messages)] /\ msgs'[a] = Append(msgs[a], Model(n))
         /\ \A b \in Agents : b # a => msgs'[b] = msgs[b]
    BY <1>7, <1>9, <1>10
  <1>13. /\ phase' \in [Agents -> {"off", "generate", "tools"}] /\ phase'[a] = "tools"
         /\ \A b \in Agents : b # a => phase'[b] = phase[b]
    BY <1>7, <1>9
  <1> QED BY <1>3, <1>5, <1>11, <1>12, <1>13

\* The calls of a round are collected.
LEMMA Collected ==
  ASSUME TypeOK, NEW a \in Agents, CollectTools(a)
  PROVE  /\ phase[a] = "tools" /\ calls' \in [Agents -> Seq(CallRecords)] /\ calls'[a] = <<>>
         /\ \A i \in DOMAIN calls[a] : calls[a][i].at = "done"
         /\ \A b \in Agents : b # a => /\ calls'[b] = calls[b] /\ msgs'[b] = msgs[b]
                                       /\ phase'[b] = phase[b] /\ toolset'[b] = toolset[b]
         /\ \/ Signalled(a) /\ Stop(a) /\ mode' = "idle" /\ tail' = 0
            \/ /\ ~ Signalled(a) /\ UNCHANGED <<mode, tail, toolset>>
               /\ msgs'[a] = msgs[a] \o [i \in 1 .. Len(calls[a]) |-> Tool(i)]
               /\ msgs' \in [Agents -> Seq(Messages)]
               /\ phase' = [phase EXCEPT ![a] = "generate"]
               /\ phase' \in [Agents -> {"off", "generate", "tools"}]
  <1>1. /\ calls \in [Agents -> Seq(CallRecords)] /\ msgs \in [Agents -> Seq(Messages)]
        /\ phase \in [Agents -> {"off", "generate", "tools"}] /\ toolset \in [Agents -> SUBSET ToolNames]
    BY DEF TypeOK
  <1>2. phase[a] = "tools" /\ \A i \in DOMAIN calls[a] : calls[a][i].at = "done"
    BY DEF CollectTools, AllDone
  <1>3. /\ calls' \in [Agents -> Seq(CallRecords)] /\ calls'[a] = <<>>
        /\ \A b \in Agents : b # a => calls'[b] = calls[b]
    BY <1>1, EmptySeq DEF CollectTools
  <1>4. CASE Signalled(a)
    <2>1. Stop(a) /\ mode' = "idle" /\ tail' = 0
      BY <1>4 DEF CollectTools
    <2> QED BY <1>2, <1>3, <1>4, <2>1, StopFields
  <1>5. CASE ~ Signalled(a)
    <2> DEFINE rs == [i \in 1 .. Len(calls[a]) |-> Tool(i)]
    <2>1. /\ msgs' = [msgs EXCEPT ![a] = msgs[a] \o Results(a)] /\ phase' = [phase EXCEPT ![a] = "generate"]
          /\ UNCHANGED <<mode, tail, toolset>>
      BY <1>5 DEF CollectTools
    <2>2. Results(a) = rs
      BY <1>1 DEF Results
    <2>3. rs \in Seq(Messages)
      <3>1. Len(calls[a]) \in Nat
        BY <1>1
      <3> QED BY <3>1, ResultList
    <2> HIDE DEF rs
    <2>4. msgs[a] \o rs \in Seq(Messages)
      BY <1>1, <2>3
    <2>5. /\ msgs' \in [Agents -> Seq(Messages)] /\ msgs'[a] = msgs[a] \o rs
          /\ \A b \in Agents : b # a => msgs'[b] = msgs[b]
      BY <1>1, <2>1, <2>2, <2>4
    <2>6. phase' \in [Agents -> {"off", "generate", "tools"}] /\ \A b \in Agents : b # a => phase'[b] = phase[b]
      BY <1>1, <2>1
    <2> QED BY <1>2, <1>3, <1>5, <2>1, <2>5, <2>6 DEF rs
  <1> QED BY <1>4, <1>5

\* A subagent is spawned with some of the turn's tools.
LEMMA SpawnFields ==
  ASSUME TypeOK, NEW a \in Agents, NEW i \in 1 .. MaxCalls, NEW c \in Children, Spawns(a, i, c)
  PROVE  /\ phase[a] = "tools" /\ phase[c] = "off" /\ i \in DOMAIN calls[a]
         /\ calls[a][i].at = "start" /\ calls[a][i] \in CallRecords
         /\ \E ts \in SUBSET ChatTools :
              /\ i \in DOMAIN calls[a] /\ SetCall(a, i, [calls[a][i] EXCEPT !.at = "child", !.child = c])
              /\ Run(c, <<User>>, ts) /\ UNCHANGED <<log, mode, tail, todos, next, screen>>
  <1>1. PICK list \in Lists \cup {{}}, e \in BOOLEAN : CallSpawnAgent(a, i, c, e, list)
    BY DEF Spawns
  <1>2. phase[a] = "tools" /\ i \in DOMAIN calls[a] /\ calls[a][i].at = "start" /\ phase[c] = "off"
    BY <1>1 DEF CallSpawnAgent, Starting
  <1>3. /\ SetCall(a, i, [calls[a][i] EXCEPT !.at = "child", !.child = c])
        /\ Run(c, <<User>>, ChildTools(e, list)) /\ UNCHANGED <<log, mode, tail, todos, next, screen>>
    BY <1>1 DEF CallSpawnAgent
  <1>4. ChildTools(e, list) \in SUBSET ChatTools
    BY DEF ChildTools
  <1>5. calls[a][i] \in CallRecords
    BY <1>2 DEF TypeOK
  <1> QED BY <1>2, <1>3, <1>4, <1>5

\* What a goroutine's step does to the todo list.
LEMMA TodoChange ==
  ASSUME TypeOK, NEW a \in Agents, NEW i \in DOMAIN calls[a], TodoStep(a, i)
  PROVE  /\ todos' \in Seq(Items) /\ screen' \in Seq(Items) /\ next' \in Nat /\ next' >= next
         /\ Len(todos) = next => Len(todos') = next'
         /\ \A k \in 1 .. Len(todos) : todos'[k].id = todos[k].id
         /\ \A k \in 1 .. Len(todos') : k \in 1 .. Len(todos) \/ todos'[k].id = next + (k - Len(todos))
         /\ Len(todos') >= Len(todos)
         /\ screen' = screen \/ screen' = calls[a][i].view
  <1>1. /\ todos \in Seq(Items) /\ screen \in Seq(Items) /\ next \in Nat /\ calls[a] \in Seq(CallRecords)
        /\ Len(todos) \in Nat
    BY DEF TypeOK
  <1>2. calls[a][i].view \in Seq(Items)
    <2>1. calls[a][i] \in CallRecords
      BY <1>1
    <2> QED BY <2>1 DEF CallRecords
  <1>3. CASE UNCHANGED <<todos, next, screen>>
    BY <1>1, <1>3
  <1>4. CASE screen' = calls[a][i].view /\ UNCHANGED <<todos, next>>
    BY <1>1, <1>2, <1>4
  <1>5. ASSUME NEW n \in 1 .. MaxBatch, Create(n), UNCHANGED screen
        PROVE  /\ todos' \in Seq(Items) /\ next' \in Nat /\ next' = next + n
               /\ Len(todos') = Len(todos) + n
               /\ \A k \in 1 .. Len(todos) : todos'[k] = todos[k]
               /\ \A k \in 1 .. Len(todos') : k \in 1 .. Len(todos) \/ todos'[k].id = next + (k - Len(todos))
    <2> DEFINE x(k) == [id |-> next + k, status |-> "pending"]
               new  == [k \in 1 .. n |-> x(k)]
               l    == Len(todos)
    <2>1. \A k \in 1 .. n : x(k) \in Items /\ x(k).id = next + k
      BY <1>1 DEF Items, Statuses
    <2>2. todos' = todos \o new /\ next' = next + n
      BY <1>5 DEF Create
    <2> HIDE DEF x
    <2>3. n \in Nat /\ new \in Seq(Items) /\ DOMAIN new = 1 .. n /\ \A k \in 1 .. n : new[k].id = next + k
      BY <2>1, IsASeq
    <2> HIDE DEF new
    <2>4. Len(new) = n
      BY <2>3
    <2>5. /\ todos' \in Seq(Items) /\ Len(todos') = l + n
          /\ \A k \in 1 .. l + n : todos'[k] = IF k <= l THEN todos[k] ELSE new[k - l]
      BY <1>1, <2>2, <2>3, <2>4, ConcatProperties
    <2>6. l \in Nat
      BY <1>1
    <2> HIDE DEF l
    <2>7. \A k \in 1 .. l : todos'[k] = todos[k]
      BY <2>3, <2>5, <2>6
    <2>8. ASSUME NEW k \in 1 .. l + n, ~ (k \in 1 .. l) PROVE todos'[k].id = next + (k - l)
      <3>1. k - l \in 1 .. n /\ ~ (k <= l)
        BY <2>3, <2>6, <2>8
      <3>2. todos'[k] = new[k - l]
        BY <2>5, <3>1
      <3> QED BY <2>3, <3>1, <3>2
    <2> QED BY <1>1, <2>2, <2>3, <2>5, <2>7, <2>8 DEF l
  <1> DEFINE Relabels(d, st, blank) ==
        todos' = [k \in DOMAIN todos |->
                    IF todos[k].id = d /\ st # blank THEN [todos[k] EXCEPT !.status = st] ELSE todos[k]]
  <1>6. ASSUME NEW d \in 1 .. MaxTodos, NEW blank, NEW st \in Statuses \cup {blank}, Relabels(d, st, blank)
        PROVE  /\ todos' \in Seq(Items) /\ Len(todos') = Len(todos)
               /\ \A k \in 1 .. Len(todos) : todos'[k].id = todos[k].id
    <2> DEFINE x(k) == IF todos[k].id = d /\ st # blank THEN [todos[k] EXCEPT !.status = st] ELSE todos[k]
               l    == Len(todos)
    <2>1. ASSUME NEW k \in 1 .. l PROVE x(k) \in Items /\ x(k).id = todos[k].id
      <3>1. todos[k] \in Items
        BY <1>1
      <3>2. st # blank => st \in Statuses
        OBVIOUS
      <3> QED BY <3>1, <3>2 DEF Items
    <2>2. todos' = [k \in 1 .. l |-> x(k)]
      BY <1>1, <1>6
    <2>3. l \in Nat
      BY <1>1
    <2> HIDE DEF x, l
    <2>4. [k \in 1 .. l |-> x(k)] \in Seq(Items)
      BY <2>1, <2>3, IsASeq
    <2>5. todos' \in Seq(Items) /\ Len(todos') = l
      BY <2>2, <2>3, <2>4
    <2>6. \A k \in 1 .. l : todos'[k].id = todos[k].id
      BY <2>1, <2>2
    <2> QED BY <2>5, <2>6 DEF l
  <1>7. CASE \E n \in 1 .. MaxBatch : Create(n) /\ UNCHANGED screen
    <2>1. PICK n \in 1 .. MaxBatch : Create(n) /\ UNCHANGED screen
      BY <1>7
    <2>2. /\ todos' \in Seq(Items) /\ next' \in Nat /\ next' = next + n
          /\ Len(todos') = Len(todos) + n
          /\ \A k \in 1 .. Len(todos) : todos'[k] = todos[k]
          /\ \A k \in 1 .. Len(todos') : k \in 1 .. Len(todos) \/ todos'[k].id = next + (k - Len(todos))
      BY <1>5, <2>1
    <2>3. n \in Nat /\ next + n >= next /\ Len(todos) + n >= Len(todos)
      BY <1>1
    <2> QED BY <1>1, <2>1, <2>2, <2>3
  <1>8. CASE \E id \in 1 .. MaxTodos, s \in Statuses \cup {""} : Update(id, s) /\ UNCHANGED <<next, screen>>
    <2>1. /\ todos' \in Seq(Items) /\ Len(todos') = Len(todos)
          /\ \A k \in 1 .. Len(todos) : todos'[k].id = todos[k].id
      <3>1. PICK d \in 1 .. MaxTodos, st \in Statuses \cup {""} : Update(d, st)
        BY <1>8, Zenon
      <3>2. Relabels(d, st, "")
        BY <3>1, Zenon DEF Update
      <3> HIDE DEF Relabels
      <3> QED BY <1>6, <3>2, Zenon
    <2>2. UNCHANGED <<next, screen>>
      BY <1>8
    <2> QED BY <1>1, <2>1, <2>2
  <1> QED BY <1>3, <1>4, <1>7, <1>8 DEF TodoStep

\* Every step keeps the types.
LEMMA TypeStep ==
  ASSUME TypeOK, TurnInv, Step
  PROVE  TypeOK'
  <1> DEFINE KeepsTodos == todos' \in Seq(Items) /\ screen' \in Seq(Items) /\ next' \in Nat
             Loops == /\ phase' \in [Agents -> {"off", "generate", "tools"}]
                      /\ toolset' \in [Agents -> SUBSET ToolNames]
                      /\ msgs' \in [Agents -> Seq(Messages)]
             Goroutines == calls' \in [Agents -> Seq(CallRecords)]
             Session == log' \in Seq(Messages) /\ mode' \in {"idle", "chat", "memory"} /\ tail' \in Nat
  <1>1. UNCHANGED <<todos, next, screen>> => KeepsTodos
    BY DEF TypeOK
  <1>2. UNCHANGED <<phase, toolset, msgs>> => Loops
    BY DEF TypeOK
  <1>3. UNCHANGED calls => Goroutines
    BY DEF TypeOK
  <1>4. UNCHANGED <<log, mode, tail>> => Session
    BY DEF TypeOK
  <1>5. KeepsTodos /\ Loops /\ Goroutines /\ Session => TypeOK'
    BY DEF TypeOK
  <1>6. ASSUME NEW a \in Agents, Stop(a) PROVE Loops
    BY <1>6, StopFields
  <1>7. log \in Seq(Messages) /\ mode \in {"idle", "chat", "memory"} /\ tail \in Nat
        /\ toolset \in [Agents -> SUBSET ToolNames]
    BY DEF TypeOK
  <1>8. ChatTools \in SUBSET ToolNames /\ {"write_memory"} \in SUBSET ToolNames
    BY DEF ChatTools, ToolNames
  <1> HIDE DEF KeepsTodos, Goroutines
  <1>9. ASSUME NEW input \in {"text", "empty"}, StartTurn(input) PROVE TypeOK'
    <2>1. PICK ms \in Seq(Messages) : tail' = TailUser(ms) /\ Run(Root, ApplyReminder(ms), ChatTools)
      BY <1>9, TurnMessages
    <2>2. ApplyReminder(ms) \in Seq(Messages) /\ tail' \in Nat
      BY <2>1, Reminded, TailBound
    <2>3. Loops
      BY <1>8, <2>1, <2>2, RunFields
    <2>4. mode' = "chat" /\ UNCHANGED <<log, calls, todos, next, screen>>
      BY <1>9 DEF StartTurn
    <2>5. Session
      BY <1>7, <2>2, <2>4
    <2> HIDE DEF Session, Loops
    <2> QED BY <1>1, <1>3, <1>5, <2>3, <2>4, <2>5
  <1>10. ASSUME StartMemoryAgent PROVE TypeOK'
    <2>1. /\ Run(Root, <<User>>, {"write_memory"}) /\ mode' = "memory" /\ tail' = 0
          /\ UNCHANGED <<log, calls, todos, next, screen>>
      BY <1>10 DEF StartMemoryAgent
    <2>2. <<User>> \in Seq(Messages)
      BY MessageFields
    <2>3. Loops
      BY <1>8, <2>1, <2>2, RunFields
    <2>4. Session
      BY <1>7, <2>1
    <2> HIDE DEF Session, Loops
    <2> QED BY <1>1, <1>3, <1>5, <2>1, <2>3, <2>4
  <1>11. ASSUME RootAnswers PROVE TypeOK'
    <2>1. mode' = "idle" /\ tail' = 0 /\ Stop(Root) /\ UNCHANGED <<calls, todos, next, screen>>
      BY <1>11 DEF RootAnswers
    <2>2. log' \in Seq(Messages)
      <3>1. CASE mode = "chat"
        BY <1>11, <3>1, StoredMessages
      <3>2. CASE mode # "chat"
        BY <1>7, <1>11, <3>2 DEF RootAnswers
      <3> QED BY <3>1, <3>2
    <2>3. Session
      BY <2>1, <2>2
    <2>4. Loops
      BY <1>6, <2>1
    <2> HIDE DEF Session, Loops
    <2> QED BY <1>1, <1>3, <1>5, <2>1, <2>3, <2>4
  <1>12. ASSUME RootFails PROVE TypeOK'
    <2>1. mode' = "idle" /\ tail' = 0 /\ Stop(Root) /\ UNCHANGED <<log, calls, todos, next, screen>>
      BY <1>12 DEF RootFails
    <2>2. Session
      BY <1>7, <2>1
    <2>3. Loops
      BY <1>6, <2>1
    <2> HIDE DEF Session, Loops
    <2> QED BY <1>1, <1>3, <1>5, <2>1, <2>2, <2>3
  <1>13. ASSUME NEW c \in Children, Returns(c) PROVE TypeOK'
    <2>1. Stop(c) /\ UNCHANGED <<log, mode, tail, todos, next, screen>>
      BY <1>13 DEF Returns
    <2>2. PICK b \in Agents, j \in 1 .. MaxCalls :
            Waits(c) = {<<b, j>>} /\ SetCall(b, j, [calls[b][j] EXCEPT !.at = "done"])
      BY <1>13 DEF Returns
    <2>3. j \in DOMAIN calls[b] /\ calls[b][j] \in CallRecords
      BY <2>2, WaitMembers
    <2>4. Goroutines
      BY <2>2, <2>3, CallFields, OneCall DEF Goroutines
    <2>5. Loops
      BY <1>6, <2>1
    <2> HIDE DEF Session, Loops
    <2> QED BY <1>1, <1>4, <1>5, <2>1, <2>4, <2>5
  <1>14. ASSUME NEW a \in Agents, NEW n \in 1 .. MaxCalls, NEW names \in [1 .. n -> ToolNames], GenerateTools(a, names)
         PROVE  TypeOK'
    <2>1. UNCHANGED <<log, mode, tail, toolset, todos, next, screen>>
      BY <1>14 DEF GenerateTools
    <2>2. Goroutines /\ phase' \in [Agents -> {"off", "generate", "tools"}] /\ msgs' \in [Agents -> Seq(Messages)]
      BY <1>14, AskedCalls DEF Goroutines
    <2>3. Loops
      BY <1>7, <2>1, <2>2
    <2> HIDE DEF Session, Loops
    <2> QED BY <1>1, <1>4, <1>5, <2>1, <2>2, <2>3
  <1>15. ASSUME NEW a \in Agents, CollectTools(a) PROVE TypeOK'
    <2>1. Goroutines /\ UNCHANGED <<log, todos, next, screen>>
      BY <1>15, Collected DEF Goroutines, CollectTools
    <2>2. CASE Signalled(a) /\ Stop(a) /\ mode' = "idle" /\ tail' = 0
      <3>1. Session
        BY <1>7, <2>1, <2>2
      <3>2. Loops
        BY <1>6, <2>2
      <3> HIDE DEF Session, Loops
      <3> QED BY <1>1, <1>5, <2>1, <3>1, <3>2
    <2>3. CASE /\ UNCHANGED <<mode, tail, toolset>> /\ msgs' \in [Agents -> Seq(Messages)]
               /\ phase' \in [Agents -> {"off", "generate", "tools"}]
      <3>1. Loops
        BY <1>7, <2>3
      <3> HIDE DEF Session, Loops
      <3> QED BY <1>1, <1>4, <1>5, <2>1, <2>3, <3>1
    <2> QED BY <1>15, <2>2, <2>3, Collected
  <1>16. ASSUME NEW a \in Agents, NEW i \in 1 .. MaxCalls, Effect(a, i) PROVE TypeOK'
    <2>1. i \in DOMAIN calls[a] /\ UNCHANGED <<log, mode, tail, phase, toolset, msgs>> /\ TodoStep(a, i)
      BY <1>16 DEF Effect
    <2>2. Goroutines
      BY <1>16, OneCall DEF Goroutines, Effect
    <2>3. KeepsTodos
      BY <2>1, TodoChange DEF KeepsTodos
    <2> HIDE DEF Session, Loops
    <2> QED BY <1>2, <1>4, <1>5, <2>1, <2>2, <2>3
  <1>17. ASSUME NEW a \in Agents, NEW i \in 1 .. MaxCalls, NEW c \in Children, Spawns(a, i, c) PROVE TypeOK'
    <2>1. PICK ts \in SUBSET ChatTools :
            /\ i \in DOMAIN calls[a] /\ SetCall(a, i, [calls[a][i] EXCEPT !.at = "child", !.child = c])
            /\ Run(c, <<User>>, ts) /\ UNCHANGED <<log, mode, tail, todos, next, screen>>
      BY <1>17, SpawnFields
    <2>2. <<User>> \in Seq(Messages) /\ ts \in SUBSET ToolNames
      BY <1>8, MessageFields
    <2>3. Loops
      BY <2>1, <2>2, RunFields
    <2>4. calls[a][i] \in CallRecords
      BY <1>17, SpawnFields
    <2>5. Goroutines
      BY <2>1, <2>4, CallFieldsMore, OneCall DEF Goroutines
    <2> HIDE DEF Session, Loops
    <2> QED BY <1>1, <1>4, <1>5, <2>1, <2>3, <2>5
  <1>18. CASE UNCHANGED vars
    BY <1>1, <1>2, <1>3, <1>4, <1>5, <1>18 DEF vars
  <1> QED BY <1>9, <1>10, <1>11, <1>12, <1>13, <1>14, <1>15, <1>16, <1>17, <1>18 DEF Step

-----------------------------------------------------------------------------
(* Loops and subagents                                                     *)

\* Calls belong to the round of tool calls of a loop.
LEMMA CallsRun ==
  ASSUME TypeOK, LoopInv, NEW a \in Agents, NEW i \in DOMAIN calls[a]
  PROVE  phase[a] = "tools"
  <1>1. calls[a] # <<>>
    OBVIOUS
  <1> QED BY <1>1 DEF LoopInv

\* Waits, call by call.
LEMMA WaitsSame ==
  ASSUME NEW c \in Children,
         \A b \in Agents, j \in 1 .. MaxCalls : WaitsFor(b, j, c)' <=> WaitsFor(b, j, c)
  PROVE  Waits(c)' = Waits(c)
  BY DEF Waits, WaitsFor

\* Which calls wait, and which subagents run, changes in two ways only: a subagent returns,
\* or one is spawned.
WaitsKept(c) == Waits(c)' = Waits(c) /\ (phase'[c] = "off" <=> phase[c] = "off")

\* Every step is one that keeps who waits for whom, or one of these two.
LEMMA WaitStep ==
  ASSUME TypeOK, LoopInv, WaitInv, Step
  PROVE  \/ \A c \in Children : WaitsKept(c)
         \/ \E c \in Children : /\ Waits(c)' = {} /\ phase'[c] = "off"
                                /\ \A d \in Children : d # c => WaitsKept(d)
         \/ \E c \in Children, a \in Agents, i \in 1 .. MaxCalls :
              /\ phase[c] = "off" /\ phase[a] = "tools"
              /\ phase'[c] # "off" /\ Waits(c)' = {<<a, i>>}
              /\ \A d \in Children : d # c => WaitsKept(d)
  <1> DEFINE Same(c) == \A b \in Agents, j \in 1 .. MaxCalls : WaitsFor(b, j, c)' <=> WaitsFor(b, j, c)
             Off(c)  == phase'[c] = "off" <=> phase[c] = "off"
  <1>1. \A c \in Children : Same(c) => Waits(c)' = Waits(c)
    BY WaitsSame
  <1>2. \A c \in Children : Same(c) /\ Off(c) => WaitsKept(c)
    BY <1>1 DEF WaitsKept
  <1>3. UNCHANGED calls => \A c \in Children : Same(c)
    BY DEF WaitsFor
  <1>4. \A c \in Children : c # Root /\ c \in Agents
    OBVIOUS
  <1>5. CASE \E input \in {"text", "empty"} : StartTurn(input)
    <2>1. UNCHANGED calls /\ phase' = [phase EXCEPT ![Root] = "generate"]
      BY <1>5 DEF StartTurn, Run
    <2>2. \A c \in Children : Off(c)
      BY <1>4, <2>1 DEF TypeOK
    <2> QED BY <1>2, <1>3, <2>1, <2>2
  <1>6. CASE StartMemoryAgent
    <2>1. UNCHANGED calls /\ phase' = [phase EXCEPT ![Root] = "generate"]
      BY <1>6 DEF StartMemoryAgent, Run
    <2>2. \A c \in Children : Off(c)
      BY <1>4, <2>1 DEF TypeOK
    <2> QED BY <1>2, <1>3, <2>1, <2>2
  <1>7. CASE RootAnswers \/ RootFails
    <2>1. UNCHANGED calls /\ phase' = [phase EXCEPT ![Root] = "off"]
      BY <1>7 DEF RootAnswers, RootFails, Stop
    <2>2. \A c \in Children : Off(c)
      BY <1>4, <2>1 DEF TypeOK
    <2> QED BY <1>2, <1>3, <2>1, <2>2
  <1>8. ASSUME NEW c \in Children, Returns(c)
        PROVE  /\ Waits(c)' = {} /\ phase'[c] = "off"
               /\ \A d \in Children : d # c => WaitsKept(d)
    <2>1. phase'[c] = "off" /\ \A d \in Children : d # c => Off(d)
      BY <1>8 DEF Returns, Stop, TypeOK
    <2>2. PICK b \in Agents, j \in 1 .. MaxCalls :
            Waits(c) = {<<b, j>>} /\ SetCall(b, j, [calls[b][j] EXCEPT !.at = "done"])
      BY <1>8 DEF Returns
    <2>3. j \in DOMAIN calls[b] /\ calls[b][j] \in CallRecords /\ calls[b][j].child = c
      <3>1. <<b, j>> \in Waits(c)
        BY <2>2
      <3> QED BY <3>1, WaitMembers
    <2> DEFINE r == [calls[b][j] EXCEPT !.at = "done"]
    <2>4. r \in CallRecords /\ r.at = "done"
      BY <2>3, CallFields
    <2> HIDE DEF r
    <2>5. /\ \A e \in Agents : DOMAIN calls'[e] = DOMAIN calls[e]
          /\ calls'[b][j] = r
          /\ \A e \in Agents : \A k \in DOMAIN calls[e] : e # b \/ k # j => calls'[e][k] = calls[e][k]
      BY <2>2, <2>3, <2>4, OneCall DEF r
    <2>6. ASSUME NEW d \in Children, d # c PROVE Same(d)
      BY <2>3, <2>4, <2>5, <2>6 DEF WaitsFor
    <2>7. ASSUME NEW e \in Agents, NEW k \in 1 .. MaxCalls, WaitsFor(e, k, c)' PROVE FALSE
      <3>1. k \in DOMAIN calls[e] /\ calls'[e][k].at = "child" /\ calls'[e][k].child = c
        BY <2>5, <2>7 DEF WaitsFor
      <3>2. e # b \/ k # j
        BY <2>4, <2>5, <3>1
      <3>3. calls[e][k].at = "child" /\ calls[e][k].child = c
        BY <2>5, <3>1, <3>2
      <3>4. <<e, k>> \in Waits(c)
        BY <3>1, <3>3 DEF Waits
      <3> QED BY <2>2, <3>2, <3>4
    <2>8. Waits(c)' = {}
      BY <2>7 DEF Waits, WaitsFor
    <2> QED BY <1>2, <2>1, <2>6, <2>8
  <1>9. ASSUME NEW a \in Agents, NEW n \in 1 .. MaxCalls, NEW names \in [1 .. n -> ToolNames], GenerateTools(a, names)
        PROVE  \A c \in Children : WaitsKept(c)
    <2>1. phase[a] = "generate" /\ calls[a] = <<>>
      BY <1>9 DEF GenerateTools, LoopInv
    <2>2. /\ calls' \in [Agents -> Seq(CallRecords)] /\ Len(calls'[a]) = n
          /\ \A i \in 1 .. n : calls'[a][i].at = "start"
          /\ \A b \in Agents : b # a => calls'[b] = calls[b] /\ phase'[b] = phase[b]
          /\ phase'[a] = "tools"
      <3>1. calls' \in [Agents -> Seq(CallRecords)] /\ Len(calls'[a]) = n
        BY <1>9, AskedCalls
      <3>2. \A i \in 1 .. n : calls'[a][i].at = "start"
        BY <1>9, AskedCalls
      <3>3. \A b \in Agents : b # a => calls'[b] = calls[b] /\ phase'[b] = phase[b]
        BY <1>9, AskedCalls
      <3>4. phase'[a] = "tools"
        BY <1>9, AskedCalls
      <3> QED BY <3>1, <3>2, <3>3, <3>4
    <2>3. \A i \in DOMAIN calls'[a] : calls'[a][i].at = "start"
      BY <2>2
    <2>4. \A i \in DOMAIN calls[a] : FALSE
      BY <2>1
    <2>5. \A c \in Children : Same(c)
      BY <2>2, <2>3, <2>4 DEF WaitsFor
    <2>6. \A c \in Children : Off(c)
      BY <1>4, <2>1, <2>2
    <2> QED BY <1>2, <2>5, <2>6
  <1>10. ASSUME NEW a \in Agents, CollectTools(a)
         PROVE  \A c \in Children : WaitsKept(c)
    <2>1. /\ phase[a] = "tools" /\ calls'[a] = <<>> /\ \A i \in DOMAIN calls[a] : calls[a][i].at = "done"
          /\ \A b \in Agents : b # a => calls'[b] = calls[b] /\ phase'[b] = phase[b]
      BY <1>10, Collected
    <2>2. \A c \in Children : Same(c)
      <3>1. \A i \in DOMAIN calls'[a] : FALSE
        BY <2>1
      <3> QED BY <2>1, <3>1 DEF WaitsFor
    <2>3. a \in Children => phase'[a] # "off"
      <3>1. CASE Signalled(a)
        BY <3>1 DEF Signalled, LoopInv
      <3>2. CASE ~ Signalled(a)
        BY <1>10, <3>2, Collected DEF TypeOK
      <3> QED BY <3>1, <3>2
    <2>4. \A c \in Children : Off(c)
      BY <1>4, <2>1, <2>3
    <2> QED BY <1>2, <2>2, <2>4
  <1>11. ASSUME NEW a \in Agents, NEW i \in 1 .. MaxCalls, Effect(a, i)
         PROVE  \A c \in Children : WaitsKept(c)
    <2>1. PICK r \in CallRecords : SetCall(a, i, r) /\ r.at # "child"
      BY <1>11 DEF Effect
    <2>2. i \in DOMAIN calls[a] /\ calls[a][i].at # "child" /\ UNCHANGED phase
      BY <1>11 DEF Effect
    <2>3. /\ \A e \in Agents : DOMAIN calls'[e] = DOMAIN calls[e]
          /\ calls'[a][i] = r
          /\ \A e \in Agents : \A k \in DOMAIN calls[e] : e # a \/ k # i => calls'[e][k] = calls[e][k]
      BY <2>1, <2>2, OneCall
    <2>4. \A c \in Children : Same(c)
      BY <2>1, <2>2, <2>3 DEF WaitsFor
    <2> QED BY <1>2, <2>2, <2>4
  <1>12. ASSUME NEW a \in Agents, NEW i \in 1 .. MaxCalls, NEW c \in Children, Spawns(a, i, c)
         PROVE  /\ phase[c] = "off" /\ phase[a] = "tools"
                /\ phase'[c] # "off" /\ Waits(c)' = {<<a, i>>}
                /\ \A d \in Children : d # c => WaitsKept(d)
    <2>1. /\ phase[a] = "tools" /\ phase[c] = "off" /\ i \in DOMAIN calls[a]
          /\ calls[a][i].at = "start" /\ calls[a][i] \in CallRecords
      BY <1>12, SpawnFields
    <2> DEFINE r == [calls[a][i] EXCEPT !.at = "child", !.child = c]
    <2>2. PICK ts \in SUBSET ChatTools : SetCall(a, i, r) /\ Run(c, <<User>>, ts)
      BY <1>12, SpawnFields
    <2>3. phase'[c] # "off" /\ \A d \in Children : d # c => Off(d)
      BY <1>4, <2>2 DEF Run, TypeOK
    <2>4. r \in CallRecords /\ r.at = "child" /\ r.child = c
      BY <1>4, <2>1 DEF CallRecords
    <2> HIDE DEF r
    <2>5. /\ \A e \in Agents : DOMAIN calls'[e] = DOMAIN calls[e]
          /\ calls'[a][i] = r
          /\ \A e \in Agents : \A k \in DOMAIN calls[e] : e # a \/ k # i => calls'[e][k] = calls[e][k]
      BY <2>1, <2>2, <2>4, OneCall
    <2>6. ASSUME NEW d \in Children, d # c PROVE Same(d)
      BY <2>1, <2>4, <2>5, <2>6 DEF WaitsFor
    <2>7. Waits(c) = {}
      BY <2>1 DEF WaitInv
    <2>8. ASSUME NEW e \in Agents, NEW k \in 1 .. MaxCalls
          PROVE  WaitsFor(e, k, c)' <=> <<e, k>> = <<a, i>>
      <3>1. ~ WaitsFor(e, k, c)
        <4>1. WaitsFor(e, k, c) => <<e, k>> \in Waits(c)
          BY DEF Waits, WaitsFor
        <4> QED BY <2>7, <4>1
      <3>2. CASE e = a /\ k = i
        BY <2>1, <2>4, <2>5, <3>2 DEF WaitsFor
      <3>3. CASE e # a \/ k # i
        BY <2>5, <3>1, <3>3 DEF WaitsFor
      <3> QED BY <3>2, <3>3
    <2>9. Waits(c)' = {<<a, i>>}
      <3>1. Waits(c)' = {p \in Agents \X (1 .. MaxCalls) : WaitsFor(p[1], p[2], c)'}
        BY DEF Waits, WaitsFor
      <3>2. \A p \in Agents \X (1 .. MaxCalls) : WaitsFor(p[1], p[2], c)' <=> p = <<a, i>>
        BY <2>8
      <3> QED BY <3>1, <3>2
    <2> QED BY <1>2, <2>1, <2>3, <2>6, <2>9
  <1>13. CASE UNCHANGED vars
    BY <1>2, <1>3, <1>13 DEF vars
  <1> QED BY <1>5, <1>6, <1>7, <1>8, <1>9, <1>10, <1>11, <1>12, <1>13 DEF Step

\* So a running subagent is waited for by exactly one call, ...
LEMMA WaitInvStep ==
  ASSUME TypeOK, LoopInv, WaitInv, Step
  PROVE  WaitInv'
  <1>1. \A d \in Children : WaitsKept(d) =>
          /\ phase'[d] # "off" => \E p \in Agents \X (1 .. MaxCalls) : Waits(d)' = {p}
          /\ phase'[d] = "off" => Waits(d)' = {}
    BY DEF WaitInv, WaitsKept
  <1>2. CASE \A c \in Children : WaitsKept(c)
    BY <1>1, <1>2 DEF WaitInv
  <1>3. ASSUME NEW c \in Children, Waits(c)' = {}, phase'[c] = "off", \A d \in Children : d # c => WaitsKept(d)
        PROVE  WaitInv'
    BY <1>1, <1>3 DEF WaitInv
  <1>4. ASSUME NEW c \in Children, NEW a \in Agents, NEW i \in 1 .. MaxCalls,
               phase'[c] # "off", Waits(c)' = {<<a, i>>}, \A d \in Children : d # c => WaitsKept(d)
        PROVE  WaitInv'
    <2>1. <<a, i>> \in Agents \X (1 .. MaxCalls)
      OBVIOUS
    <2> QED BY <1>1, <1>4, <2>1 DEF WaitInv
  <1> QED BY <1>2, <1>3, <1>4, WaitStep

\* ... and never by one of the subagents it waits for.
LEMMA TreeStep ==
  ASSUME TypeOK, LoopInv, WaitInv, TreeInv, Step
  PROVE  TreeInv'
  <1> SUFFICES ASSUME NEW S \in SUBSET Children, S # {}, \A c \in S : phase'[c] # "off"
               PROVE  \E c \in S : \E p \in Waits(c)' : p[1] \notin S
    BY DEF TreeInv
  <1>1. ASSUME NEW T \in SUBSET Children, T # {}, \A c \in T : WaitsKept(c), \A c \in T : phase'[c] # "off"
        PROVE  \E c \in T : \E p \in Waits(c)' : p \in Waits(c) /\ p[1] \notin T
    <2>1. \A c \in T : phase[c] # "off" /\ Waits(c)' = Waits(c)
      BY <1>1 DEF WaitsKept
    <2> QED BY <1>1, <2>1 DEF TreeInv
  <1>2. CASE \A c \in Children : WaitsKept(c)
    BY <1>1, <1>2
  <1>3. ASSUME NEW c \in Children, phase'[c] = "off", \A d \in Children : d # c => WaitsKept(d)
        PROVE  \E e \in S : \E p \in Waits(e)' : p[1] \notin S
    <2>1. \A d \in S : WaitsKept(d)
      BY <1>3
    <2> QED BY <1>1, <2>1
  <1>4. ASSUME NEW c \in Children, NEW a \in Agents, NEW i \in 1 .. MaxCalls,
               phase[c] = "off", phase[a] = "tools", Waits(c)' = {<<a, i>>},
               \A d \in Children : d # c => WaitsKept(d)
        PROVE  \E e \in S : \E p \in Waits(e)' : p[1] \notin S
    <2>1. CASE c \notin S
      <3>1. \A d \in S : WaitsKept(d)
        BY <1>4, <2>1
      <3> QED BY <1>1, <3>1
    <2>2. CASE c \in S /\ a \notin S
      <3>1. <<a, i>> \in Waits(c)' /\ <<a, i>>[1] \notin S
        BY <1>4, <2>2
      <3> QED BY <2>2, <3>1
    <2>3. CASE c \in S /\ a \in S
      <3> DEFINE T == S \ {c}
      <3>1. T \in SUBSET Children /\ a \in T /\ \A d \in T : WaitsKept(d) /\ phase'[d] # "off"
        BY <1>4, <2>3
      <3>2. PICK d \in T : \E p \in Waits(d)' : p \in Waits(d) /\ p[1] \notin T
        BY <1>1, <3>1
      <3>3. PICK p \in Waits(d)' : p \in Waits(d) /\ p[1] \notin T
        BY <3>2
      <3>4. p[1] \in Agents /\ p[2] \in DOMAIN calls[p[1]]
        BY <3>3 DEF Waits
      <3>5. p[1] # c
        BY <1>4, <3>4, CallsRun
      <3> QED BY <3>2, <3>3, <3>5
    <2> QED BY <2>1, <2>2, <2>3
  <1> QED BY <1>2, <1>3, <1>4, WaitStep

\* Every step keeps the loops in order.
LEMMA LoopStepInv ==
  ASSUME TypeOK, LoopInv, WaitInv, Step
  PROVE  LoopInv'
  <1> DEFINE Rounded  == \A a \in Agents : phase'[a] # "tools" => calls'[a] = <<>>
             Idle     == mode' = "idle" <=> phase'[Root] = "off"
             Offered  == \A a \in Agents : "write_memory" \in toolset'[a] => a = Root /\ mode' = "memory"
             Signals  == \A a \in Agents : \A i \in DOMAIN calls'[a] : calls'[a][i].signal => a = Root /\ mode' = "memory"
  <1>1. Rounded /\ Idle /\ Offered /\ Signals => LoopInv'
    BY DEF LoopInv
  <1>2. /\ \A a \in Agents : phase[a] # "tools" => calls[a] = <<>>
        /\ \A a \in Agents : "write_memory" \in toolset[a] => a = Root /\ mode = "memory"
        /\ \A a \in Agents : \A i \in DOMAIN calls[a] : calls[a][i].signal => a = Root /\ mode = "memory"
    BY DEF LoopInv
  <1>3. mode = "idle" <=> phase[Root] = "off"
    BY DEF LoopInv
  <1>4. "write_memory" \notin ChatTools /\ Root \in Agents
    BY DEF ChatTools, TodoTools
  <1>5. ASSUME NEW ms \in Seq(Messages), NEW ts \in SUBSET ToolNames, Run(Root, ms, ts), mode = "idle",
               mode' # "idle", "write_memory" \in ts => mode' = "memory", UNCHANGED calls
        PROVE  LoopInv'
    <2>1. /\ phase'[Root] = "generate" /\ toolset'[Root] = ts
          /\ \A b \in Agents : b # Root => phase'[b] = phase[b] /\ toolset'[b] = toolset[b]
      BY <1>4, <1>5, RunFields
    <2>2. Rounded
      BY <1>2, <1>3, <1>5, <2>1
    <2>3. Idle
      BY <1>5, <2>1
    <2>4. Offered
      BY <1>2, <1>5, <2>1
    <2>5. Signals
      BY <1>2, <1>5
    <2> QED BY <1>1, <2>2, <2>3, <2>4, <2>5
  <1>6. ASSUME NEW input \in {"text", "empty"}, StartTurn(input) PROVE LoopInv'
    <2>1. PICK ms \in Seq(Messages) : Run(Root, ApplyReminder(ms), ChatTools)
      BY <1>6, TurnMessages
    <2>2. ApplyReminder(ms) \in Seq(Messages) /\ ChatTools \in SUBSET ToolNames
      BY Reminded DEF ToolNames
    <2>3. mode = "idle" /\ mode' = "chat" /\ UNCHANGED calls
      BY <1>6 DEF StartTurn
    <2> QED BY <1>4, <1>5, <2>1, <2>2, <2>3
  <1>7. ASSUME StartMemoryAgent PROVE LoopInv'
    <2>1. Run(Root, <<User>>, {"write_memory"}) /\ mode = "idle" /\ mode' = "memory" /\ UNCHANGED calls
      BY <1>7 DEF StartMemoryAgent
    <2>2. <<User>> \in Seq(Messages) /\ {"write_memory"} \in SUBSET ToolNames
      BY MessageFields DEF ToolNames
    <2> QED BY <1>5, <2>1, <2>2
  <1>8. ASSUME phase[Root] = "generate", mode' = "idle", Stop(Root), UNCHANGED calls PROVE LoopInv'
    <2>1. /\ phase'[Root] = "off" /\ toolset'[Root] = {}
          /\ \A b \in Agents : b # Root => phase'[b] = phase[b] /\ toolset'[b] = toolset[b]
      BY <1>4, <1>8, StopFields
    <2>2. calls[Root] = <<>>
      BY <1>2, <1>4, <1>8
    <2>3. Rounded
      BY <1>2, <1>8, <2>1, <2>2
    <2>4. Idle
      BY <1>8, <2>1
    <2>5. Offered
      BY <1>2, <2>1
    <2>6. Signals
      <3>1. \A i \in DOMAIN calls[Root] : FALSE
        BY <2>2
      <3> QED BY <1>2, <1>8, <3>1
    <2> QED BY <1>1, <2>3, <2>4, <2>5, <2>6
  <1>9. ASSUME NEW c \in Children, Returns(c) PROVE LoopInv'
    <2>1. phase[c] = "generate" /\ UNCHANGED mode
      BY <1>9 DEF Returns
    <2>2. /\ phase'[c] = "off" /\ toolset'[c] = {} /\ c # Root /\ c \in Agents
          /\ \A b \in Agents : b # c => phase'[b] = phase[b] /\ toolset'[b] = toolset[b]
      BY <1>9, StopFields DEF Returns
    <2>3. PICK b \in Agents, j \in 1 .. MaxCalls :
            Waits(c) = {<<b, j>>} /\ SetCall(b, j, [calls[b][j] EXCEPT !.at = "done"])
      BY <1>9 DEF Returns
    <2>4. j \in DOMAIN calls[b] /\ calls[b][j] \in CallRecords
      <3>1. <<b, j>> \in Waits(c)
        BY <2>3
      <3> QED BY <3>1, WaitMembers
    <2> DEFINE r == [calls[b][j] EXCEPT !.at = "done"]
    <2>5. r \in CallRecords /\ r.signal = calls[b][j].signal
      BY <2>4, CallFields
    <2> HIDE DEF r
    <2>6. /\ \A e \in Agents : DOMAIN calls'[e] = DOMAIN calls[e]
          /\ calls'[b][j] = r
          /\ \A e \in Agents : e # b => calls'[e] = calls[e]
          /\ \A e \in Agents : \A k \in DOMAIN calls[e] : e # b \/ k # j => calls'[e][k] = calls[e][k]
      BY <2>3, <2>4, <2>5, OneCall DEF r
    <2>7. phase[b] = "tools" /\ b # c
      BY <2>1, <2>4, CallsRun
    <2>8. Rounded
      BY <1>2, <2>1, <2>2, <2>6, <2>7
    <2>9. Idle
      BY <1>3, <1>4, <2>1, <2>2
    <2>10. Offered
      BY <1>2, <2>1, <2>2
    <2>11. Signals
      BY <1>2, <2>1, <2>4, <2>5, <2>6
    <2> QED BY <1>1, <2>8, <2>9, <2>10, <2>11
  <1>10. ASSUME NEW a \in Agents, NEW n \in 1 .. MaxCalls, NEW names \in [1 .. n -> ToolNames], GenerateTools(a, names)
         PROVE  LoopInv'
    <2>1. phase[a] = "generate" /\ UNCHANGED <<mode, toolset>>
      BY <1>10 DEF GenerateTools
    <2>2. /\ phase'[a] = "tools" /\ \A b \in Agents : b # a => calls'[b] = calls[b] /\ phase'[b] = phase[b]
      BY <1>10, AskedCalls
    <2>3. \A i \in DOMAIN calls'[a] : ~ calls'[a][i].signal
      <3>1. calls' \in [Agents -> Seq(CallRecords)] /\ Len(calls'[a]) = n
        BY <1>10, AskedCalls
      <3>2. DOMAIN calls'[a] = 1 .. n
        BY <3>1
      <3>3. \A i \in 1 .. n : ~ calls'[a][i].signal
        BY <1>10, AskedCalls
      <3> QED BY <3>2, <3>3
    <2>4. Rounded
      BY <1>2, <2>2
    <2>5. Idle
      BY <1>3, <1>4, <2>1, <2>2
    <2>6. Offered
      BY <1>2, <2>1
    <2>7. Signals
      BY <1>2, <2>1, <2>2, <2>3
    <2> QED BY <1>1, <2>4, <2>5, <2>6, <2>7
  <1>11. ASSUME NEW a \in Agents, CollectTools(a) PROVE LoopInv'
    <2>1. /\ phase[a] = "tools" /\ calls'[a] = <<>>
          /\ \A b \in Agents : b # a => calls'[b] = calls[b] /\ phase'[b] = phase[b] /\ toolset'[b] = toolset[b]
      BY <1>11, Collected
    <2>2. Rounded
      BY <1>2, <2>1
    <2>3. \A i \in DOMAIN calls'[a] : FALSE
      BY <2>1
    <2>4. CASE Signalled(a)
      <3>1. a = Root /\ mode = "memory"
        BY <1>2, <2>4 DEF Signalled
      <3>2. Stop(a) /\ mode' = "idle"
        BY <1>11, <2>4, Collected
      <3>3. phase'[a] = "off" /\ toolset'[a] = {}
        BY <3>2, StopFields
      <3>4. Idle
        BY <3>1, <3>2, <3>3
      <3>5. Offered
        BY <1>2, <2>1, <3>1, <3>3
      <3>6. Signals
        BY <1>2, <2>1, <2>3, <3>1
      <3> QED BY <1>1, <2>2, <3>4, <3>5, <3>6
    <2>5. CASE ~ Signalled(a)
      <3>1. UNCHANGED <<mode, toolset>> /\ phase' = [phase EXCEPT ![a] = "generate"]
        BY <1>11, <2>5, Collected
      <3>2. phase'[a] = "generate"
        BY <3>1 DEF TypeOK
      <3>3. Idle
        BY <1>3, <1>4, <2>1, <3>1, <3>2
      <3>4. Offered
        BY <1>2, <3>1
      <3>5. Signals
        BY <1>2, <2>1, <2>3, <3>1
      <3> QED BY <1>1, <2>2, <3>3, <3>4, <3>5
    <2> QED BY <2>4, <2>5
  <1>12. ASSUME NEW a \in Agents, NEW i \in 1 .. MaxCalls, Effect(a, i) PROVE LoopInv'
    <2>1. PICK r \in CallRecords :
            SetCall(a, i, r) /\ (r.signal => calls[a][i].signal \/ "write_memory" \in toolset[a])
      BY <1>12 DEF Effect
    <2>2. i \in DOMAIN calls[a] /\ UNCHANGED <<mode, phase, toolset>>
      BY <1>12 DEF Effect
    <2>3. /\ \A e \in Agents : DOMAIN calls'[e] = DOMAIN calls[e]
          /\ calls'[a][i] = r
          /\ \A e \in Agents : e # a => calls'[e] = calls[e]
          /\ \A e \in Agents : \A k \in DOMAIN calls[e] : e # a \/ k # i => calls'[e][k] = calls[e][k]
      BY <2>1, <2>2, OneCall
    <2>4. phase[a] = "tools"
      BY <2>2, CallsRun
    <2>5. Rounded
      BY <1>2, <2>2, <2>3, <2>4
    <2>6. Idle
      BY <1>3, <2>2
    <2>7. Offered
      BY <1>2, <2>2
    <2>8. Signals
      BY <1>2, <2>1, <2>2, <2>3
    <2> QED BY <1>1, <2>5, <2>6, <2>7, <2>8
  <1>13. ASSUME NEW a \in Agents, NEW i \in 1 .. MaxCalls, NEW c \in Children, Spawns(a, i, c) PROVE LoopInv'
    <2>1. /\ phase[a] = "tools" /\ phase[c] = "off" /\ i \in DOMAIN calls[a]
          /\ calls[a][i].at = "start" /\ calls[a][i] \in CallRecords
      BY <1>13, SpawnFields
    <2> DEFINE r == [calls[a][i] EXCEPT !.at = "child", !.child = c]
    <2>2. PICK ts \in SUBSET ChatTools : SetCall(a, i, r) /\ Run(c, <<User>>, ts) /\ UNCHANGED mode
      BY <1>13, SpawnFields
    <2>3. r \in CallRecords /\ r.signal = calls[a][i].signal
      BY <2>1 DEF CallRecords
    <2> HIDE DEF r
    <2>4. /\ \A e \in Agents : DOMAIN calls'[e] = DOMAIN calls[e]
          /\ calls'[a][i] = r
          /\ \A e \in Agents : e # a => calls'[e] = calls[e]
          /\ \A e \in Agents : \A k \in DOMAIN calls[e] : e # a \/ k # i => calls'[e][k] = calls[e][k]
      BY <2>1, <2>2, <2>3, OneCall
    <2>5. <<User>> \in Seq(Messages) /\ ts \in SUBSET ToolNames /\ "write_memory" \notin ts
      BY <1>4, MessageFields DEF ToolNames
    <2>6. /\ toolset'[c] = ts /\ c # Root /\ c # a /\ c \in Agents
          /\ \A b \in Agents : b # c => phase'[b] = phase[b] /\ toolset'[b] = toolset[b]
      BY <2>1, <2>2, <2>5, RunFields
    <2>7. Rounded
      BY <1>2, <2>1, <2>4, <2>6
    <2>8. Idle
      BY <1>3, <1>4, <2>2, <2>6
    <2>9. Offered
      BY <1>2, <2>2, <2>5, <2>6
    <2>10. Signals
      BY <1>2, <2>1, <2>2, <2>3, <2>4
    <2> QED BY <1>1, <2>7, <2>8, <2>9, <2>10
  <1>14. CASE UNCHANGED vars
    BY <1>14 DEF vars, LoopInv
  <1>15. ASSUME RootAnswers \/ RootFails PROVE LoopInv'
    <2>1. phase[Root] = "generate" /\ mode' = "idle" /\ Stop(Root) /\ UNCHANGED calls
      BY <1>15 DEF RootAnswers, RootFails
    <2> QED BY <1>8, <2>1
  <1> QED BY <1>6, <1>7, <1>9, <1>10, <1>11, <1>12, <1>13, <1>14, <1>15 DEF Step

-----------------------------------------------------------------------------
(* The todo list                                                           *)

\* Every step keeps the lists numbered.
LEMMA TodoStepInv ==
  ASSUME TypeOK, LoopInv, WaitInv, TodoInv, Step
  PROVE  TodoInv'
  <1> DEFINE N(items, n) == Len(items) <= n /\ \A i \in 1 .. Len(items) : items[i].id = i
             List  == Len(todos') = next' /\ N(todos', next') /\ N(screen', next')
             Views == \A a \in Agents : \A i \in DOMAIN calls'[a] : N(calls'[a][i].view, next')
  <1>1. List /\ Views => TodoInv'
    BY DEF TodoInv, Numbered
  <1>2. /\ Len(todos) = next /\ N(todos, next) /\ N(screen, next)
        /\ \A a \in Agents : \A i \in DOMAIN calls[a] : N(calls[a][i].view, next)
    BY DEF TodoInv, Numbered
  <1>3. next \in Nat /\ todos \in Seq(Items) /\ screen \in Seq(Items)
    BY DEF TypeOK
  <1>4. N(<<>>, next)
    BY <1>3
  <1>5. \A a \in Agents : \A i \in DOMAIN calls[a] : calls[a][i].view \in Seq(Items)
    <2>1. \A a \in Agents : \A i \in DOMAIN calls[a] : calls[a][i] \in CallRecords
      BY DEF TypeOK
    <2> QED BY <2>1 DEF CallRecords
  <1>6. ASSUME NEW items \in Seq(Items), NEW n \in Nat, N(items, next), n >= next PROVE N(items, n)
    <2>1. Len(items) \in Nat /\ Len(items) <= next
      BY <1>6
    <2>2. Len(items) <= n
      BY <1>3, <1>6, <2>1
    <2> QED BY <1>6, <2>2
  <1>7. UNCHANGED <<todos, next, screen>> => List
    BY <1>2
  <1> HIDE DEF N
  <1>8. UNCHANGED <<next, calls>> => Views
    BY <1>2
  <1>9. ASSUME UNCHANGED <<todos, next, screen, calls>> PROVE TodoInv'
    BY <1>1, <1>7, <1>8, <1>9
  <1>10. ASSUME NEW a \in Agents, NEW i \in DOMAIN calls[a], NEW r \in CallRecords, SetCall(a, i, r),
                r.view = calls[a][i].view, UNCHANGED <<todos, next, screen>>
         PROVE  TodoInv'
    <2>1. /\ \A e \in Agents : DOMAIN calls'[e] = DOMAIN calls[e]
          /\ calls'[a][i] = r
          /\ \A e \in Agents : \A k \in DOMAIN calls[e] : e # a \/ k # i => calls'[e][k] = calls[e][k]
      BY <1>10, OneCall
    <2>2. Views
      BY <1>2, <1>10, <2>1
    <2> QED BY <1>1, <1>7, <1>10, <2>2
  <1>11. ASSUME NEW c \in Children, Returns(c) PROVE TodoInv'
    <2>1. PICK b \in Agents, j \in 1 .. MaxCalls :
            Waits(c) = {<<b, j>>} /\ SetCall(b, j, [calls[b][j] EXCEPT !.at = "done"])
      BY <1>11 DEF Returns
    <2>2. j \in DOMAIN calls[b] /\ calls[b][j] \in CallRecords
      <3>1. <<b, j>> \in Waits(c)
        BY <2>1
      <3> QED BY <3>1, WaitMembers
    <2> DEFINE r == [calls[b][j] EXCEPT !.at = "done"]
    <2>3. r \in CallRecords /\ r.view = calls[b][j].view
      BY <2>2, CallFields
    <2>4. SetCall(b, j, r) /\ UNCHANGED <<todos, next, screen>>
      BY <1>11, <2>1 DEF Returns
    <2> HIDE DEF r
    <2> QED BY <1>10, <2>2, <2>3, <2>4
  <1>12. ASSUME NEW a \in Agents, NEW n \in 1 .. MaxCalls, NEW names \in [1 .. n -> ToolNames], GenerateTools(a, names)
         PROVE  TodoInv'
    <2>1. UNCHANGED <<todos, next, screen>>
      BY <1>12 DEF GenerateTools
    <2>2. \A b \in Agents : b # a => calls'[b] = calls[b]
      BY <1>12, AskedCalls
    <2>3. \A i \in DOMAIN calls'[a] : calls'[a][i].view = <<>>
      <3>1. calls' \in [Agents -> Seq(CallRecords)] /\ Len(calls'[a]) = n
        BY <1>12, AskedCalls
      <3>2. DOMAIN calls'[a] = 1 .. n
        BY <3>1
      <3>3. \A i \in 1 .. n : calls'[a][i].view = <<>>
        BY <1>12, AskedCalls
      <3> QED BY <3>2, <3>3
    <2>4. Views
      BY <1>2, <1>4, <2>1, <2>2, <2>3
    <2> QED BY <1>1, <1>7, <2>1, <2>4
  <1>13. ASSUME NEW a \in Agents, CollectTools(a) PROVE TodoInv'
    <2>1. UNCHANGED <<todos, next, screen>>
      BY <1>13 DEF CollectTools
    <2>2. calls'[a] = <<>> /\ \A b \in Agents : b # a => calls'[b] = calls[b]
      BY <1>13, Collected
    <2>3. \A i \in DOMAIN calls'[a] : FALSE
      BY <2>2
    <2>4. Views
      BY <1>2, <2>1, <2>2, <2>3
    <2> QED BY <1>1, <1>7, <2>1, <2>4
  <1>14. ASSUME NEW a \in Agents, NEW i \in 1 .. MaxCalls, Effect(a, i) PROVE TodoInv'
    <2>1. PICK r \in CallRecords :
            SetCall(a, i, r) /\ (r.view = calls[a][i].view \/ r.view = todos \/ r.view = <<>>)
      BY <1>14 DEF Effect
    <2>2. i \in DOMAIN calls[a] /\ TodoStep(a, i)
      BY <1>14 DEF Effect
    <2>3. /\ \A e \in Agents : DOMAIN calls'[e] = DOMAIN calls[e]
          /\ calls'[a][i] = r
          /\ \A e \in Agents : \A k \in DOMAIN calls[e] : e # a \/ k # i => calls'[e][k] = calls[e][k]
      BY <2>1, <2>2, OneCall
    <2>4. /\ todos' \in Seq(Items) /\ next' \in Nat /\ next' >= next /\ Len(todos') = next'
          /\ \A k \in 1 .. Len(todos) : todos'[k].id = todos[k].id
          /\ \A k \in 1 .. Len(todos') : k \in 1 .. Len(todos) \/ todos'[k].id = next + (k - Len(todos))
          /\ screen' = screen \/ screen' = calls[a][i].view
      BY <1>2, <2>2, TodoChange
    <2>5. /\ N(todos, next') /\ N(screen, next') /\ N(calls[a][i].view, next')
          /\ \A e \in Agents : \A k \in DOMAIN calls[e] : N(calls[e][k].view, next')
      BY <1>2, <1>3, <1>5, <1>6, <2>2, <2>4
    <2>6. N(<<>>, next')
      BY <2>4 DEF N
    <2>7. Views
      BY <2>1, <2>3, <2>5, <2>6
    <2>8. \A k \in 1 .. Len(todos') : todos'[k].id = k
      <3>1. ASSUME NEW k \in 1 .. Len(todos') PROVE todos'[k].id = k
        <4>1. CASE k \in 1 .. Len(todos)
          BY <1>2, <2>4, <4>1 DEF N
        <4>2. CASE ~ (k \in 1 .. Len(todos))
          BY <1>2, <1>3, <2>4, <4>2
        <4> QED BY <4>1, <4>2
      <3> QED BY <3>1
    <2>9. N(todos', next')
      BY <2>4, <2>8 DEF N
    <2>10. List
      BY <2>4, <2>5, <2>9
    <2> QED BY <1>1, <2>7, <2>10
  <1>15. ASSUME NEW a \in Agents, NEW i \in 1 .. MaxCalls, NEW c \in Children, Spawns(a, i, c) PROVE TodoInv'
    <2>1. i \in DOMAIN calls[a] /\ calls[a][i] \in CallRecords
      BY <1>15, SpawnFields
    <2> DEFINE r == [calls[a][i] EXCEPT !.at = "child", !.child = c]
    <2>2. SetCall(a, i, r) /\ UNCHANGED <<todos, next, screen>>
      BY <1>15, SpawnFields
    <2>3. r \in CallRecords /\ r.view = calls[a][i].view
      BY <2>1 DEF CallRecords
    <2> HIDE DEF r
    <2> QED BY <1>10, <2>1, <2>2, <2>3
  <1>16. CASE \/ \E input \in {"text", "empty"} : StartTurn(input)
              \/ StartMemoryAgent \/ RootAnswers \/ RootFails \/ UNCHANGED vars
    <2>1. UNCHANGED <<todos, next, screen, calls>>
      BY <1>16 DEF StartTurn, StartMemoryAgent, RootAnswers, RootFails, vars
    <2> QED BY <1>9, <2>1
  <1> QED BY <1>11, <1>12, <1>13, <1>14, <1>15, <1>16 DEF Step

-----------------------------------------------------------------------------
(* Histories                                                               *)

\* A history of one user message.
LEMMA PairedUser == Paired(<<User>>) /\ Paired(<<>>)
  <1>1. Paired(<<>>)
    BY DEF Paired
  <1>2. Len(<<User>>) = 1 /\ DOMAIN <<User>> = 1 .. 1 /\ <<User>>[1] = User
    OBVIOUS
  <1>3. \A i \in DOMAIN <<User>> : <<User>>[i].calls = 0 /\ <<User>>[i].answers = 0
    BY <1>2, MessageFields
  <1>4. Paired(<<User>>)
    BY <1>3 DEF Paired
  <1> QED BY <1>1, <1>4

\* Every step keeps the histories paired.
LEMMA PairStep ==
  ASSUME TypeOK, LoopInv, WaitInv, PairInv, TurnInv, Step
  PROVE  PairInv'
  <1> DEFINE Ready(a)  == phase[a] = "generate" => Paired(msgs[a])
             Asked(a)  == phase[a] = "tools" =>
                            /\ msgs[a] # <<>> /\ msgs[a][Len(msgs[a])] = Model(Len(calls[a]))
                            /\ Paired(SubSeq(msgs[a], 1, Len(msgs[a]) - 1))
  <1>1. Paired(log)' /\ (\A a \in Agents : Ready(a)' /\ Asked(a)') => PairInv'
    BY DEF PairInv
  <1>2. Paired(log) /\ \A a \in Agents : Ready(a) /\ Asked(a)
    BY DEF PairInv
  <1>3. \A a \in Agents : phase'[a] = phase[a] /\ msgs'[a] = msgs[a] /\ Len(calls'[a]) = Len(calls[a])
          => Ready(a)' /\ Asked(a)'
    BY <1>2
  <1>4. \A a \in Agents : phase'[a] = "off" => Ready(a)' /\ Asked(a)'
    OBVIOUS
  <1>5. \A a \in Agents : phase'[a] = "generate" /\ Paired(msgs'[a]) => Ready(a)' /\ Asked(a)'
    BY DEF Paired
  <1>6. log' = log => Paired(log)'
    BY <1>2 DEF Paired
  <1>7. log \in Seq(Messages) /\ msgs \in [Agents -> Seq(Messages)] /\ Root \in Agents
    BY DEF TypeOK
  <1> HIDE DEF Ready, Asked
  <1>8. ASSUME NEW input \in {"text", "empty"}, StartTurn(input) PROVE PairInv'
    <2>1. PICK ms \in Seq(Messages) : /\ ms = log \/ ms = Append(log, User)
                                      /\ Run(Root, ApplyReminder(ms), ChatTools)
      BY <1>8, TurnMessages
    <2>2. Paired(ms)
      <3>1. User \in Messages /\ User.calls = 0 /\ User.answers = 0
        BY MessageFields
      <3>2. Paired(Append(log, User))
        BY <1>2, <1>7, <3>1, PairedAppend
      <3> QED BY <1>2, <2>1, <3>2
    <2>3. /\ ApplyReminder(ms) \in Seq(Messages) /\ Len(ApplyReminder(ms)) = Len(ms)
          /\ \A i \in 1 .. Len(ms) : /\ ApplyReminder(ms)[i].calls = ms[i].calls
                                      /\ ApplyReminder(ms)[i].answers = ms[i].answers
      BY Reminded
    <2>4. Paired(ApplyReminder(ms))
      BY <2>2, <2>3, PairedBySkeleton
    <2>5. ChatTools \in SUBSET ToolNames /\ UNCHANGED <<log, calls>>
      BY <1>8 DEF ToolNames, StartTurn
    <2>6. /\ phase'[Root] = "generate" /\ msgs'[Root] = ApplyReminder(ms)
          /\ \A b \in Agents : b # Root => phase'[b] = phase[b] /\ msgs'[b] = msgs[b]
      BY <1>7, <2>1, <2>3, <2>5, RunFields
    <2>7. \A a \in Agents : Ready(a)' /\ Asked(a)'
      BY <1>3, <1>5, <2>4, <2>5, <2>6
    <2> QED BY <1>1, <1>6, <2>5, <2>7
  <1>9. ASSUME StartMemoryAgent PROVE PairInv'
    <2>1. Run(Root, <<User>>, {"write_memory"}) /\ UNCHANGED <<log, calls>>
      BY <1>9 DEF StartMemoryAgent
    <2>2. <<User>> \in Seq(Messages) /\ {"write_memory"} \in SUBSET ToolNames
      BY MessageFields DEF ToolNames
    <2>3. /\ phase'[Root] = "generate" /\ msgs'[Root] = <<User>>
          /\ \A b \in Agents : b # Root => phase'[b] = phase[b] /\ msgs'[b] = msgs[b]
      BY <1>7, <2>1, <2>2, RunFields
    <2>4. \A a \in Agents : Ready(a)' /\ Asked(a)'
      BY <1>3, <1>5, <2>1, <2>3, PairedUser
    <2> QED BY <1>1, <1>6, <2>1, <2>4
  <1>10. ASSUME RootAnswers \/ RootFails PROVE PairInv'
    <2>1. phase[Root] = "generate" /\ Stop(Root) /\ UNCHANGED calls
      BY <1>10 DEF RootAnswers, RootFails
    <2>2. /\ phase'[Root] = "off"
          /\ \A b \in Agents : b # Root => phase'[b] = phase[b] /\ msgs'[b] = msgs[b]
      BY <1>7, <2>1, StopFields
    <2>3. \A a \in Agents : Ready(a)' /\ Asked(a)'
      BY <1>3, <1>4, <2>1, <2>2
    <2>4. Paired(log)'
      <3>1. CASE RootAnswers /\ mode = "chat"
        <4> DEFINE ms == Append(msgs[Root], Model(0))
        <4>1. ms \in Seq(Messages) /\ tail \in 0 .. Len(ms) /\ log' = StripReminder(ms)
          BY <3>1, StoredMessages
        <4>2. Paired(ms)
          <5>1. Paired(msgs[Root])
            BY <1>2, <1>7, <2>1 DEF Ready
          <5>2. Model(0) \in Messages /\ Model(0).calls = 0 /\ Model(0).answers = 0
            BY MessageFields
          <5> QED BY <1>7, <5>1, <5>2, PairedAppend
        <4> HIDE DEF ms
        <4>3. /\ log' \in Seq(Messages) /\ Len(log') = Len(ms)
              /\ \A i \in 1 .. Len(ms) : log'[i].calls = ms[i].calls /\ log'[i].answers = ms[i].answers
          BY <4>1, Stripped
        <4>4. Paired(log')
          BY <4>1, <4>2, <4>3, PairedBySkeleton
        <4> QED BY <4>4 DEF Paired
      <3>2. CASE ~ (RootAnswers /\ mode = "chat")
        <4>1. log' = log
          BY <1>10, <3>2 DEF RootAnswers, RootFails
        <4> QED BY <1>6, <4>1
      <3> QED BY <3>1, <3>2
    <2> QED BY <1>1, <2>3, <2>4
  <1>11. ASSUME NEW c \in Children, Returns(c) PROVE PairInv'
    <2>1. /\ phase'[c] = "off" /\ UNCHANGED log
          /\ \A b \in Agents : b # c => phase'[b] = phase[b] /\ msgs'[b] = msgs[b]
      BY <1>11, StopFields DEF Returns
    <2>2. PICK b \in Agents, j \in 1 .. MaxCalls :
            Waits(c) = {<<b, j>>} /\ SetCall(b, j, [calls[b][j] EXCEPT !.at = "done"])
      BY <1>11 DEF Returns
    <2>3. j \in DOMAIN calls[b] /\ calls[b][j] \in CallRecords
      <3>1. <<b, j>> \in Waits(c)
        BY <2>2
      <3> QED BY <3>1, WaitMembers
    <2>4. \A e \in Agents : Len(calls'[e]) = Len(calls[e])
      BY <2>2, <2>3, CallFields, OneCall
    <2>5. \A a \in Agents : Ready(a)' /\ Asked(a)'
      BY <1>3, <1>4, <2>1, <2>4
    <2> QED BY <1>1, <1>6, <2>1, <2>5
  <1>12. ASSUME NEW a \in Agents, NEW n \in 1 .. MaxCalls, NEW names \in [1 .. n -> ToolNames], GenerateTools(a, names)
         PROVE  PairInv'
    <2>1. phase[a] = "generate" /\ UNCHANGED log
      BY <1>12 DEF GenerateTools
    <2>2. /\ phase'[a] = "tools" /\ msgs'[a] = Append(msgs[a], Model(n)) /\ Len(calls'[a]) = n
          /\ \A b \in Agents : b # a => calls'[b] = calls[b] /\ phase'[b] = phase[b] /\ msgs'[b] = msgs[b]
      BY <1>12, AskedCalls
    <2>3. Paired(msgs[a])
      BY <1>2, <2>1 DEF Ready
    <2> DEFINE s == msgs[a]
               t == Append(s, Model(n))
    <2>4. s \in Seq(Messages) /\ Model(n) \in Messages
      BY <1>7, MessageFields
    <2> HIDE DEF s
    <2>5. t \in Seq(Messages) /\ Len(t) = Len(s) + 1 /\ t # <<>> /\ t[Len(t)] = Model(n)
      BY <2>4
    <2>6. SubSeq(t, 1, Len(t) - 1) = s
      BY <2>4, <2>5
    <2>7. Asked(a)' /\ Ready(a)'
      <3> HIDE DEF t
      <3>1. msgs'[a] = t /\ Paired(s)
        BY <2>2, <2>3 DEF t, s
      <3>2. Ready(a)'
        BY <2>2 DEF Ready
      <3>3. Asked(a)'
        BY <2>2, <2>5, <2>6, <3>1 DEF Asked
      <3> QED BY <3>2, <3>3
    <2>8. \A b \in Agents : Ready(b)' /\ Asked(b)'
      BY <1>3, <2>2, <2>7
    <2> QED BY <1>1, <1>6, <2>1, <2>8
  <1>13. ASSUME NEW a \in Agents, CollectTools(a) PROVE PairInv'
    <2>1. /\ phase[a] = "tools" /\ UNCHANGED log
          /\ \A b \in Agents : b # a => calls'[b] = calls[b] /\ phase'[b] = phase[b] /\ msgs'[b] = msgs[b]
      BY <1>13, Collected DEF CollectTools
    <2>2. Ready(a)' /\ Asked(a)'
      <3>1. CASE Signalled(a)
        BY <1>4, <1>13, <3>1, Collected, StopFields
      <3>2. CASE ~ Signalled(a)
        <4>1. /\ msgs'[a] = msgs[a] \o [i \in 1 .. Len(calls[a]) |-> Tool(i)]
              /\ phase' = [phase EXCEPT ![a] = "generate"]
          BY <1>13, <3>2, Collected
        <4>2. phase'[a] = "generate"
          BY <4>1 DEF TypeOK
        <4>3. /\ msgs[a] # <<>> /\ msgs[a][Len(msgs[a])] = Model(Len(calls[a]))
              /\ Paired(SubSeq(msgs[a], 1, Len(msgs[a]) - 1))
          BY <1>2, <2>1 DEF Asked
        <4>4. msgs[a] \in Seq(Messages) /\ Len(calls[a]) \in Nat
          BY DEF TypeOK
        <4>5. Paired(msgs'[a])
          BY <4>1, <4>3, <4>4, PairedRound
        <4> QED BY <1>5, <4>2, <4>5
      <3> QED BY <3>1, <3>2
    <2>3. \A b \in Agents : Ready(b)' /\ Asked(b)'
      BY <1>3, <2>1, <2>2
    <2> QED BY <1>1, <1>6, <2>1, <2>3
  <1>14. ASSUME NEW a \in Agents, NEW i \in 1 .. MaxCalls, Effect(a, i) PROVE PairInv'
    <2>1. i \in DOMAIN calls[a] /\ UNCHANGED <<log, phase, msgs>> /\ \E r \in CallRecords : SetCall(a, i, r)
      BY <1>14 DEF Effect
    <2>2. \A e \in Agents : Len(calls'[e]) = Len(calls[e])
      BY <2>1, OneCall
    <2>3. \A b \in Agents : Ready(b)' /\ Asked(b)'
      BY <1>3, <2>1, <2>2
    <2> QED BY <1>1, <1>6, <2>1, <2>3
  <1>15. ASSUME NEW a \in Agents, NEW i \in 1 .. MaxCalls, NEW c \in Children, Spawns(a, i, c) PROVE PairInv'
    <2>1. i \in DOMAIN calls[a] /\ calls[a][i] \in CallRecords
      BY <1>15, SpawnFields
    <2> DEFINE r == [calls[a][i] EXCEPT !.at = "child", !.child = c]
    <2>2. PICK ts \in SUBSET ChatTools : SetCall(a, i, r) /\ Run(c, <<User>>, ts) /\ UNCHANGED log
      BY <1>15, SpawnFields
    <2>3. r \in CallRecords
      BY <2>1 DEF CallRecords
    <2> HIDE DEF r
    <2>4. \A e \in Agents : Len(calls'[e]) = Len(calls[e])
      BY <2>1, <2>2, <2>3, OneCall
    <2>5. <<User>> \in Seq(Messages) /\ ts \in SUBSET ToolNames
      BY MessageFields DEF ToolNames
    <2>6. /\ phase'[c] = "generate" /\ msgs'[c] = <<User>> /\ c \in Agents
          /\ \A b \in Agents : b # c => phase'[b] = phase[b] /\ msgs'[b] = msgs[b]
      BY <2>2, <2>5, RunFields
    <2>7. \A b \in Agents : Ready(b)' /\ Asked(b)'
      BY <1>3, <1>5, <2>4, <2>6, PairedUser
    <2> QED BY <1>1, <1>6, <2>2, <2>7
  <1>16. CASE UNCHANGED vars
    BY <1>1, <1>3, <1>6, <1>16 DEF vars
  <1> QED BY <1>8, <1>9, <1>10, <1>11, <1>12, <1>13, <1>14, <1>15, <1>16 DEF Step

-----------------------------------------------------------------------------
(* Turns                                                                   *)

\* Every step keeps the turn's messages an extension of the log.
LEMMA TurnStep ==
  ASSUME TypeOK, LoopInv, WaitInv, TurnInv, Step
  PROVE  TurnInv'
  <1> DEFINE Clean(ms, t) == \A i \in 1 .. Len(ms) : i # t => ms[i].reminder = FALSE
             Unmarked(m)  == [m EXCEPT !.reminder = FALSE]
             Extends(ms, t, l) == \A i \in 1 .. Len(l) : l[i] = IF i = t THEN Unmarked(ms[i]) ELSE ms[i]
             Turn(ms, t, l) == Len(l) <= Len(ms) /\ t <= Len(ms) /\ Clean(ms, t) /\ Extends(ms, t, l)
             Plain(l) == \A i \in 1 .. Len(l) : l[i].reminder = FALSE
  <1>1. Plain(log') /\ (mode' = "chat" => Turn(msgs'[Root], tail', log')) => TurnInv'
    BY DEF TurnInv
  <1>2. Plain(log) /\ (mode = "chat" => Turn(msgs[Root], tail, log))
    BY DEF TurnInv
  <1>3. log \in Seq(Messages) /\ msgs \in [Agents -> Seq(Messages)] /\ Root \in Agents /\ tail \in Nat
    BY DEF TypeOK
  <1>4. ASSUME UNCHANGED <<log, mode, tail>>, msgs'[Root] = msgs[Root] PROVE TurnInv'
    <2> HIDE DEF Turn, Plain
    <2> QED BY <1>1, <1>2, <1>4
  <1>5. ASSUME mode' # "chat", Plain(log') PROVE TurnInv'
    BY <1>1, <1>5
  \* A turn's messages grow by messages without a reminder.
  <1>6. ASSUME NEW ms \in Seq(Messages), NEW ns \in Seq(Messages), NEW t \in Nat, NEW l \in Seq(Messages),
               Turn(ms, t, l), \A i \in 1 .. Len(ns) : ns[i].reminder = FALSE
        PROVE  Turn(ms \o ns, t, l)
    <2> DEFINE x == ms \o ns
    <2>1. /\ x \in Seq(Messages) /\ Len(x) = Len(ms) + Len(ns)
          /\ \A i \in 1 .. Len(ms) + Len(ns) : x[i] = IF i <= Len(ms) THEN ms[i] ELSE ns[i - Len(ms)]
      BY ConcatProperties
    <2>2. Len(ms) \in Nat /\ Len(ns) \in Nat /\ Len(l) \in Nat
      OBVIOUS
    <2> HIDE DEF x
    <2>3. Len(l) <= Len(x) /\ t <= Len(x)
      BY <1>6, <2>1, <2>2
    <2>4. \A i \in 1 .. Len(ms) : x[i] = ms[i]
      BY <2>1, <2>2
    <2>5. Extends(x, t, l)
      <3>1. \A i \in 1 .. Len(l) : i \in 1 .. Len(ms)
        BY <1>6, <2>2
      <3> HIDE DEF Unmarked
      <3> QED BY <1>6, <2>4, <3>1
    <2>6. Clean(x, t)
      <3>1. ASSUME NEW i \in 1 .. Len(x), i # t PROVE x[i].reminder = FALSE
        <4>1. CASE i <= Len(ms)
          <5>1. i \in 1 .. Len(ms)
            BY <2>1, <2>2, <4>1
          <5> QED BY <1>6, <2>4, <3>1, <5>1
        <4>2. CASE ~ (i <= Len(ms))
          <5>1. i - Len(ms) \in 1 .. Len(ns) /\ i \in 1 .. Len(ms) + Len(ns)
            BY <2>1, <2>2, <4>2
          <5>2. x[i] = ns[i - Len(ms)]
            BY <2>1, <4>2, <5>1
          <5> QED BY <1>6, <5>1, <5>2
        <4> QED BY <4>1, <4>2
      <3> QED BY <3>1
    <2> QED BY <2>3, <2>5, <2>6 DEF x
  <1>7. ASSUME NEW input \in {"text", "empty"}, StartTurn(input) PROVE TurnInv'
    <2>1. PICK ms \in Seq(Messages) :
           /\ Len(log) <= Len(ms) /\ \A i \in 1 .. Len(log) : ms[i] = log[i]
           /\ \A i \in 1 .. Len(ms) : i \in 1 .. Len(log) \/ ms[i] = User
           /\ tail' = TailUser(ms) /\ Run(Root, ApplyReminder(ms), ChatTools)
      BY <1>7, TurnMessages
    <2> DEFINE x == ApplyReminder(ms)
               t == TailUser(ms)
    <2>2. x \in Seq(Messages) /\ Len(x) = Len(ms) /\ t \in 0 .. Len(ms)
      BY Reminded, TailBound
    <2>3. \A i \in 1 .. Len(ms) : x[i] = IF i = t THEN [ms[i] EXCEPT !.reminder = TRUE] ELSE ms[i]
      BY Reminded
    <2>4. UNCHANGED log /\ msgs'[Root] = x
      <3>1. ChatTools \in SUBSET ToolNames
        BY DEF ToolNames
      <3> QED BY <1>3, <1>7, <2>1, <2>2, <3>1, RunFields DEF StartTurn
    <2>5. \A i \in 1 .. Len(ms) : ms[i].reminder = FALSE
      BY <1>2, <2>1, MessageFields
    <2>6. tail' = t
      BY <2>1
    <2> HIDE DEF x, t
    <2>7. Clean(x, t)
      BY <2>2, <2>3, <2>5
    <2>8. \A i \in 1 .. Len(log) : i \in 1 .. Len(ms)
      BY <1>3, <2>1
    <2>9. ASSUME NEW i \in 1 .. Len(log) PROVE log[i] = IF i = t THEN Unmarked(x[i]) ELSE x[i]
      <3>1. i \in 1 .. Len(ms) /\ ms[i] = log[i] /\ ms[i] \in Messages
        BY <2>1, <2>8
      <3>2. ms[i].reminder = FALSE
        BY <2>5, <3>1
      <3>3. CASE i = t
        <4>1. x[i] = [ms[i] EXCEPT !.reminder = TRUE]
          BY <2>3, <3>1, <3>3
        <4>2. [[ms[i] EXCEPT !.reminder = TRUE] EXCEPT !.reminder = FALSE] = ms[i]
          BY <3>1, <3>2, ReminderField
        <4> QED BY <3>1, <3>3, <4>1, <4>2
      <3>4. CASE i # t
        BY <2>3, <3>1, <3>4
      <3> QED BY <3>3, <3>4
    <2>10. Turn(x, t, log)
      <3>1. Len(log) <= Len(x) /\ t <= Len(x)
        BY <2>1, <2>2
      <3>2. Extends(x, t, log)
        BY <2>9
      <3> HIDE DEF Clean, Extends
      <3> QED BY <2>7, <3>1, <3>2
    <2> HIDE DEF Turn, Plain
    <2> QED BY <1>1, <1>2, <2>4, <2>6, <2>10
  <1>8. ASSUME StartMemoryAgent \/ RootFails PROVE TurnInv'
    <2>1. mode' # "chat" /\ UNCHANGED log
      BY <1>8 DEF StartMemoryAgent, RootFails
    <2> HIDE DEF Plain
    <2> QED BY <1>2, <1>5, <2>1
  <1>9. ASSUME RootAnswers PROVE TurnInv'
    <2>1. mode' # "chat"
      BY <1>9 DEF RootAnswers
    <2>2. CASE mode # "chat"
      <3>1. UNCHANGED log
        BY <1>9, <2>2 DEF RootAnswers
      <3> HIDE DEF Plain
      <3> QED BY <1>2, <1>5, <2>1, <3>1
    <2>3. CASE mode = "chat"
      <3>1. /\ Len(log') = Len(msgs[Root]) + 1
            /\ log'[Len(msgs[Root]) + 1] = Model(0)
            /\ \A i \in 1 .. Len(msgs[Root]) : log'[i] = IF i = tail THEN Unmarked(msgs[Root][i]) ELSE msgs[Root][i]
        BY <1>9, <2>3, StoredMessages
      <3>2. ASSUME NEW i \in 1 .. Len(log') PROVE log'[i].reminder = FALSE
        <4>1. CASE i = Len(msgs[Root]) + 1
          BY <3>1, <4>1, MessageFields
        <4>2. CASE i # Len(msgs[Root]) + 1
          <5>1. i \in 1 .. Len(msgs[Root]) /\ msgs[Root] \in Seq(Messages)
            BY <1>3, <3>1, <4>2
          <5>2. msgs[Root][i] \in Messages
            BY <5>1
          <5>3. CASE i = tail
            <6>1. log'[i] = [msgs[Root][i] EXCEPT !.reminder = FALSE]
              BY <3>1, <5>1, <5>3
            <6>2. [msgs[Root][i] EXCEPT !.reminder = FALSE].reminder = FALSE
              BY <5>2 DEF Messages
            <6> QED BY <6>1, <6>2
          <5>4. CASE i # tail
            BY <1>2, <2>3, <3>1, <5>1, <5>4
          <5> QED BY <5>3, <5>4
        <4> QED BY <4>1, <4>2
      <3> QED BY <1>5, <2>1, <3>2
    <2> QED BY <2>2, <2>3
  <1>10. ASSUME NEW c \in Children, Returns(c) PROVE TurnInv'
    <2>1. msgs'[Root] = msgs[Root] /\ UNCHANGED <<log, mode, tail>>
      BY <1>10, StopFields DEF Returns
    <2> QED BY <1>4, <2>1
  <1>11. ASSUME NEW a \in Agents, NEW n \in 1 .. MaxCalls, NEW names \in [1 .. n -> ToolNames], GenerateTools(a, names)
         PROVE  TurnInv'
    <2>1. UNCHANGED <<log, mode, tail>>
      BY <1>11 DEF GenerateTools
    <2>2. CASE a # Root
      <3>1. msgs'[Root] = msgs[Root]
        BY <1>3, <1>11, <2>2, AskedCalls
      <3> QED BY <1>4, <2>1, <3>1
    <2>3. CASE a = Root
      <3>1. msgs'[Root] = Append(msgs[Root], Model(n))
        BY <1>11, <2>3, AskedCalls
      <3>2. /\ Model(n) \in Messages /\ Model(n).reminder = FALSE
        BY MessageFields
      <3>3. /\ <<Model(n)>> \in Seq(Messages) /\ Append(msgs[Root], Model(n)) = msgs[Root] \o <<Model(n)>>
            /\ \A i \in 1 .. Len(<<Model(n)>>) : <<Model(n)>>[i].reminder = FALSE
        BY <1>3, <3>2
      <3>4. mode = "chat" => Turn(msgs'[Root], tail, log)
        <4>1. msgs[Root] \in Seq(Messages)
          BY <1>3
        <4> HIDE DEF Turn
        <4>2. mode = "chat" => Turn(msgs[Root] \o <<Model(n)>>, tail, log)
          BY <1>2, <1>3, <1>6, <3>3, <4>1, Zenon
        <4>3. msgs'[Root] = msgs[Root] \o <<Model(n)>>
          BY <3>1, <3>3
        <4> QED BY <4>2, <4>3
      <3> HIDE DEF Turn, Plain
      <3> QED BY <1>1, <1>2, <2>1, <3>4
    <2> QED BY <2>2, <2>3
  <1>12. ASSUME NEW a \in Agents, CollectTools(a) PROVE TurnInv'
    <2>1. UNCHANGED log
      BY <1>12 DEF CollectTools
    <2>2. CASE Signalled(a)
      <3>1. mode' # "chat"
        BY <1>12, <2>2, Collected
      <3> HIDE DEF Plain
      <3> QED BY <1>2, <1>5, <2>1, <3>1
    <2>3. CASE ~ Signalled(a)
      <3>1. UNCHANGED <<mode, tail>>
        BY <1>12, <2>3, Collected
      <3>2. CASE a # Root
        <4>1. msgs'[Root] = msgs[Root]
          BY <1>3, <1>12, <3>2, Collected
        <4> QED BY <1>4, <2>1, <3>1, <4>1
      <3>3. CASE a = Root
        <4> DEFINE n  == Len(calls[Root])
                   rs == [i \in 1 .. n |-> Tool(i)]
        <4>1. msgs'[Root] = msgs[Root] \o rs
          BY <1>12, <2>3, <3>3, Collected
        <4>2. n \in Nat
          BY <1>3 DEF TypeOK
        <4> HIDE DEF n
        <4>3. rs \in Seq(Messages) /\ Len(rs) = n /\ \A i \in 1 .. n : rs[i] = Tool(i)
          BY <4>2, ResultList
        <4> HIDE DEF rs
        <4>4. \A i \in 1 .. Len(rs) : rs[i].reminder = FALSE
          BY <4>2, <4>3, MessageFields
        <4>5. mode = "chat" => Turn(msgs'[Root], tail, log)
          <5>1. msgs[Root] \in Seq(Messages)
            BY <1>3
          <5> HIDE DEF Turn
          <5>2. mode = "chat" => Turn(msgs[Root] \o rs, tail, log)
            BY <1>2, <1>3, <1>6, <4>3, <4>4, <5>1, Zenon
          <5> QED BY <4>1, <5>2
        <4> HIDE DEF Turn, Plain
        <4> QED BY <1>1, <1>2, <2>1, <3>1, <4>5
      <3> QED BY <3>2, <3>3
    <2> QED BY <2>2, <2>3
  <1>13. ASSUME NEW a \in Agents, NEW i \in 1 .. MaxCalls, Effect(a, i) PROVE TurnInv'
    <2>1. UNCHANGED <<log, mode, tail, msgs>>
      BY <1>13 DEF Effect
    <2> QED BY <1>4, <2>1
  <1>14. ASSUME NEW a \in Agents, NEW i \in 1 .. MaxCalls, NEW c \in Children, Spawns(a, i, c) PROVE TurnInv'
    <2>1. PICK ts \in SUBSET ChatTools : Run(c, <<User>>, ts) /\ UNCHANGED <<log, mode, tail>>
      BY <1>14, SpawnFields
    <2>2. <<User>> \in Seq(Messages) /\ ts \in SUBSET ToolNames
      BY MessageFields DEF ToolNames
    <2>3. msgs'[Root] = msgs[Root]
      BY <1>3, <2>1, <2>2, RunFields
    <2> QED BY <1>4, <2>1, <2>3
  <1>15. CASE UNCHANGED vars
    BY <1>4, <1>15 DEF vars
  <1> QED BY <1>7, <1>8, <1>9, <1>10, <1>11, <1>12, <1>13, <1>14, <1>15 DEF Step

-----------------------------------------------------------------------------
(* Theorems                                                                *)

\* The invariant holds initially.
LEMMA InitInd == Init => IndInv
  <1> SUFFICES ASSUME Init PROVE IndInv
    OBVIOUS
  <1> USE DEF Init
  <1>1. TypeOK
    BY EmptySeq DEF TypeOK
  <1>2. \A a \in Agents : calls[a] = <<>> /\ \A i \in DOMAIN calls[a] : FALSE
    OBVIOUS
  <1>3. LoopInv
    BY <1>2 DEF LoopInv
  <1>4. WaitInv
    <2>1. \A c \in Children : Waits(c) = {}
      BY <1>2 DEF Waits
    <2> QED BY <2>1 DEF WaitInv
  <1>5. TreeInv
    BY DEF TreeInv
  <1>6. TodoInv
    BY <1>2 DEF TodoInv, Numbered
  <1>7. PairInv
    BY PairedUser DEF PairInv
  <1>8. TurnInv
    BY DEF TurnInv
  <1> QED BY <1>1, <1>3, <1>4, <1>5, <1>6, <1>7, <1>8 DEF IndInv

\* Every step keeps it.
LEMMA NextInd == IndInv /\ [Next]_vars => IndInv'
  <1> SUFFICES ASSUME IndInv, [Next]_vars PROVE IndInv'
    OBVIOUS
  <1>1. TypeOK /\ LoopInv /\ WaitInv /\ TreeInv /\ TodoInv /\ PairInv /\ TurnInv
    BY DEF IndInv
  <1>2. Step
    BY <1>1, Steps
  <1>3. TypeOK' /\ LoopInv'
    BY <1>1, <1>2, TypeStep, LoopStepInv
  <1>4. WaitInv' /\ TreeInv'
    BY <1>1, <1>2, WaitInvStep, TreeStep
  <1>5. TodoInv' /\ PairInv' /\ TurnInv'
    BY <1>1, <1>2, TodoStepInv, PairStep, TurnStep
  <1> QED BY <1>3, <1>4, <1>5 DEF IndInv

\* The conjunction the theorems below rest on holds in every reachable state, whatever the
\* number of subagents and of calls in a round.
THEOREM Invariance == Spec => []IndInv
  BY InitInd, NextInd, PTL DEF Spec

\* Every variable of the turn has its type.
THEOREM TypeCorrect == Spec => []TypeOK
  <1>1. IndInv => TypeOK
    BY DEF IndInv
  <1> QED BY <1>1, Invariance, PTL

\* Every request a loop sends, and every log a turn stores, answers each call it contains
\* exactly once and in call order: executeToolsParallel with goroutines that end in any
\* order, failed turns, reminders and subagents included.
THEOREM HistoriesArePaired == Spec => []RequestsArePaired
  <1>1. IndInv => RequestsArePaired
    BY DEF IndInv, PairInv, RequestsArePaired
  <1> QED BY <1>1, Invariance, PTL

\* No two todo items ever share an id, and no snapshot shown or under way renumbers one,
\* however many calls of the turn and of its subagents work on the list at once.
THEOREM IdsAreStable == Spec => []TodoIdsAreStable
  <1>1. ASSUME IndInv PROVE TodoIdsAreStable
    <2>1. TypeOK /\ TodoInv
      BY <1>1 DEF IndInv
    <2>2. todos \in Seq(Items) /\ screen \in Seq(Items) /\ next \in Nat /\ Len(todos) = next
      BY <2>1 DEF TypeOK, TodoInv
    <2>3. \A i \in 1 .. next : todos[i].id = i
      BY <2>1, <2>2 DEF TodoInv, Numbered
    <2>4. Ids(todos) = [i \in 1 .. next |-> i]
      BY <2>2, <2>3 DEF Ids
    <2>5. ASSUME NEW items \in Seq(Items), Numbered(items)
          PROVE  Len(items) <= Len(todos) /\ Ids(items) = SubSeq(Ids(todos), 1, Len(items))
      <3> DEFINE n == Len(items)
                 f == [i \in 1 .. next |-> i]
      <3>1. n \in Nat /\ n <= next /\ DOMAIN items = 1 .. n /\ \A i \in 1 .. n : items[i].id = i
        BY <2>5 DEF Numbered
      <3>2. Ids(items) = [i \in 1 .. n |-> i]
        BY <3>1 DEF Ids
      <3> HIDE DEF n
      <3>3. \A i \in 1 .. n : f[i] \in Nat
        BY <2>2, <3>1
      <3>4. /\ SubSeq(f, 1, n) \in Seq(Nat) /\ Len(SubSeq(f, 1, n)) = IF 1 <= n THEN n - 1 + 1 ELSE 0
            /\ \A i \in 1 .. n - 1 + 1 : SubSeq(f, 1, n)[i] = f[1 + i - 1]
        <4> HIDE DEF f
        <4>1. n \in Int /\ 1 \in Int
          BY <3>1
        <4> QED BY <3>3, <4>1, SubSeqProperties
      <3>5. Len(SubSeq(f, 1, n)) = n /\ \A i \in 1 .. n : SubSeq(f, 1, n)[i] = i
        <4>1. \A i \in 1 .. n : f[1 + i - 1] = i
          BY <2>2, <3>1
        <4> HIDE DEF f
        <4> QED BY <3>1, <3>4, <4>1
      <3> HIDE DEF f
      <3>6. SubSeq(f, 1, n) = [i \in 1 .. n |-> i]
        BY <3>4, <3>5
      <3> QED BY <2>2, <2>4, <3>1, <3>2, <3>6 DEF n, f
    <2>6. \A a \in Agents : \A i \in DOMAIN calls[a] : Numbered(calls[a][i].view) /\ calls[a][i].view \in Seq(Items)
      <3>1. \A a \in Agents : \A i \in DOMAIN calls[a] : calls[a][i] \in CallRecords
        BY <2>1 DEF TypeOK
      <3> QED BY <2>1, <3>1 DEF TodoInv, CallRecords
    <2>7. \A items \in InFlight \cup {screen} : items \in Seq(Items) /\ Numbered(items)
      BY <2>1, <2>2, <2>6 DEF InFlight, TodoInv
    <2> QED BY <2>4, <2>5, <2>7 DEF TodoIdsAreStable
  <1> QED BY <1>1, Invariance, PTL

\* No running subagent without the call that waits for it, nor a call that waits for a
\* subagent that is gone, and none left when the turn ends: spawn_agent calls nested and
\* side by side in any number.
THEOREM SubagentsEnd == Spec => []SubagentsAreAwaited
  <1>1. ASSUME IndInv PROVE SubagentsAreAwaited
    <2>1. TypeOK /\ LoopInv /\ WaitInv /\ TreeInv
      BY <1>1 DEF IndInv
    <2>2. ASSUME NEW c \in Children
          PROVE  Cardinality(Waits(c)) = (IF phase[c] = "off" THEN 0 ELSE 1)
      <3>1. CASE phase[c] = "off"
        BY <2>1, <3>1, FS_EmptySet DEF WaitInv
      <3>2. CASE phase[c] # "off"
        <4>1. PICK p : Waits(c) = {p}
          BY <2>1, <3>2 DEF WaitInv
        <4> QED BY <3>2, <4>1, FS_Singleton
      <3> QED BY <3>1, <3>2
    <2>3. ASSUME mode = "idle" PROVE \A a \in Agents : phase[a] = "off" /\ calls[a] = <<>>
      <3>1. phase[Root] = "off"
        BY <2>1, <2>3 DEF LoopInv
      <3> DEFINE S == {c \in Children : phase[c] # "off"}
      <3>2. S = {}
        <4> SUFFICES ASSUME S # {} PROVE FALSE
          OBVIOUS
        <4>1. S \in SUBSET Children /\ \A c \in S : phase[c] # "off"
          OBVIOUS
        <4>2. PICK c \in S : \E p \in Waits(c) : p[1] \notin S
          BY <2>1, <4>1 DEF TreeInv
        <4>3. PICK p \in Waits(c) : p[1] \notin S
          BY <4>2
        <4>4. p[1] \in Agents /\ p[2] \in DOMAIN calls[p[1]]
          BY <4>3 DEF Waits
        <4>5. phase[p[1]] = "tools"
          BY <2>1, <4>4, CallsRun
        <4> QED BY <3>1, <4>3, <4>4, <4>5
      <3>3. \A a \in Agents : phase[a] = "off"
        BY <3>1, <3>2
      <3> QED BY <2>1, <3>3 DEF LoopInv
    <2> QED BY <2>2, <2>3 DEF SubagentsAreAwaited
  <1> QED BY <1>1, Invariance, PTL

\* The log changes only by the whole of an answered turn, without a trace of the reminder.
THEOREM TurnsAreAtomic == Spec => TurnIsAtomic
  <1> DEFINE A == log' = log \/ /\ Len(log') > Len(log)
                                /\ SubSeq(log', 1, Len(log)) = log
                                /\ log'[Len(log')] = Model(0)
                                /\ Carriers(log') = {}
  <1>1. ASSUME IndInv, [Next]_vars PROVE A
    <2>1. TypeOK /\ WaitInv /\ TurnInv
      BY <1>1 DEF IndInv
    <2>2. Step
      BY <1>1, <2>1, Steps
    <2>3. CASE ~ (RootAnswers /\ mode = "chat")
      <3>1. log' = log
        BY <2>2, <2>3 DEF Step, StartTurn, StartMemoryAgent, RootAnswers, RootFails, Returns,
             GenerateTools, CollectTools, Effect, Spawns, CallSpawnAgent, vars
      <3> QED BY <3>1
    <2>4. CASE RootAnswers /\ mode = "chat"
      <3> DEFINE l == Len(msgs[Root])
      <3>1. /\ log' \in Seq(Messages) /\ Len(log') = l + 1 /\ log'[l + 1] = Model(0)
            /\ \A i \in 1 .. l : log'[i] = IF i = tail THEN [msgs[Root][i] EXCEPT !.reminder = FALSE]
                                                        ELSE msgs[Root][i]
        BY <2>1, <2>4, StoredMessages
      <3>2. /\ log \in Seq(Messages) /\ Len(log) <= l /\ l \in Nat
            /\ \A i \in 1 .. Len(log) : log[i] = IF i = tail THEN [msgs[Root][i] EXCEPT !.reminder = FALSE]
                                                             ELSE msgs[Root][i]
        BY <2>1, <2>4 DEF TurnInv, TypeOK
      <3> HIDE DEF l
      <3>3. \A i \in 1 .. Len(log) : i \in 1 .. l /\ i \in 1 .. Len(log')
        BY <3>1, <3>2
      <3>4. \A i \in 1 .. Len(log) : log'[i] = log[i]
        BY <3>1, <3>2, <3>3
      <3>5. Len(log') > Len(log) /\ log'[Len(log')] = Model(0)
        BY <3>1, <3>2
      <3>6. SubSeq(log', 1, Len(log)) = log
        BY <3>1, <3>2, <3>4, <3>5
      <3>7. Carriers(log') = {}
        <4>1. TurnInv'
          BY <1>1, NextInd DEF IndInv
        <4>2. \A i \in 1 .. Len(log') : log'[i].reminder = FALSE
          BY <4>1 DEF TurnInv
        <4>3. DOMAIN log' = 1 .. Len(log')
          BY <3>1
        <4> QED BY <4>2, <4>3 DEF Carriers
      <3> QED BY <3>5, <3>6, <3>7
    <2> QED BY <2>3, <2>4
  <1>2. IndInv /\ [Next]_vars => [A]_vars
    BY <1>1
  <1>3. Spec => [][A]_vars
    BY <1>2, Invariance, PTL DEF Spec
  <1> QED BY <1>3 DEF TurnIsAtomic

\* Once write_memory has signalled, whichever calls run beside it, the loop does not ask the
\* model again.
THEOREM FinalizersStop == Spec => FinalizerStops
  <1> DEFINE A == \A a \in Agents : (\E i \in DOMAIN calls[a] : calls[a][i].signal) => phase'[a] # "generate"
  <1>1. ASSUME IndInv, [Next]_vars PROVE A
    <2> SUFFICES ASSUME NEW a \in Agents, NEW i \in DOMAIN calls[a], calls[a][i].signal
                 PROVE  phase'[a] # "generate"
      OBVIOUS
    <2>1. TypeOK /\ LoopInv /\ WaitInv
      BY <1>1 DEF IndInv
    <2>2. Step
      BY <1>1, <2>1, Steps
    <2>3. a = Root /\ mode = "memory" /\ phase[Root] = "tools" /\ Signalled(Root)
      BY <2>1, CallsRun DEF LoopInv, Signalled
    <2>4. phase'[Root] = "tools" \/ phase'[Root] = "off"
      <3>1. CASE \/ \E input \in {"text", "empty"} : StartTurn(input)
                 \/ StartMemoryAgent \/ RootAnswers \/ RootFails
        BY <2>3, <3>1 DEF StartTurn, StartMemoryAgent, RootAnswers, RootFails
      <3>2. ASSUME NEW c \in Children, Returns(c) PROVE phase'[Root] = phase[Root]
        BY <2>1, <3>2, StopFields DEF Returns
      <3>3. ASSUME NEW b \in Agents, NEW n \in 1 .. MaxCalls, NEW names \in [1 .. n -> ToolNames], GenerateTools(b, names)
            PROVE  phase'[Root] = phase[Root]
        <4>1. b # Root
          BY <2>3, <3>3 DEF GenerateTools
        <4> QED BY <2>1, <3>3, <4>1, AskedCalls
      <3>4. ASSUME NEW b \in Agents, CollectTools(b) PROVE phase'[Root] = "tools" \/ phase'[Root] = "off"
        <4>1. CASE b = Root
          BY <2>1, <2>3, <3>4, <4>1, Collected, StopFields
        <4>2. CASE b # Root
          BY <2>1, <2>3, <3>4, <4>2, Collected
        <4> QED BY <4>1, <4>2
      <3>5. ASSUME NEW b \in Agents, NEW k \in 1 .. MaxCalls, Effect(b, k) PROVE phase'[Root] = phase[Root]
        BY <3>5 DEF Effect
      <3>6. ASSUME NEW b \in Agents, NEW k \in 1 .. MaxCalls, NEW c \in Children, Spawns(b, k, c)
            PROVE  phase'[Root] = phase[Root]
        BY <2>1, <3>6 DEF Spawns, CallSpawnAgent, Run, TypeOK
      <3>7. CASE UNCHANGED vars
        BY <2>3, <3>7 DEF vars
      <3> QED BY <2>2, <2>3, <3>1, <3>2, <3>3, <3>4, <3>5, <3>6, <3>7 DEF Step
    <2> QED BY <2>3, <2>4
  <1>2. IndInv /\ [Next]_vars => [A]_vars
    BY <1>1
  <1>3. Spec => [][A]_vars
    BY <1>2, Invariance, PTL DEF Spec
  <1> QED BY <1>3 DEF FinalizerStops
=============================================================================
