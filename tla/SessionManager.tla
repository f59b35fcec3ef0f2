--------------------------- MODULE SessionManager ---------------------------
(***************************************************************************)
(* The chat sessions of the daemon (pkg/daemon/sessions.go), driven by the *)
(* requests that chat connections and the Telegram bridge turn into        *)
(* goroutines (pkg/daemon/chat_handler.go).                                *)
(*                                                                         *)
(* An operation (a member of Ops) is one such request: a goroutine that    *)
(* runs RunTurnStream, Close, Reset, Interrupt or a reader of the history, *)
(* from its call to its return.  Its steps are the code between two points *)
(* at which another goroutine can be observed: the critical sections of    *)
(* sm.mu and of sess.cancelMu never block inside and are one step each;    *)
(* sess.mu is held across model calls and is modelled as a lock.           *)
(***************************************************************************)
EXTENDS Naturals, Sequences, FiniteSets

CONSTANTS
  Ops,       \* the requests of a behaviour; each runs in its own goroutine
  Sessions,  \* the session ids that uuid.New() may return
  None       \* nil

ASSUME NoneAssumption == None \notin Ops \cup Sessions \cup {"ok", "error", "not_found"}
ASSUME SessionsAssumption == Sessions \cap {"ok", "error", "not_found"} = {}

VARIABLES
  sessions,   \* SessionManager.sessions: the ids in the manager's map
  created,    \* every id handed out so far: goroutines keep pointers to removed sessions
  messages,   \* ManagedSession.messages: the completed turns, oldest first
  mu,         \* ManagedSession.mu: the goroutine that holds it
  cancel,     \* ManagedSession.cancel: the turn whose context it cancels
  cancelled,  \* turns whose context has been cancelled
  shutdown,   \* the daemon's own context has been cancelled
  memory,     \* MEMORY.md: the turns whose content it accounts for
  reviewed,   \* history: the messages the last Finalize of each session was given
  pc,         \* where each operation is
  op,         \* what each operation does, and to which session
  view,       \* the messages slice an operation passed to RunTurnStream or Finalize
  loaded,     \* the MEMORY.md content that Finalize loaded
  outcome     \* what the caller was told

vars == <<sessions, created, messages, mu, cancel, cancelled, shutdown, memory,
          reviewed, pc, op, view, loaded, outcome>>

sessionVars == <<sessions, created, messages>>
lockVars    == <<mu, cancel, cancelled>>
memoryVars  == <<memory, reviewed>>

Kinds == {"turn", "close", "reset", "interrupt", "read"}

\* The program points of an operation. An operation is at most once in each of them,
\* except that a turn repeats "generate", "await", "tools".
TurnWork  == {"generate", "await", "tools"}
CloseWork == {"load", "memory", "close_unlock"}
Labels    == {"idle", "get", "turn_lock", "register"} \cup TurnWork \cup
             {"deregister", "turn_unlock"} \cup
             {"lookup", "close_cancel", "close_lock"} \cup CloseWork \cup
             {"remove", "reset_create", "interrupt_cancel", "read_lock", "done"}

Goto(g, l) == pc' = [pc EXCEPT ![g] = l]
At(g, l)   == pc[g] = l

Return(g, o) == /\ Goto(g, "done")
                /\ outcome' = [outcome EXCEPT ![g] = o]

Kind(g)   == op[g].kind
Target(g) == op[g].session

-----------------------------------------------------------------------------
Init ==
  /\ sessions  = {}
  /\ created   = {}
  /\ messages  = [s \in Sessions |-> <<>>]
  /\ mu        = [s \in Sessions |-> None]
  /\ cancel    = [s \in Sessions |-> None]
  /\ cancelled = {}
  /\ shutdown  = FALSE
  /\ memory    = {}
  /\ reviewed  = [s \in Sessions |-> <<>>]
  /\ pc        = [g \in Ops |-> "idle"]
  /\ op        = [g \in Ops |-> None]
  /\ view      = [g \in Ops |-> <<>>]
  /\ loaded    = [g \in Ops |-> {}]
  /\ outcome   = [g \in Ops |-> None]

\* A session object is allocated under a fresh id and inserted into the map.
Insert(s) ==
  /\ s \notin created
  /\ created'  = created \cup {s}
  /\ sessions' = sessions \cup {s}

\* The bound on sessions: fresh ids are kept for the resets under way, for which the code
\* never runs out of them.
PendingResets == {g \in Ops : pc[g] \notin {"idle", "done"} /\ Kind(g) = "reset"}
IdToSpare     == Cardinality(PendingResets) < Cardinality(Sessions \ created)

\* Create, CreateCode, CreateWithModel and CreateCodeWithModel. The ones that can fail
\* do so before they take sm.mu and leave no trace.
Create(s) ==
  /\ IdToSpare
  /\ Insert(s)
  /\ UNCHANGED <<messages, lockVars, shutdown, memoryVars, pc, op, view, loaded, outcome>>

\* A request for a session id the client was once given arrives and gets a goroutine.
\* (session.close and session.interrupt run on the connection's own goroutine.)
Dispatch(g, k, s) ==
  /\ At(g, "idle")
  /\ k = "reset" => IdToSpare
  /\ op' = [op EXCEPT ![g] = [kind |-> k, session |-> s]]
  /\ Goto(g, IF k = "close" THEN "lookup" ELSE "get")
  /\ UNCHANGED <<sessionVars, lockVars, shutdown, memoryVars, view, loaded, outcome>>

\* SessionManager.Get at the head of runTurnInternal, Reset, Interrupt and the readers.
AfterGet == [turn |-> "turn_lock", reset |-> "lookup",
             interrupt |-> "interrupt_cancel", read |-> "read_lock"]

Get(g) ==
  /\ At(g, "get")
  /\ \/ /\ Target(g) \in sessions
        /\ Goto(g, AfterGet[Kind(g)])
        /\ UNCHANGED outcome
     \/ /\ Target(g) \notin sessions
        /\ Return(g, "not_found")
  /\ UNCHANGED <<sessionVars, lockVars, shutdown, memoryVars, op, view, loaded>>

-----------------------------------------------------------------------------
(* runTurnInternal                                                         *)

\* Mutants: the model is called with the daemon's context, or with a detached one.
ContextDoneParent(g)   == g \in Ops /\ shutdown
ContextDoneDetached(g) == g \in cancelled

\* A context made from the daemon's context is done once either is cancelled.
ContextDone(g) == g \in cancelled \/ shutdown

\* Mutant: the turn does not wait for sess.mu.
TurnLockUnguarded(g) ==
  /\ At(g, "turn_lock")
  /\ mu' = [mu EXCEPT ![Target(g)] = g]
  /\ Goto(g, "register")
  /\ UNCHANGED <<sessionVars, cancel, cancelled, shutdown, memoryVars, op, view, loaded, outcome>>

\* sess.mu.Lock()
TurnLock(g) ==
  /\ At(g, "turn_lock")
  /\ mu[Target(g)] = None
  /\ mu' = [mu EXCEPT ![Target(g)] = g]
  /\ Goto(g, "register")
  /\ UNCHANGED <<sessionVars, cancel, cancelled, shutdown, memoryVars, op, view, loaded, outcome>>

\* Mutant: sess.mu only guards the registration, not the turn.
TurnRegisterUnlocks(g) ==
  /\ At(g, "register")
  /\ mu'     = [mu EXCEPT ![Target(g)] = None]
  /\ cancel' = [cancel EXCEPT ![Target(g)] = g]
  /\ view'   = [view EXCEPT ![g] = messages[Target(g)]]
  /\ Goto(g, "generate")
  /\ UNCHANGED <<sessionVars, cancelled, shutdown, memoryVars, op, loaded, outcome>>

\* Mutant: one cancel function for the whole manager.
TurnRegisterShared(g) ==
  /\ At(g, "register")
  /\ cancel' = [s \in Sessions |-> g]
  /\ view'   = [view EXCEPT ![g] = messages[Target(g)]]
  /\ Goto(g, "generate")
  /\ UNCHANGED <<sessionVars, mu, cancelled, shutdown, memoryVars, op, loaded, outcome>>

\* sess.cancel = cancel, then session.RunTurnStream(ctx, &cfg, sess.messages, input, ..).
TurnRegister(g) ==
  /\ At(g, "register")
  /\ cancel' = [cancel EXCEPT ![Target(g)] = g]
  /\ view'   = [view EXCEPT ![g] = messages[Target(g)]]
  /\ Goto(g, "generate")
  /\ UNCHANGED <<sessionVars, mu, cancelled, shutdown, memoryVars, op, loaded, outcome>>

\* The next model call of the agent loop (module AgentLoop models that loop). The client
\* library refuses a done context; a call in flight may still be answered after a cancel.
TurnCall(g) ==
  /\ At(g, "generate")
  /\ ~ContextDone(g)
  /\ Goto(g, "await")
  /\ UNCHANGED <<sessionVars, lockVars, shutdown, memoryVars, op, view, loaded, outcome>>

\* The model asks for tools, which run and are answered. The code sets no limit on the
\* number of such rounds.
TurnTools(g) ==
  /\ At(g, "await")
  /\ Goto(g, "tools")
  /\ UNCHANGED <<sessionVars, lockVars, shutdown, memoryVars, op, view, loaded, outcome>>

TurnToolsDone(g) ==
  /\ At(g, "tools")
  /\ Goto(g, "generate")
  /\ UNCHANGED <<sessionVars, lockVars, shutdown, memoryVars, op, view, loaded, outcome>>

\* RunTurnStream returns an answer: sess.messages = updated.
TurnAnswer(g) ==
  /\ At(g, "await")
  /\ messages' = [messages EXCEPT ![Target(g)] = Append(view[g], g)]
  /\ outcome'  = [outcome EXCEPT ![g] = "ok"]
  /\ Goto(g, "deregister")
  /\ UNCHANGED <<sessions, created, lockVars, shutdown, memoryVars, op, view, loaded>>

\* Mutant: the error path returns without the deferred unlock.
TurnErrorKeepsLock(g) ==
  /\ pc[g] \in {"generate", "await"}
  /\ Return(g, "error")
  /\ UNCHANGED <<sessionVars, lockVars, shutdown, memoryVars, op, view, loaded>>

\* RunTurnStream returns an error (a provider failure, or a done context): the turn
\* returns without touching sess.messages.
TurnError(g) ==
  /\ pc[g] \in {"generate", "await"}
  /\ outcome' = [outcome EXCEPT ![g] = "error"]
  /\ Goto(g, "deregister")
  /\ UNCHANGED <<sessionVars, lockVars, shutdown, memoryVars, op, view, loaded>>

\* Mutant: the turn leaves its cancel function behind.
TurnDeregisterForgets(g) ==
  /\ At(g, "deregister")
  /\ Goto(g, "turn_unlock")
  /\ UNCHANGED <<sessionVars, lockVars, shutdown, memoryVars, op, view, loaded, outcome>>

\* The deferred calls, last first: sess.cancel = nil; cancel() ...
TurnDeregister(g) ==
  /\ At(g, "deregister")
  /\ cancel' = [cancel EXCEPT ![Target(g)] = None]
  /\ Goto(g, "turn_unlock")
  /\ UNCHANGED <<sessionVars, mu, cancelled, shutdown, memoryVars, op, view, loaded, outcome>>

\* ... and sess.mu.Unlock().
TurnUnlock(g) ==
  /\ At(g, "turn_unlock")
  /\ mu'   = [mu EXCEPT ![Target(g)] = None]
  /\ view' = [view EXCEPT ![g] = <<>>]
  /\ Goto(g, "done")
  /\ UNCHANGED <<sessionVars, cancel, cancelled, shutdown, memoryVars, op, loaded, outcome>>

-----------------------------------------------------------------------------
(* Close, and Reset, which is Get, Close, Create                            *)

\* The lookup under sm.mu.RLock: an unknown id is an early return (of Close; Reset goes
\* on to Create, also when a concurrent Close has removed the session since its Get).
CloseLookup(g) ==
  /\ At(g, "lookup")
  /\ \/ /\ Target(g) \in sessions
        /\ Goto(g, "close_cancel")
        /\ UNCHANGED outcome
     \/ /\ Target(g) \notin sessions
        /\ \/ Kind(g) = "close" /\ Return(g, "ok")
           \/ Kind(g) = "reset" /\ Goto(g, "reset_create") /\ UNCHANGED outcome
  /\ UNCHANGED <<sessionVars, lockVars, shutdown, memoryVars, op, view, loaded>>

\* Mutant: no nil check.
CancelInflightUnchecked(s) == cancelled' = cancelled \cup {cancel[s]}

\* ManagedSession.cancelInflight
CancelInflight(s) ==
  cancelled' = IF cancel[s] = None THEN cancelled ELSE cancelled \cup {cancel[s]}

CloseCancel(g) ==
  /\ At(g, "close_cancel")
  /\ CancelInflight(Target(g))
  /\ Goto(g, "close_lock")
  /\ UNCHANGED <<sessionVars, mu, cancel, shutdown, memoryVars, op, view, loaded, outcome>>

\* Mutant: Finalize runs without waiting for sess.mu.
CloseLockUnguarded(g) ==
  /\ At(g, "close_lock")
  /\ view' = [view EXCEPT ![g] = messages[Target(g)]]
  /\ reviewed' = [reviewed EXCEPT ![Target(g)] = messages[Target(g)]]
  /\ Goto(g, "load")
  /\ UNCHANGED <<sessionVars, lockVars, shutdown, memory, op, loaded, outcome>>

\* sess.mu.Lock(), and the call agent.Finalize(ctx, sm.agentCfg, sess.messages).
CloseLock(g) ==
  /\ At(g, "close_lock")
  /\ mu[Target(g)] = None
  /\ mu'   = [mu EXCEPT ![Target(g)] = g]
  /\ view' = [view EXCEPT ![g] = messages[Target(g)]]
  /\ reviewed' = [reviewed EXCEPT ![Target(g)] = messages[Target(g)]]
  /\ Goto(g, "load")
  /\ UNCHANGED <<sessionVars, cancel, cancelled, shutdown, memory, op, loaded, outcome>>

\* Finalize: nothing to do for an empty history; otherwise LoadMemory, which may fail,
\* and the memory agent's model call, which a done context refuses.
FinalizeLoad(g) ==
  /\ At(g, "load")
  /\ \/ /\ view[g] # <<>>
        /\ ~shutdown
        /\ loaded' = [loaded EXCEPT ![g] = memory]
        /\ Goto(g, "memory")
     \/ Goto(g, "close_unlock") /\ UNCHANGED loaded
  /\ UNCHANGED <<sessionVars, lockVars, shutdown, memoryVars, op, view, outcome>>

\* RunMemoryAgent: the model merges the transcript into the memory it was shown and
\* write_memory replaces the file. This is the outcome the memory agent's prompt asks for.
FinalizeWrite(g) ==
  /\ At(g, "memory")
  /\ memory' = loaded[g] \cup {view[g][i] : i \in 1 .. Len(view[g])}
  /\ Goto(g, "close_unlock")
  /\ UNCHANGED <<sessionVars, lockVars, shutdown, reviewed, op, view, loaded, outcome>>

\* RunMemoryAgent gives up: provider error, the 30 s timeout, no write_memory call, a
\* cancellation. Close ignores the error.
FinalizeFail(g) ==
  /\ At(g, "memory")
  /\ Goto(g, "close_unlock")
  /\ UNCHANGED <<sessionVars, lockVars, shutdown, memoryVars, op, view, loaded, outcome>>

CloseUnlock(g) ==
  /\ At(g, "close_unlock")
  /\ mu'     = [mu EXCEPT ![Target(g)] = None]
  /\ view'   = [view EXCEPT ![g] = <<>>]
  /\ loaded' = [loaded EXCEPT ![g] = {}]
  /\ Goto(g, "remove")
  /\ UNCHANGED <<sessionVars, cancel, cancelled, shutdown, memoryVars, op, outcome>>

\* delete(sm.sessions, id)
CloseRemove(g) ==
  /\ At(g, "remove")
  /\ sessions' = sessions \ {Target(g)}
  /\ \/ Kind(g) = "close" /\ Return(g, "ok")
     \/ Kind(g) = "reset" /\ Goto(g, "reset_create") /\ UNCHANGED outcome
  /\ UNCHANGED <<created, messages, lockVars, shutdown, memoryVars, op, view, loaded>>

\* Mutant: the new session never reaches the map.
ResetCreateUnlisted(g, s) ==
  /\ At(g, "reset_create")
  /\ s \notin created
  /\ created' = created \cup {s}
  /\ Return(g, s)
  /\ UNCHANGED <<sessions, messages, lockVars, shutdown, memoryVars, op, view, loaded>>

\* sm.Create(): the id of the new session is what Reset returns.
ResetCreate(g, s) ==
  /\ At(g, "reset_create")
  /\ Insert(s)
  /\ Return(g, s)
  /\ UNCHANGED <<messages, lockVars, shutdown, memoryVars, op, view, loaded>>

-----------------------------------------------------------------------------
(* Interrupt, Messages and Todos, and the end of the daemon                 *)

InterruptCancel(g) ==
  /\ At(g, "interrupt_cancel")
  /\ CancelInflight(Target(g))
  /\ Return(g, "ok")
  /\ UNCHANGED <<sessionVars, mu, cancel, shutdown, memoryVars, op, view, loaded>>

\* Messages and Todos copy under sess.mu: one step, but only while nobody holds it.
Read(g) ==
  /\ At(g, "read_lock")
  /\ mu[Target(g)] = None
  /\ Return(g, "ok")
  /\ UNCHANGED <<sessionVars, lockVars, shutdown, memoryVars, op, view, loaded>>

\* Run cancels the daemon's context; every request context derives from it.
Shutdown ==
  /\ ~shutdown
  /\ shutdown' = TRUE
  /\ UNCHANGED <<sessionVars, lockVars, memoryVars, pc, op, view, loaded, outcome>>

-----------------------------------------------------------------------------
TurnStep(g) ==
  \/ TurnLock(g) \/ TurnRegister(g) \/ TurnCall(g) \/ TurnTools(g) \/ TurnToolsDone(g)
  \/ TurnAnswer(g) \/ TurnError(g) \/ TurnDeregister(g) \/ TurnUnlock(g)

CloseStep(g) ==
  \/ CloseLookup(g) \/ CloseCancel(g) \/ CloseLock(g)
  \/ FinalizeLoad(g) \/ FinalizeWrite(g) \/ FinalizeFail(g)
  \/ CloseUnlock(g) \/ CloseRemove(g)
  \/ \E s \in Sessions : ResetCreate(g, s)

Step(g) == Get(g) \/ TurnStep(g) \/ CloseStep(g) \/ InterruptCancel(g) \/ Read(g)

\* The requests of the behaviour are all served. (The daemon waits for more.)
Served == /\ \A g \in Ops : pc[g] = "done"
          /\ UNCHANGED vars

Next ==
  \/ \E s \in Sessions : Create(s)
  \/ \E g \in Ops, k \in Kinds, s \in created : Dispatch(g, k, s)
  \/ \E g \in Ops : Step(g)
  \/ Shutdown
  \/ Served

Spec == Init /\ [][Next]_vars

(***************************************************************************)
(* Fairness.  The Go scheduler runs every runnable goroutine, so a step    *)
(* that stays enabled is taken (weak fairness).  sync.Mutex is starvation  *)
(* free, so a goroutine that waits for a lock others keep releasing gets   *)
(* it (strong fairness of the lock steps).  Two steps are not the          *)
(* daemon's to take: a tool round ends when its tools return (a command    *)
(* whose child keeps the pipe never does, cancelled or not: exec.Cmd has   *)
(* no WaitDelay), and a model answers when it answers, unless the          *)
(* context of the call is done, which ends the call.  No fairness is       *)
(* assumed of either.  Dispatch, Create and Shutdown happen or not.  That  *)
(* a client reads the events a turn sends it is assumed: the daemon writes *)
(* to a connection without a deadline.                                     *)
(***************************************************************************)
OwnStep(g)  == Step(g) /\ ~At(g, "tools") /\ (At(g, "await") => ContextDone(g))
LockStep(g) == TurnLock(g) \/ CloseLock(g) \/ Read(g)

Fairness == \A g \in Ops : WF_vars(OwnStep(g)) /\ SF_vars(LockStep(g))

FairSpec == Spec /\ Fairness

-----------------------------------------------------------------------------
(* Properties                                                              *)

Outcomes == {None, "ok", "error", "not_found"} \cup Sessions

\* Every variable ranges over what its Go counterpart can hold; in particular the nil cancel
\* function is never called.
TypeOK ==
  /\ sessions \subseteq created
  /\ created \subseteq Sessions
  /\ messages \in [Sessions -> Seq(Ops)]
  /\ mu \in [Sessions -> Ops \cup {None}]
  /\ cancel \in [Sessions -> Ops \cup {None}]
  /\ cancelled \subseteq Ops
  /\ shutdown \in BOOLEAN
  /\ memory \subseteq Ops
  /\ reviewed \in [Sessions -> Seq(Ops)]
  /\ pc \in [Ops -> Labels]
  /\ op \in [Ops -> [kind : Kinds, session : Sessions] \cup {None}]
  /\ view \in [Ops -> Seq(Ops)]
  /\ loaded \in [Ops -> SUBSET Ops]
  /\ outcome \in [Ops -> Outcomes]

\* A goroutine that works on a session's history under sess.mu sees that history for as
\* long as it works: what RunTurnStream extends, and what Finalize reviews, is what the
\* session holds (the comments of Close: "on a stable view of the message history", "so
\* the message slice can't change mid-call").
Working(g)  == pc[g] \in TurnWork \cup CloseWork
StableView  == \A g \in Ops : Working(g) => view[g] = messages[Target(g)]

\* No completed turn is lost: a turn whose caller was answered is in its session's
\* history, once, whatever other turns, closes and interrupts ran beside it.
Occurrences(g, h) == {i \in 1 .. Len(h) : h[i] = g}
TurnsDurable ==
  \A g \in Ops :
    (op[g] # None /\ Kind(g) = "turn" /\ outcome[g] = "ok")
      => \E i \in 1 .. Len(messages[Target(g)]) : Occurrences(g, messages[Target(g)]) = {i}

\* History is append-only, one whole turn at a time, also on sessions already removed
\* from the map (the comment on ManagedSession.messages).
AppendOnly ==
  [][\A s \in Sessions : \/ messages'[s] = messages[s]
                         \/ \E g \in Ops : messages'[s] = Append(messages[s], g)]_vars

\* Seen from its clients the manager is the SessionLog: every id is opened once and removed
\* at most once, and whatever turns, closes, resets and interrupts interleave, a history
\* changes only by one atomic commit of a turn that was not committed before, to a session
\* that was once opened.
Log == INSTANCE SessionLog WITH Turns <- Ops, live <- sessions, used <- created,
                                log <- messages
ImplementsLog == Log!LogSpec

\* The registered cancel function is that of the turn that holds the session, so Interrupt
\* and Close never cancel a turn that has finished or one of another session.
CancelHitsHolder ==
  \A s \in Sessions : cancel[s] # None => /\ mu[s] = cancel[s]
                                          /\ Kind(cancel[s]) = "turn"

\* A turn's context is cancelled only if somebody asked to interrupt or close that very
\* session.
CancelIsAsked ==
  \A g \in cancelled : \E h \in Ops :
    /\ pc[h] # "idle"
    /\ Kind(h) \in {"interrupt", "close", "reset"}
    /\ Target(h) = Target(g)

\* Reset hands out a session of its own: no two resets return the same one, and it is in
\* the map until somebody asks to close it.
ResetIsFresh ==
  \A g \in Ops : outcome[g] \in Sessions =>
    /\ \A h \in Ops \ {g} : outcome[h] # outcome[g]
    /\ \/ outcome[g] \in sessions
       \/ \E h \in Ops : /\ pc[h] # "idle"
                         /\ Kind(h) \in {"close", "reset"}
                         /\ Target(h) = outcome[g]

\* What README.md says of memory ("After each session, a dedicated memory agent reviews
\* the conversation and updates MEMORY.md"): the messages of a session that has left the
\* map are the ones its Finalize was given. Does not hold: a turn that looked the session
\* up before Close removed it runs after Finalize.
ClosedIsReviewed == \A s \in created \ sessions : messages[s] = reviewed[s]

\* What MEMORY_AGENT.md asks of an update ("Merge new useful information with existing
\* memory"): no update of MEMORY.md drops what an earlier one recorded. Does not hold: two
\* sessions that close at the same time both load the old memory.
MemoryMerges == [][memory \subseteq memory']_vars

\* The one excuse the properties below admit: from some time on a turn of the session waits
\* for a tool that never returns, and keeps sess.mu.
ToolOn(g, s) == At(g, "tools") /\ Target(g) = s
ToolHangs(s) == \E g \in Ops : <>[]ToolOn(g, s)

\* A turn whose context was cancelled ends, also with a model that asks for tools for ever
\* or never answers: the only thing that can keep it is a tool of its own.
CancelledTurnsEnd ==
  \A g \in Ops : <>[]At(g, "tools") \/ []<>(g \in cancelled => At(g, "done"))

\* Once the daemon's context is cancelled every request under way comes to its end, whatever
\* the models do: no goroutine is left waiting for sess.mu, unless a tool hangs.
Quiet(s) == \A g \in Ops : pc[g] \in {"idle", "done"} \/ Target(g) # s
ShutdownDrains == \A s \in Sessions : ToolHangs(s) \/ []<>(shutdown => Quiet(s))

\* If models sooner or later answer a turn that keeps asking them, every request returns,
\* unless a tool hangs. A close or reset that came too early to cancel the turn it waits for
\* is among them.
ModelAnswers   == \A g \in Ops : SF_vars(TurnAnswer(g))
RequestsReturn == ModelAnswers => \A s \in Sessions : ToolHangs(s) \/ []<>Quiet(s)

=============================================================================
