------------------------------ MODULE Telegram ------------------------------
(***************************************************************************)
(* The Telegram bridge (pkg/chat/telegram/telegram.go) with its store of   *)
(* authorized users (pkg/telegram/auth/store.go) and the ways an owner     *)
(* approves a user.                                                        *)
(*                                                                         *)
(* Every update is handled by a goroutine of its own (a member of Msgs).   *)
(* The critical sections of b.mu and of the store's mutex are one step     *)
(* each.  The session manager appears by what the bridge sees of it: the   *)
(* ids that are still in its map, and a mutex per session that a turn      *)
(* holds (module SessionManager has the details).  Telegram itself is      *)
(* external: any Send may fail.                                            *)
(***************************************************************************)
EXTENDS Naturals, FiniteSets

CONSTANTS
  Users,       \* Telegram users
  Chats,       \* Telegram chats; a group chat has several users
  Codes,       \* the one-time codes generateOTP may return, unique or not
  Msgs,        \* the updates of a behaviour, each with its goroutine
  MaxChunks,   \* bound on the text chunks of a turn
  MaxCrashes,  \* bound on the crashes of the daemon
  None

ASSUME TelegramAssumption == /\ None \notin Users \cup Chats \cup Codes \cup Nat
                             /\ MaxChunks \in Nat /\ MaxCrashes \in Nat

VARIABLES
  up,       \* the daemon runs
  crashes,  \* how often it has crashed
  mem,      \* Store.data
  disk,     \* telegram.json
  held,     \* history: the codes each user was sent
  written,  \* history: the codes telegram.json was ever given for each user
  lost,     \* history: the codes that had reached no file when the daemon died
  acked,    \* history: users whose approval was acknowledged to an owner
  approved, \* history: users an owner's code has admitted
  chatSessions, \* Bridge.chatSessions
  live,     \* the session manager's map
  next,     \* the number of session ids handed out
  opened,   \* history: sessions getOrCreateSession made for each chat
  busy,     \* who holds a session's mutex
  pc, msg,  \* where each handler is, and whose message it handles
  class,    \* what the message turned out to be
  sid,      \* the handler's sessionID; for /clean later the new one
  chunks,   \* chunks received so far
  made,     \* turnHandler.msgID # 0
  typing,   \* the goroutine of startTyping runs
  outcome,  \* what the user has to be told
  visible,  \* what the messages sent for this update show
  dropped   \* history: a Send of the final text failed

storeVars   == <<mem, disk, held, written, lost, acked, approved>>
sessionVars == <<chatSessions, live, next, opened, busy>>
turnVars    == <<chunks, made, typing>>
showVars    == <<outcome, visible, dropped>>
vars == <<up, crashes, storeVars, sessionVars, pc, msg, class, sid, turnVars, showVars>>

Goto(h, l) == pc' = [pc EXCEPT ![h] = l]
At(h, l)   == up /\ pc[h] = l
User(h)    == msg[h].user
Chat(h)    == msg[h].chat

\* handleMessage returns, and what it had of its own is gone.
End(h) ==
  /\ Goto(h, "done")
  /\ msg'    = [msg EXCEPT ![h] = None]
  /\ class'  = [class EXCEPT ![h] = None]
  /\ sid'    = [sid EXCEPT ![h] = None]
  /\ chunks' = [chunks EXCEPT ![h] = 0]
  /\ made'   = [made EXCEPT ![h] = FALSE]

Empty == [allowed |-> {}, pending |-> [u \in Users |-> None]]

\* The daemon has started on a telegram.json that may already name approved users.
Init ==
  /\ up = TRUE /\ crashes = 0
  /\ \E A \in SUBSET Users :
       /\ disk = [Empty EXCEPT !.allowed = A]
       /\ acked = A /\ approved = A
  /\ mem = disk
  /\ held = [u \in Users |-> {}]
  /\ written = [u \in Users |-> {}] /\ lost = [u \in Users |-> {}]
  /\ chatSessions = [c \in Chats |-> None]
  /\ live = {} /\ next = 0
  /\ opened = [c \in Chats |-> 0]
  /\ busy = [s \in {} |-> None]
  /\ pc = [h \in Msgs |-> "idle"]
  /\ msg = [h \in Msgs |-> None]
  /\ class = [h \in Msgs |-> None]
  /\ sid = [h \in Msgs |-> None]
  /\ chunks = [h \in Msgs |-> 0]
  /\ made = [h \in Msgs |-> FALSE]
  /\ typing = [h \in Msgs |-> FALSE]
  /\ outcome = [h \in Msgs |-> None]
  /\ visible = [h \in Msgs |-> "nothing"]
  /\ dropped = [h \in Msgs |-> FALSE]

-----------------------------------------------------------------------------
(* The store of authorized users                                           *)

\* Store.persist: the data is changed in memory first; the file is replaced by a rename,
\* as a whole or, when a step fails, not at all.
Persist(data, ok) ==
  /\ mem'  = data
  /\ disk' = IF ok THEN data ELSE disk
  /\ written' = IF ok THEN [u \in Users |-> written[u] \cup ({data.pending[u]} \ {None})]
                      ELSE written

\* Mutant: every refusal makes a new code.
CodeForAlwaysNew(u, c) == c \in Codes /\ u \in Users

\* GetOrCreateOTP: the pending code, or a new one.
CodeFor(u, c) == IF mem.pending[u] # None THEN c = mem.pending[u] ELSE c \in Codes

\* The refusal of handleMessage's auth gate. A persist that fails is only logged, and the
\* code is sent nevertheless.
Refuse(h) ==
  /\ At(h, "refuse")
  /\ \E c \in Codes, ok \in BOOLEAN, sent \in BOOLEAN :
       /\ CodeFor(User(h), c)
       /\ IF mem.pending[User(h)] = c
          THEN UNCHANGED <<mem, disk, written>>
          ELSE Persist([mem EXCEPT !.pending[User(h)] = c], ok)
       /\ held' = IF sent THEN [held EXCEPT ![User(h)] = @ \cup {c}] ELSE held
       /\ lost' = IF sent THEN [lost EXCEPT ![User(h)] = @ \ {c}] ELSE lost
  /\ End(h)
  /\ UNCHANGED <<up, crashes, acked, approved, sessionVars, typing, showVars>>

\* Mutant: the owner is told of a success although the file was not written.
ApproveUnchecked(c) ==
  /\ \E u \in Users, ok \in BOOLEAN :
       /\ mem.pending[u] = c
       /\ Persist([allowed |-> mem.allowed \cup {u}, pending |-> [mem.pending EXCEPT ![u] = None]], ok)
       /\ approved' = approved \cup {u}
       /\ acked'    = acked \cup {u}

\* Store.ApproveByOTP, called with an owner's code. The map is ranged over in any order, so
\* of two users with one code either may be admitted. A failed persist leaves the user
\* admitted in memory. A code that nobody waits for changes nothing.
ApproveByOTP(c) ==
  /\ \E u \in Users, ok \in BOOLEAN :
       /\ mem.pending[u] = c
       /\ Persist([allowed |-> mem.allowed \cup {u}, pending |-> [mem.pending EXCEPT ![u] = None]], ok)
       /\ approved' = approved \cup {u}
       /\ acked'    = IF ok THEN acked \cup {u} ELSE acked

\* `wildgecu approve telegram`, through the daemon's approve-telegram command: an error, of
\* the persist too, is reported as a failure ("Invalid OTP").
ApproveCommand(c) ==
  /\ up
  /\ ApproveByOTP(c)
  /\ UNCHANGED <<up, crashes, held, lost, sessionVars, pc, msg, class, sid, turnVars, showVars>>

\* The agent's approve_telegram_user tool, called in a turn of any session, of this bridge
\* or of a chat client.
ApproveTool(c) ==
  /\ up
  /\ ApproveByOTP(c)
  /\ UNCHANGED <<up, crashes, held, lost, sessionVars, pc, msg, class, sid, turnVars, showVars>>

\* The daemon dies: its memory, the sessions and the handlers under way are gone, and with
\* them the codes that were sent although no persist had written them.
Crash ==
  /\ up /\ crashes < MaxCrashes
  /\ up' = FALSE
  /\ crashes' = crashes + 1
  /\ lost' = [u \in Users |-> lost[u] \cup (held[u] \ written[u])]
  /\ chatSessions' = [c \in Chats |-> None]
  /\ live' = {}
  /\ opened' = [c \in Chats |-> 0]
  /\ busy' = [s \in DOMAIN busy |-> None]
  /\ pc' = [h \in Msgs |-> IF pc[h] = "idle" THEN "idle" ELSE "done"]
  /\ msg' = [h \in Msgs |-> None]
  /\ class' = [h \in Msgs |-> None]
  /\ sid' = [h \in Msgs |-> None]
  /\ chunks' = [h \in Msgs |-> 0]
  /\ made' = [h \in Msgs |-> FALSE]
  /\ typing' = [h \in Msgs |-> FALSE]
  /\ outcome' = [h \in Msgs |-> None]
  /\ visible' = [h \in Msgs |-> "nothing"]
  /\ dropped' = [h \in Msgs |-> FALSE]
  /\ UNCHANGED <<mem, disk, held, written, acked, approved, next>>

\* auth.New: the store is what the file says.
Restart ==
  /\ ~up
  /\ up'  = TRUE
  /\ mem' = disk
  /\ UNCHANGED <<crashes, disk, held, written, lost, acked, approved, sessionVars, pc, msg, class, sid,
                 turnVars, showVars>>

-----------------------------------------------------------------------------
(* Run and the head of handleMessage                                       *)

\* Run: go b.handleMessage(ctx, update.Message)
Receive(h, u, c) ==
  /\ At(h, "idle")
  /\ msg' = [msg EXCEPT ![h] = [user |-> u, chat |-> c]]
  /\ Goto(h, "gate")
  /\ UNCHANGED <<up, crashes, storeVars, sessionVars, class, sid, turnVars, showVars>>

IsAllowed(u) == u \in mem.allowed

\* The auth gate. GetOrCreateOTP takes the store's mutex again: the user may have been
\* approved by then.
Gate(h) ==
  /\ At(h, "gate")
  /\ Goto(h, IF IsAllowed(User(h)) THEN "route" ELSE "refuse")
  /\ UNCHANGED <<up, crashes, storeVars, sessionVars, msg, class, sid, turnVars, showVars>>

\* What Parse and Resolve make of the text: /start and unknown commands are answered
\* directly; a plain text and a skill's command run a turn; /clean and the other built-in
\* commands are executed with the chat's session id.
Classes == {"direct", "turn", "clean", "builtin"}

Route(h) ==
  /\ At(h, "route")
  /\ \E k \in Classes :
       /\ class' = [class EXCEPT ![h] = k]
       /\ \/ /\ k = "direct"
             /\ outcome' = [outcome EXCEPT ![h] = "answer"]
             /\ Goto(h, "show")
          \/ /\ k # "direct"
             /\ Goto(h, "lookup")
             /\ UNCHANGED outcome
  /\ UNCHANGED <<up, crashes, storeVars, sessionVars, msg, sid, turnVars, visible, dropped>>

-----------------------------------------------------------------------------
(* getOrCreateSession                                                      *)

AfterSession == [turn |-> "turn_get", clean |-> "clean_get", builtin |-> "exec"]

\* The lookup under b.mu.RLock().
Lookup(h) ==
  /\ At(h, "lookup")
  /\ IF chatSessions[Chat(h)] = None
     THEN Goto(h, "create") /\ UNCHANGED sid
     ELSE /\ sid' = [sid EXCEPT ![h] = chatSessions[Chat(h)]]
          /\ Goto(h, AfterSession[class[h]])
  /\ UNCHANGED <<up, crashes, storeVars, sessionVars, msg, class, turnVars, showVars>>

\* Mutant: the counter of session ids is not advanced.
NewSessionKeepsCounter ==
  /\ next' = next
  /\ live' = live \cup {next + 1}
  /\ busy' = [s \in 1 .. next + 1 |-> IF s \in DOMAIN busy THEN busy[s] ELSE None]

\* SessionManager.CreateSession
NewSession ==
  /\ next' = next + 1
  /\ live' = live \cup {next + 1}
  /\ busy' = [s \in 1 .. next + 1 |-> IF s \in DOMAIN busy THEN busy[s] ELSE None]

\* Mutant: no second look after the write lock is taken.
CreateUnchecked(h) ==
  /\ At(h, "create")
  /\ NewSession
  /\ opened' = [opened EXCEPT ![Chat(h)] = @ + 1]
  /\ chatSessions' = [chatSessions EXCEPT ![Chat(h)] = next']
  /\ sid' = [sid EXCEPT ![h] = next']
  /\ Goto(h, AfterSession[class[h]])
  /\ UNCHANGED <<up, crashes, storeVars, msg, class, turnVars, showVars>>

\* Under b.mu.Lock(): another handler may have made the chat's session in between.
Create(h) ==
  /\ At(h, "create")
  /\ IF chatSessions[Chat(h)] = None
     THEN /\ NewSession
          /\ opened' = [opened EXCEPT ![Chat(h)] = @ + 1]
          /\ chatSessions' = [chatSessions EXCEPT ![Chat(h)] = next']
          /\ sid' = [sid EXCEPT ![h] = next']
     ELSE /\ sid' = [sid EXCEPT ![h] = chatSessions[Chat(h)]]
          /\ UNCHANGED sessionVars
  /\ Goto(h, AfterSession[class[h]])
  /\ UNCHANGED <<up, crashes, storeVars, msg, class, turnVars, showVars>>

-----------------------------------------------------------------------------
(* A turn, and the turnHandler that shows its progress                     *)

StartTyping(h) == typing' = [typing EXCEPT ![h] = TRUE]
StopTyping(h)  == typing' = [typing EXCEPT ![h] = FALSE]

\* startTyping, then RunTurnStreamRaw looks the session up; an unknown id is an error.
TurnGet(h) ==
  /\ At(h, "turn_get")
  /\ \/ /\ sid[h] \in live
        /\ StartTyping(h)
        /\ Goto(h, "turn_lock")
        /\ UNCHANGED outcome
     \/ /\ sid[h] \notin live
        /\ outcome' = [outcome EXCEPT ![h] = "error"]
        /\ Goto(h, "show")
        /\ UNCHANGED typing
  /\ UNCHANGED <<up, crashes, storeVars, sessionVars, msg, class, sid, chunks, made, visible, dropped>>

TurnLock(h) ==
  /\ At(h, "turn_lock")
  /\ busy[sid[h]] = None
  /\ busy' = [busy EXCEPT ![sid[h]] = h]
  /\ Goto(h, "turn")
  /\ UNCHANGED <<up, crashes, storeVars, chatSessions, live, next, opened, msg, class, sid, turnVars, showVars>>

\* Mutant: the message id is kept whether or not the first chunk was sent.
OnChunkUnchecked(h, sent) ==
  /\ made'    = [made EXCEPT ![h] = TRUE]
  /\ StopTyping(h)
  /\ visible' = IF sent THEN [visible EXCEPT ![h] = "partial"] ELSE visible

\* onChunk: the first chunk that can be sent creates the message, and stops the typing
\* goroutine; later ones edit it, at most once a second and only if Telegram agrees.
OnChunk(h, sent) ==
  /\ made'    = IF sent THEN [made EXCEPT ![h] = TRUE] ELSE made
  /\ StopTyping(h)
  /\ visible' = IF sent THEN [visible EXCEPT ![h] = "partial"] ELSE visible

Chunk(h) ==
  /\ At(h, "turn")
  /\ chunks[h] < MaxChunks
  /\ chunks' = [chunks EXCEPT ![h] = @ + 1]
  /\ IF made[h] THEN UNCHANGED <<made, typing, visible>>
                ELSE \E sent \in BOOLEAN : OnChunk(h, sent)
  /\ UNCHANGED <<up, crashes, storeVars, sessionVars, pc, msg, class, sid, outcome, dropped>>

\* The turn returns, with an answer or an error (a failure, an interrupt, a reset).
TurnReturn(h) ==
  /\ At(h, "turn")
  /\ busy' = [busy EXCEPT ![sid[h]] = None]
  /\ \E o \in {"answer", "error"} : outcome' = [outcome EXCEPT ![h] = o]
  /\ StopTyping(h)
  /\ Goto(h, "show")
  /\ UNCHANGED <<up, crashes, storeVars, chatSessions, live, next, opened, msg, class, sid, chunks, made, visible, dropped>>

\* sendMessages: a text beyond 4096 bytes takes several messages, the first that fails is
\* the last.
SendMessages(h, sent) == visible' = IF sent THEN [visible EXCEPT ![h] = outcome[h]] ELSE visible

\* The edit of the first chunk's message, which fails if there is none.
EditMessage(h, sent) == SendMessages(h, sent /\ visible[h] # "nothing")

\* The end of handleMessage and of handleSkillCommand, for a result or an error: the message
\* of the first chunk is edited (and a long text continued in others), or there is none yet
\* and new ones are sent.
Show(h) ==
  /\ At(h, "show")
  /\ \E sent \in BOOLEAN :
       /\ IF made[h] THEN EditMessage(h, sent) ELSE SendMessages(h, sent)
       /\ dropped' = [dropped EXCEPT ![h] = ~sent]
  /\ End(h)
  /\ UNCHANGED <<up, crashes, storeVars, sessionVars, typing, outcome>>

-----------------------------------------------------------------------------
(* Built-in commands                                                       *)

\* CleanCommand.Execute: ResetSession of the id the handler read. Reset's Get ...
CleanGet(h) ==
  /\ At(h, "clean_get")
  /\ \/ /\ sid[h] \in live
        /\ Goto(h, "clean_close")
        /\ UNCHANGED outcome
     \/ /\ sid[h] \notin live
        /\ outcome' = [outcome EXCEPT ![h] = "error"]
        /\ Goto(h, "show")
  /\ UNCHANGED <<up, crashes, storeVars, sessionVars, msg, class, sid, turnVars, visible, dropped>>

\* ... its Close, which waits for the session's mutex unless a concurrent Close was first ...
CleanClose(h) ==
  /\ At(h, "clean_close")
  /\ sid[h] \in live => busy[sid[h]] = None
  /\ live' = live \ {sid[h]}
  /\ Goto(h, "clean_open")
  /\ UNCHANGED <<up, crashes, storeVars, chatSessions, next, opened, busy, msg, class, sid, turnVars, showVars>>

\* ... and its Create.
CleanOpen(h) ==
  /\ At(h, "clean_open")
  /\ NewSession
  /\ sid' = [sid EXCEPT ![h] = next']
  /\ Goto(h, "update")
  /\ UNCHANGED <<up, crashes, storeVars, chatSessions, opened, msg, class, turnVars, showVars>>

\* updateSessionFromResult
UpdateSessionFromResult(h) ==
  /\ At(h, "update")
  /\ chatSessions' = [chatSessions EXCEPT ![Chat(h)] = sid[h]]
  /\ outcome' = [outcome EXCEPT ![h] = "answer"]
  /\ Goto(h, "show")
  /\ UNCHANGED <<up, crashes, storeVars, live, next, opened, busy, msg, class, sid, turnVars, visible, dropped>>

\* /help lists the registry; /status and /todos fail for a session that is gone.
Help(s)   == {"answer"}
Status(s) == IF s \in live THEN {"answer"} ELSE {"error"}
Todos(s)  == IF s \in live THEN {"answer"} ELSE {"error"}

Exec(h) ==
  /\ At(h, "exec")
  /\ \E o \in Help(sid[h]) \cup Status(sid[h]) \cup Todos(sid[h]) :
       outcome' = [outcome EXCEPT ![h] = o]
  /\ Goto(h, "show")
  /\ UNCHANGED <<up, crashes, storeVars, sessionVars, msg, class, sid, turnVars, visible, dropped>>

-----------------------------------------------------------------------------
Handle(h) ==
  \/ Gate(h) \/ Refuse(h) \/ Route(h) \/ Lookup(h) \/ Create(h)
  \/ TurnGet(h) \/ TurnLock(h) \/ Chunk(h) \/ TurnReturn(h) \/ Show(h)
  \/ CleanGet(h) \/ CleanClose(h) \/ CleanOpen(h) \/ UpdateSessionFromResult(h) \/ Exec(h)

Next ==
  \/ \E h \in Msgs, u \in Users, c \in Chats : Receive(h, u, c)
  \/ \E h \in Msgs : Handle(h)
  \/ \E c \in Codes : ApproveCommand(c) \/ ApproveTool(c)
  \/ Crash \/ Restart

Spec == Init /\ [][Next]_vars

-----------------------------------------------------------------------------
(* Properties                                                              *)

Outcomes == {"answer", "error"}
Data     == [allowed : SUBSET Users, pending : [Users -> Codes \cup {None}]]
Updates  == [user : Users, chat : Chats]
Labels   == {"idle", "gate", "refuse", "route", "lookup", "create", "turn_get", "turn_lock", "turn",
             "clean_get", "clean_close", "clean_open", "update", "exec", "show", "done"}

\* The type of the state: maps, handlers and the store have the shape the code gives them.
TypeOK ==
  /\ up \in BOOLEAN /\ crashes \in 0 .. MaxCrashes
  /\ mem \in Data /\ disk \in Data
  /\ held \in [Users -> SUBSET Codes]
  /\ written \in [Users -> SUBSET Codes] /\ lost \in [Users -> SUBSET Codes]
  /\ acked \subseteq Users /\ approved \subseteq Users
  /\ next \in Nat /\ live \subseteq 1 .. next
  /\ chatSessions \in [Chats -> (1 .. next) \cup {None}] /\ opened \in [Chats -> Nat]
  /\ busy \in [1 .. next -> Msgs \cup {None}]
  /\ pc \in [Msgs -> Labels] /\ msg \in [Msgs -> Updates \cup {None}]
  /\ class \in [Msgs -> Classes \cup {None}]
  /\ sid \in [Msgs -> (1 .. next) \cup {None}]
  /\ chunks \in [Msgs -> 0 .. MaxChunks]
  /\ made \in [Msgs -> BOOLEAN] /\ typing \in [Msgs -> BOOLEAN]
  /\ outcome \in [Msgs -> Outcomes \cup {None}]
  /\ visible \in [Msgs -> Outcomes \cup {"nothing", "partial"}] /\ dropped \in [Msgs -> BOOLEAN]

\* An approval that was acknowledged outlives the daemon: the user is in telegram.json, is
\* admitted whenever the daemon runs, and nobody is served whom no owner has approved.
ApprovalIsDurable ==
  /\ acked \subseteq disk.allowed
  /\ up => acked \subseteq mem.allowed
  /\ \A h \in Msgs : class[h] # None => User(h) \in approved

\* Every code a user was sent admits the user, as long as the user is not admitted: repeated
\* refusals, approvals of others and failed writes do not void it, and a restart only if no
\* write of telegram.json that had it succeeded before the daemon died. (Such codes there are:
\* GetOrCreateOTP hands a code out although its persist failed. A later persist saves it.)
HeldCodesWork ==
  \A u \in Users : up /\ u \notin mem.allowed => held[u] \subseteq {mem.pending[u]} \cup lost[u]

\* A chat has one session: its first messages, handled at the same time, share the one that
\* is created, and the id kept for the chat is stale only while a /clean that has closed
\* that session is on its way to replace it, however many /clean commands of the chat overlap.
ChatHasOneSession ==
  \A c \in Chats :
    /\ opened[c] <= 1
    /\ \/ chatSessions[c] \in live \cup {None}
       \/ \E h \in Msgs : pc[h] \in {"clean_open", "update"} /\ Chat(h) = c

\* A handled message ends with its result in the chat, whatever became of the chunks before
\* it, unless Telegram refused the result itself; the typing goroutine has ended by then.
ResultIsShown ==
  \A h \in Msgs :
    /\ pc[h] = "done" /\ outcome[h] # None => dropped[h] \/ visible[h] = outcome[h]
    /\ typing[h] => pc[h] \in {"turn_lock", "turn"}
=============================================================================
