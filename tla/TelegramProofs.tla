--------------------------- MODULE TelegramProofs ---------------------------
(***************************************************************************)
(* Safety of Telegram for any users, chats, codes and messages, however    *)
(* often the daemon crashes.                                               *)
(***************************************************************************)
EXTENDS Telegram, TLAPS

\* Where a handler has a message, and where it has a session.
Early       == {"idle", "gate", "refuse", "route"}
Busy        == Labels \ {"idle", "done"}
WithSession == {"turn_get", "turn_lock", "turn", "clean_get", "clean_close", "clean_open", "update", "exec"}

\* A handler under way has a message, what it needs of the steps before, and no result yet.
HandlerInv ==
  \A h \in Msgs :
    /\ pc[h] \in Busy => msg[h] \in Updates
    /\ pc[h] \in Early => class[h] = None
    /\ pc[h] \in {"lookup", "create"} => class[h] \in {"turn", "clean", "builtin"}
    /\ pc[h] \in WithSession => sid[h] \in 1 .. next
    /\ pc[h] \in Early \cup {"lookup", "create"} => sid[h] = None
    /\ pc[h] \notin {"show", "done"} => outcome[h] = None
    /\ pc[h] = "show" => outcome[h] \in Outcomes
    /\ made[h] => visible[h] # "nothing"

\* Who is admitted, in memory or on disk, or has passed the gate, was approved.
GateInv ==
  /\ mem.allowed \subseteq approved /\ disk.allowed \subseteq approved
  /\ \A h \in Msgs : pc[h] = "route" => User(h) \in approved

\* The file never runs ahead of the memory; what it was given for a user it has until it has
\* the user's approval; and while the daemon is down it has every code that is not lost.
SavedInv ==
  /\ up => disk.allowed \subseteq mem.allowed
  /\ up => \A u \in Users : u \notin mem.allowed =>
              disk.pending[u] = None \/ disk.pending[u] = mem.pending[u]
  /\ \A u \in Users : u \notin disk.allowed => written[u] \subseteq {disk.pending[u]}
  /\ ~up => \A u \in Users : u \notin disk.allowed => held[u] \subseteq {disk.pending[u]} \cup lost[u]

\* A session belongs to one chat: neither the map nor the handlers mix two chats' sessions,
\* and the session a /clean has opened is known to nobody else until it is in the map.
OwnerInv ==
  /\ \A c \in Chats : chatSessions[c] = None => opened[c] = 0
  /\ \A c, d \in Chats : chatSessions[c] = chatSessions[d] /\ chatSessions[c] # None => c = d
  /\ \A h \in Msgs, c \in Chats : sid[h] # None /\ chatSessions[c] = sid[h] => c = Chat(h)
  /\ \A g, h \in Msgs : sid[g] = sid[h] /\ sid[h] # None => Chat(g) = Chat(h)
  /\ \A h \in Msgs : pc[h] = "update" =>
       /\ sid[h] \in live
       /\ \A c \in Chats : chatSessions[c] # sid[h]
       /\ \A g \in Msgs : sid[g] = sid[h] => g = h

StoreInv == GateInv /\ SavedInv /\ ApprovalIsDurable /\ HeldCodesWork
IndInv   == TypeOK /\ HandlerInv /\ StoreInv /\ OwnerInv /\ ChatHasOneSession /\ ResultIsShown

USE TelegramAssumption

\* A bridge that has just started satisfies the invariant.
LEMMA InitInd == Init => IndInv
  <1> SUFFICES ASSUME Init PROVE IndInv
    OBVIOUS
  <1> USE DEF Init, Empty
  <1>1. disk \in Data /\ mem \in Data /\ disk.allowed = acked /\ mem = disk
    BY DEF Data
  <1>2. TypeOK
    BY <1>1 DEF TypeOK, Labels
  <1>3. HandlerInv
    BY DEF HandlerInv, Busy, Labels, Early, WithSession
  <1>4. StoreInv
    BY <1>1 DEF StoreInv, GateInv, SavedInv, ApprovalIsDurable, HeldCodesWork
  <1>5. OwnerInv /\ ChatHasOneSession /\ ResultIsShown
    BY DEF OwnerInv, ChatHasOneSession, ResultIsShown
  <1> QED BY <1>2, <1>3, <1>4, <1>5 DEF IndInv

\* getOrCreateSession returns to a handler that has use for a session.
LEMMA AfterSessionLabels ==
  \A k \in {"turn", "clean", "builtin"} : AfterSession[k] \in {"turn_get", "clean_get", "exec"}
  BY DEF AfterSession

\* What a handler in getOrCreateSession works on.
LEMMA LookupFacts ==
  ASSUME IndInv, NEW h \in Msgs, pc[h] \in {"lookup", "create"}
  PROVE  /\ Chat(h) \in Chats /\ chatSessions[Chat(h)] \in (1 .. next) \cup {None}
         /\ AfterSession[class[h]] \in {"turn_get", "clean_get", "exec"}
  <1>1. msg[h] \in Updates /\ class[h] \in {"turn", "clean", "builtin"}
    BY DEF IndInv, HandlerInv, Busy, Labels
  <1> QED BY <1>1, AfterSessionLabels DEF IndInv, TypeOK, Chat, Updates

\* What a persist leaves behind, whether it succeeds or not.
LEMMA PersistTypes ==
  ASSUME TypeOK, NEW data \in Data, NEW ok \in BOOLEAN, Persist(data, ok)
  PROVE  mem' \in Data /\ disk' \in Data /\ written' \in [Users -> SUBSET Codes]
  <1>1. data.pending \in [Users -> Codes \cup {None}]
    BY DEF Data
  <1>2. CASE ok
    BY <1>1, <1>2 DEF Persist, TypeOK
  <1>3. CASE ~ok
    BY <1>3 DEF Persist, TypeOK
  <1> QED BY <1>2, <1>3

\* No step takes a variable out of its type.
LEMMA TypeStep == IndInv /\ [Next]_vars => TypeOK'
  <1> SUFFICES ASSUME IndInv, [Next]_vars PROVE TypeOK'
    OBVIOUS
  <1>0. TypeOK /\ HandlerInv
    BY DEF IndInv
  <1> USE DEF storeVars, sessionVars, turnVars, showVars, Goto, At,
              TypeOK, HandlerInv, Busy, WithSession, Labels, Outcomes, User, Chat, Updates
  <1>1. ASSUME NEW h \in Msgs, NEW u \in Users, NEW c \in Chats, Receive(h, u, c) PROVE TypeOK'
    BY <1>0, <1>1 DEF Receive
  <1>2. ASSUME NEW h \in Msgs, Gate(h) PROVE TypeOK'
    BY <1>0, <1>2 DEF Gate, IsAllowed
  <1>3. ASSUME NEW h \in Msgs, Refuse(h) PROVE TypeOK'
    <2>1. User(h) \in Users
      BY <1>0, <1>3 DEF Refuse
    <2>2. PICK c \in Codes, ok \in BOOLEAN, sent \in BOOLEAN :
            /\ IF mem.pending[User(h)] = c
               THEN UNCHANGED <<mem, disk, written>>
               ELSE Persist([mem EXCEPT !.pending[User(h)] = c], ok)
            /\ held' = IF sent THEN [held EXCEPT ![User(h)] = @ \cup {c}] ELSE held
            /\ lost' = IF sent THEN [lost EXCEPT ![User(h)] = @ \ {c}] ELSE lost
      BY <1>3 DEF Refuse
    <2>3. [mem EXCEPT !.pending[User(h)] = c] \in Data
      BY <1>0, <2>1 DEF Data
    <2>4. mem' \in Data /\ disk' \in Data /\ written' \in [Users -> SUBSET Codes]
      <3>1. CASE mem.pending[User(h)] = c
        BY <1>0, <2>2, <3>1
      <3>2. CASE mem.pending[User(h)] # c
        BY <1>0, <2>2, <2>3, <3>2, PersistTypes
      <3> QED BY <3>1, <3>2
    <2>5. held' \in [Users -> SUBSET Codes] /\ lost' \in [Users -> SUBSET Codes]
      BY <1>0, <2>1, <2>2
    <2> QED BY <1>0, <1>3, <2>4, <2>5 DEF Refuse, End
  <1>4. ASSUME NEW h \in Msgs, Route(h) PROVE TypeOK'
    <2>1. PICK k \in Classes, l \in {"show", "lookup"} :
            class' = [class EXCEPT ![h] = k] /\ pc' = [pc EXCEPT ![h] = l]
      BY <1>4 DEF Route
    <2>2. outcome' \in [Msgs -> Outcomes \cup {None}]
      <3>1. outcome' = outcome \/ outcome' = [outcome EXCEPT ![h] = "answer"]
        BY <1>4 DEF Route
      <3> QED BY <1>0, <3>1
    <2> QED BY <1>0, <1>4, <2>1, <2>2 DEF Route
  <1>5. ASSUME NEW h \in Msgs, Lookup(h) PROVE TypeOK'
    <2>1. PICK l \in Labels : pc' = [pc EXCEPT ![h] = l]
      BY <1>5, LookupFacts DEF Lookup
    <2>2. sid' = sid \/ sid' = [sid EXCEPT ![h] = chatSessions[Chat(h)]]
      BY <1>5 DEF Lookup
    <2>3. sid' \in [Msgs -> (1 .. next) \cup {None}] /\ pc' \in [Msgs -> Labels]
      BY <1>0, <1>5, <2>1, <2>2, LookupFacts DEF Lookup
    <2> QED BY <1>0, <1>5, <2>3 DEF Lookup
  <1>6. ASSUME NEW h \in Msgs, Create(h) PROVE TypeOK'
    <2>1. /\ pc' \in [Msgs -> Labels] /\ Chat(h) \in Chats
          /\ chatSessions[Chat(h)] \in (1 .. next) \cup {None}
      BY <1>0, <1>6, LookupFacts DEF Create
    <2>2. CASE chatSessions[Chat(h)] = None
      <3>1. next' = next + 1 /\ live' = live \cup {next'} /\ next' \in 1 .. next'
        BY <1>0, <1>6, <2>2 DEF Create, NewSession
      <3>2. busy' \in [1 .. next' -> Msgs \cup {None}]
        BY <1>0, <1>6, <2>2, <3>1 DEF Create, NewSession
      <3>3. /\ chatSessions' = [chatSessions EXCEPT ![Chat(h)] = next']
            /\ opened' = [opened EXCEPT ![Chat(h)] = @ + 1] /\ sid' = [sid EXCEPT ![h] = next']
        BY <1>6, <2>2 DEF Create
      <3>4. 1 .. next \subseteq 1 .. next'
        BY <1>0, <3>1
      <3>5. chatSessions' \in [Chats -> (1 .. next') \cup {None}] /\ opened' \in [Chats -> Nat]
        BY <1>0, <2>1, <3>1, <3>3, <3>4
      <3>6. sid' \in [Msgs -> (1 .. next') \cup {None}]
        BY <1>0, <3>1, <3>3, <3>4
      <3> QED BY <1>0, <1>6, <2>1, <3>1, <3>2, <3>5, <3>6 DEF Create
    <2>3. CASE chatSessions[Chat(h)] # None
      <3>1. sid' = [sid EXCEPT ![h] = chatSessions[Chat(h)]] /\ UNCHANGED sessionVars
        BY <1>6, <2>3 DEF Create
      <3>2. sid' \in [Msgs -> (1 .. next) \cup {None}]
        BY <1>0, <2>1, <3>1
      <3> QED BY <1>0, <1>6, <2>1, <3>1, <3>2 DEF Create
    <2> QED BY <2>2, <2>3
  <1>7. ASSUME NEW h \in Msgs, TurnGet(h) PROVE TypeOK'
    BY <1>0, <1>7 DEF TurnGet, StartTyping
  <1>8. ASSUME NEW h \in Msgs, TurnLock(h) PROVE TypeOK'
    BY <1>0, <1>8 DEF TurnLock
  <1>9. ASSUME NEW h \in Msgs, Chunk(h) PROVE TypeOK'
    <2>1. chunks' \in [Msgs -> 0 .. MaxChunks]
      BY <1>0, <1>9 DEF Chunk
    <2>2. /\ made' \in [Msgs -> BOOLEAN] /\ typing' \in [Msgs -> BOOLEAN]
          /\ visible' \in [Msgs -> Outcomes \cup {"nothing", "partial"}]
      <3>1. CASE made[h]
        BY <1>0, <1>9, <3>1 DEF Chunk
      <3>2. CASE ~made[h]
        <4>1. PICK sent \in BOOLEAN : OnChunk(h, sent)
          BY <1>9, <3>2 DEF Chunk
        <4> QED BY <1>0, <4>1 DEF OnChunk, StopTyping
      <3> QED BY <3>1, <3>2
    <2> QED BY <1>0, <1>9, <2>1, <2>2 DEF Chunk
  <1>10. ASSUME NEW h \in Msgs, TurnReturn(h) PROVE TypeOK'
    BY <1>0, <1>10 DEF TurnReturn, StopTyping
  <1>11. ASSUME NEW h \in Msgs, Show(h) PROVE TypeOK'
    <2>1. /\ visible' \in [Msgs -> Outcomes \cup {"nothing", "partial"}]
          /\ dropped' \in [Msgs -> BOOLEAN]
      BY <1>0, <1>11 DEF Show, EditMessage, SendMessages
    <2> QED BY <1>0, <1>11, <2>1 DEF Show, End
  <1>12. ASSUME NEW h \in Msgs, CleanGet(h) PROVE TypeOK'
    BY <1>0, <1>12 DEF CleanGet
  <1>13. ASSUME NEW h \in Msgs, CleanClose(h) PROVE TypeOK'
    BY <1>0, <1>13 DEF CleanClose
  <1>14. ASSUME NEW h \in Msgs, CleanOpen(h) PROVE TypeOK'
    BY <1>0, <1>14 DEF CleanOpen, NewSession
  <1>15. ASSUME NEW h \in Msgs, UpdateSessionFromResult(h) PROVE TypeOK'
    BY <1>0, <1>15 DEF UpdateSessionFromResult
  <1>16. ASSUME NEW h \in Msgs, Exec(h) PROVE TypeOK'
    BY <1>0, <1>16 DEF Exec, Help, Status, Todos
  <1>17. ASSUME NEW c \in Codes, ApproveCommand(c) \/ ApproveTool(c) PROVE TypeOK'
    <2>1. PICK u \in Users, ok \in BOOLEAN :
            /\ Persist([allowed |-> mem.allowed \cup {u}, pending |-> [mem.pending EXCEPT ![u] = None]], ok)
            /\ approved' = approved \cup {u}
            /\ acked'    = IF ok THEN acked \cup {u} ELSE acked
      BY <1>17 DEF ApproveCommand, ApproveTool, ApproveByOTP
    <2>2. [allowed |-> mem.allowed \cup {u}, pending |-> [mem.pending EXCEPT ![u] = None]] \in Data
      BY <1>0 DEF Data
    <2>3. mem' \in Data /\ disk' \in Data /\ written' \in [Users -> SUBSET Codes]
      BY <1>0, <2>1, <2>2, PersistTypes
    <2>4. acked' \subseteq Users /\ approved' \subseteq Users
      BY <1>0, <2>1
    <2> QED BY <1>0, <1>17, <2>3, <2>4 DEF ApproveCommand, ApproveTool
  <1>18. CASE Crash
    <2>1. crashes' \in 0 .. MaxCrashes /\ lost' \in [Users -> SUBSET Codes]
      BY <1>0, <1>18 DEF Crash
    <2>2. busy' \in [1 .. next' -> Msgs \cup {None}]
      BY <1>0, <1>18 DEF Crash
    <2>3. pc' \in [Msgs -> Labels]
      BY <1>0, <1>18 DEF Crash
    <2>4. /\ msg' \in [Msgs -> Updates \cup {None}] /\ class' \in [Msgs -> Classes \cup {None}]
          /\ sid' \in [Msgs -> (1 .. next') \cup {None}] /\ chunks' \in [Msgs -> 0 .. MaxChunks]
      BY <1>18 DEF Crash
    <2>5. /\ made' \in [Msgs -> BOOLEAN] /\ typing' \in [Msgs -> BOOLEAN]
          /\ outcome' \in [Msgs -> Outcomes \cup {None}] /\ dropped' \in [Msgs -> BOOLEAN]
          /\ visible' \in [Msgs -> Outcomes \cup {"nothing", "partial"}]
      BY <1>18 DEF Crash
    <2>6. /\ chatSessions' \in [Chats -> (1 .. next') \cup {None}] /\ opened' \in [Chats -> Nat]
          /\ live' \subseteq 1 .. next' /\ next' \in Nat
      BY <1>0, <1>18 DEF Crash
    <2> QED BY <1>0, <1>18, <2>1, <2>2, <2>3, <2>4, <2>5, <2>6 DEF Crash
  <1>19. CASE Restart
    BY <1>0, <1>19 DEF Restart
  <1>20. CASE UNCHANGED vars
    BY <1>0, <1>20 DEF vars
  <1> QED
    BY <1>1, <1>2, <1>3, <1>4, <1>5, <1>6, <1>7, <1>8, <1>9, <1>10, <1>11,
       <1>12, <1>13, <1>14, <1>15, <1>16, <1>17, <1>18, <1>19, <1>20
    DEF Next, Handle

\* A handler that goes on has what its next step needs.
LEMMA HandlerStep == IndInv /\ [Next]_vars => HandlerInv'
  <1> SUFFICES ASSUME IndInv, [Next]_vars PROVE HandlerInv'
    OBVIOUS
  <1>0. TypeOK /\ HandlerInv /\ TypeOK'
    BY TypeStep DEF IndInv
  <1> USE DEF storeVars, sessionVars, turnVars, showVars, Goto, At,
              TypeOK, HandlerInv, Early, Busy, WithSession, Labels, Outcomes, Updates
  <1>1. ASSUME NEW h \in Msgs, NEW u \in Users, NEW c \in Chats, Receive(h, u, c) PROVE HandlerInv'
    BY <1>0, <1>1 DEF Receive
  <1>2. ASSUME NEW h \in Msgs, Gate(h) PROVE HandlerInv'
    BY <1>0, <1>2 DEF Gate, IsAllowed
  <1>3. ASSUME NEW h \in Msgs, Refuse(h) PROVE HandlerInv'
    BY <1>0, <1>3 DEF Refuse, End, CodeFor, Persist
  <1>4. ASSUME NEW h \in Msgs, Route(h) PROVE HandlerInv'
    BY <1>0, <1>4 DEF Route, Classes
  <1>5. ASSUME NEW h \in Msgs, Lookup(h) PROVE HandlerInv'
    BY <1>0, <1>5, LookupFacts DEF Lookup
  <1>6. ASSUME NEW h \in Msgs, Create(h) PROVE HandlerInv'
    BY <1>0, <1>6, LookupFacts DEF Create, NewSession
  <1>7. ASSUME NEW h \in Msgs, TurnGet(h) PROVE HandlerInv'
    <2>1. CASE sid[h] \in live
      BY <1>0, <1>7, <2>1 DEF TurnGet
    <2>2. CASE sid[h] \notin live
      <3>1. /\ pc' = [pc EXCEPT ![h] = "show"] /\ outcome' = [outcome EXCEPT ![h] = "error"]
            /\ pc[h] = "turn_get" /\ UNCHANGED <<msg, class, sid, next, made, visible>>
        BY <1>7, <2>2 DEF TurnGet
      <3> QED BY <1>0, <3>1
    <2> QED BY <2>1, <2>2
  <1>8. ASSUME NEW h \in Msgs, TurnLock(h) PROVE HandlerInv'
    BY <1>0, <1>8 DEF TurnLock
  <1>9. ASSUME NEW h \in Msgs, Chunk(h) PROVE HandlerInv'
    BY <1>0, <1>9 DEF Chunk, OnChunk, StopTyping
  <1>10. ASSUME NEW h \in Msgs, TurnReturn(h) PROVE HandlerInv'
    BY <1>0, <1>10 DEF TurnReturn, StopTyping
  <1>11. ASSUME NEW h \in Msgs, Show(h) PROVE HandlerInv'
    BY <1>0, <1>11 DEF Show, End, EditMessage, SendMessages
  <1>12. ASSUME NEW h \in Msgs, CleanGet(h) PROVE HandlerInv'
    BY <1>0, <1>12 DEF CleanGet
  <1>13. ASSUME NEW h \in Msgs, CleanClose(h) PROVE HandlerInv'
    BY <1>0, <1>13 DEF CleanClose
  <1>14. ASSUME NEW h \in Msgs, CleanOpen(h) PROVE HandlerInv'
    BY <1>0, <1>14 DEF CleanOpen, NewSession
  <1>15. ASSUME NEW h \in Msgs, UpdateSessionFromResult(h) PROVE HandlerInv'
    BY <1>0, <1>15 DEF UpdateSessionFromResult
  <1>16. ASSUME NEW h \in Msgs, Exec(h) PROVE HandlerInv'
    BY <1>0, <1>16 DEF Exec, Help, Status, Todos
  <1>17. ASSUME NEW c \in Codes, ApproveCommand(c) \/ ApproveTool(c) PROVE HandlerInv'
    BY <1>0, <1>17 DEF ApproveCommand, ApproveTool, ApproveByOTP, Persist
  <1>18. CASE Crash
    BY <1>0, <1>18 DEF Crash
  <1>19. CASE Restart
    BY <1>0, <1>19 DEF Restart
  <1>20. CASE UNCHANGED vars
    BY <1>0, <1>20 DEF vars
  <1> QED
    BY <1>1, <1>2, <1>3, <1>4, <1>5, <1>6, <1>7, <1>8, <1>9, <1>10, <1>11,
       <1>12, <1>13, <1>14, <1>15, <1>16, <1>17, <1>18, <1>19, <1>20
    DEF Next, Handle

\* A handler that finds a session in the entry of its chat shares it with handlers of that
\* chat only.
LEMMA TakesOwnSession ==
  ASSUME IndInv, TypeOK', NEW h \in Msgs, pc[h] \in {"lookup", "create"},
         NEW l \in {"turn_get", "clean_get", "exec"}, pc' = [pc EXCEPT ![h] = l],
         chatSessions[Chat(h)] # None, sid' = [sid EXCEPT ![h] = chatSessions[Chat(h)]],
         UNCHANGED <<sessionVars, msg>>
  PROVE  OwnerInv'
  <1>0. TypeOK /\ OwnerInv /\ Chat(h) \in Chats
    BY LookupFacts DEF IndInv
  <1> USE DEF sessionVars, TypeOK, OwnerInv, Chat
  <1>1. \A g \in Msgs : sid'[g] = IF g = h THEN chatSessions[Chat(h)] ELSE sid[g]
    BY <1>0
  <1>2. \A g \in Msgs : pc'[g] = "update" => pc[g] = "update" /\ g # h
    BY <1>0
  <1>3. \A g \in Msgs, c \in Chats : sid'[g] # None /\ chatSessions[c] = sid'[g] => c = Chat(g)
    BY <1>0, <1>1
  <1>4. \A f, g \in Msgs : sid'[f] = sid'[g] /\ sid'[g] # None => Chat(f) = Chat(g)
    BY <1>0, <1>1, <1>3
  <1>5. \A g \in Msgs : pc'[g] = "update" =>
           /\ sid'[g] \in live
           /\ \A c \in Chats : chatSessions[c] # sid'[g]
           /\ \A f \in Msgs : sid'[f] = sid'[g] => f = g
    BY <1>0, <1>1, <1>2
  <1> QED BY <1>0, <1>3, <1>4, <1>5

\* The sessions of two chats are not mixed: new ids are fresh, and handlers take ids from
\* the entry of their own chat only.
LEMMA OwnerStep == IndInv /\ [Next]_vars => OwnerInv'
  <1> SUFFICES ASSUME IndInv, [Next]_vars PROVE OwnerInv'
    OBVIOUS
  <1>0. TypeOK /\ HandlerInv /\ OwnerInv /\ TypeOK'
    BY TypeStep DEF IndInv
  <1> USE DEF storeVars, sessionVars, turnVars, showVars, Goto, At,
              TypeOK, HandlerInv, OwnerInv, Early, Busy, WithSession, Labels, Updates, Chat
  <1>1. ASSUME NEW h \in Msgs, NEW u \in Users, NEW c \in Chats, Receive(h, u, c) PROVE OwnerInv'
    BY <1>0, <1>1 DEF Receive
  <1>2. ASSUME NEW h \in Msgs, Gate(h) PROVE OwnerInv'
    BY <1>0, <1>2 DEF Gate, IsAllowed
  <1>3. ASSUME NEW h \in Msgs, Refuse(h) PROVE OwnerInv'
    BY <1>0, <1>3 DEF Refuse, End, CodeFor, Persist
  <1>4. ASSUME NEW h \in Msgs, Route(h) PROVE OwnerInv'
    BY <1>0, <1>4 DEF Route, Classes
  <1>5. ASSUME NEW h \in Msgs, Lookup(h) PROVE OwnerInv'
    <2>1. CASE chatSessions[Chat(h)] = None
      BY <1>0, <1>5, <2>1 DEF Lookup
    <2>2. CASE chatSessions[Chat(h)] # None
      <3>1. PICK l \in {"turn_get", "clean_get", "exec"} : pc' = [pc EXCEPT ![h] = l]
        BY <1>5, <2>2, LookupFacts DEF Lookup
      <3>2. /\ sid' = [sid EXCEPT ![h] = chatSessions[Chat(h)]] /\ Chat(h) \in Chats
            /\ UNCHANGED <<sessionVars, msg>>
        BY <1>0, <1>5, <2>2 DEF Lookup
      <3> QED BY <1>5, <2>2, <3>1, <3>2, TypeStep, TakesOwnSession DEF Lookup
    <2> QED BY <2>1, <2>2
  <1>6. ASSUME NEW h \in Msgs, Create(h) PROVE OwnerInv'
    <2>1. PICK l \in {"turn_get", "clean_get", "exec"} : pc' = [pc EXCEPT ![h] = l]
      BY <1>6, LookupFacts DEF Create
    <2>2. Chat(h) \in Chats /\ msg' = msg /\ sid[h] = None
      BY <1>0, <1>6, LookupFacts DEF Create
    <2>3. CASE chatSessions[Chat(h)] = None
      <3>1. /\ next' = next + 1 /\ live' = live \cup {next'} /\ next' \notin 1 .. next /\ next' # None
            /\ chatSessions' = [chatSessions EXCEPT ![Chat(h)] = next']
            /\ opened' = [opened EXCEPT ![Chat(h)] = @ + 1]
            /\ sid' = [sid EXCEPT ![h] = next']
        BY <1>0, <1>6, <2>3 DEF Create, NewSession
      <3>2. \A c \in Chats : chatSessions[c] # next'
        BY <1>0, <3>1
      <3>3. \A g \in Msgs : sid[g] # next'
        BY <1>0, <3>1
      <3>4. \A c, d \in Chats : chatSessions'[c] = chatSessions'[d] /\ chatSessions'[c] # None => c = d
        BY <1>0, <2>2, <3>1, <3>2
      <3>5. \A g \in Msgs, c \in Chats : sid'[g] # None /\ chatSessions'[c] = sid'[g] => c = Chat(g)
        BY <1>0, <2>2, <3>1, <3>2, <3>3
      <3>6. \A f, g \in Msgs : sid'[f] = sid'[g] /\ sid'[g] # None => Chat(f) = Chat(g)
        BY <1>0, <3>1, <3>3
      <3>7. \A g \in Msgs : pc'[g] = "update" =>
               /\ sid'[g] \in live'
               /\ \A c \in Chats : chatSessions'[c] # sid'[g]
               /\ \A f \in Msgs : sid'[f] = sid'[g] => f = g
        BY <1>0, <2>1, <2>2, <3>1, <3>2, <3>3
      <3> QED BY <1>0, <2>2, <3>1, <3>4, <3>5, <3>6, <3>7
    <2>4. CASE chatSessions[Chat(h)] # None
      <3>1. UNCHANGED sessionVars /\ sid' = [sid EXCEPT ![h] = chatSessions[Chat(h)]]
        BY <1>6, <2>4 DEF Create
      <3> QED BY <1>6, <2>1, <2>2, <2>4, <3>1, TypeStep, TakesOwnSession DEF Create
    <2> QED BY <2>3, <2>4
  <1>7. ASSUME NEW h \in Msgs, TurnGet(h) PROVE OwnerInv'
    BY <1>0, <1>7 DEF TurnGet, StartTyping
  <1>8. ASSUME NEW h \in Msgs, TurnLock(h) PROVE OwnerInv'
    BY <1>0, <1>8 DEF TurnLock
  <1>9. ASSUME NEW h \in Msgs, Chunk(h) PROVE OwnerInv'
    BY <1>0, <1>9 DEF Chunk, OnChunk, StopTyping
  <1>10. ASSUME NEW h \in Msgs, TurnReturn(h) PROVE OwnerInv'
    BY <1>0, <1>10 DEF TurnReturn, StopTyping
  <1>11. ASSUME NEW h \in Msgs, Show(h) PROVE OwnerInv'
    BY <1>0, <1>11 DEF Show, End, EditMessage, SendMessages
  <1>12. ASSUME NEW h \in Msgs, CleanGet(h) PROVE OwnerInv'
    BY <1>0, <1>12 DEF CleanGet
  <1>13. ASSUME NEW h \in Msgs, CleanClose(h) PROVE OwnerInv'
    BY <1>0, <1>13 DEF CleanClose
  <1>14. ASSUME NEW h \in Msgs, CleanOpen(h) PROVE OwnerInv'
    BY <1>0, <1>14 DEF CleanOpen, NewSession
  <1>15. ASSUME NEW h \in Msgs, UpdateSessionFromResult(h) PROVE OwnerInv'
    BY <1>0, <1>15 DEF UpdateSessionFromResult
  <1>16. ASSUME NEW h \in Msgs, Exec(h) PROVE OwnerInv'
    BY <1>0, <1>16 DEF Exec, Help, Status, Todos
  <1>17. ASSUME NEW c \in Codes, ApproveCommand(c) \/ ApproveTool(c) PROVE OwnerInv'
    BY <1>0, <1>17 DEF ApproveCommand, ApproveTool, ApproveByOTP, Persist
  <1>18. CASE Crash
    BY <1>0, <1>18 DEF Crash
  <1>19. CASE Restart
    BY <1>0, <1>19 DEF Restart
  <1>20. CASE UNCHANGED vars
    BY <1>0, <1>20 DEF vars
  <1> QED
    BY <1>1, <1>2, <1>3, <1>4, <1>5, <1>6, <1>7, <1>8, <1>9, <1>10, <1>11,
       <1>12, <1>13, <1>14, <1>15, <1>16, <1>17, <1>18, <1>19, <1>20
    DEF Next, Handle

\* No step gives a chat a second session, or leaves it with one that is gone.
LEMMA ChatStep == IndInv /\ [Next]_vars => ChatHasOneSession'
  <1> SUFFICES ASSUME IndInv, [Next]_vars PROVE ChatHasOneSession'
    OBVIOUS
  <1>0. TypeOK /\ HandlerInv /\ OwnerInv /\ ChatHasOneSession /\ TypeOK'
    BY TypeStep DEF IndInv
  <1> USE DEF storeVars, sessionVars, turnVars, showVars, Goto, At,
              TypeOK, HandlerInv, OwnerInv, ChatHasOneSession, Early, Busy, WithSession, Labels, Updates, Chat
  <1>1. ASSUME NEW h \in Msgs, NEW u \in Users, NEW c \in Chats, Receive(h, u, c) PROVE ChatHasOneSession'
    BY <1>0, <1>1 DEF Receive
  <1>2. ASSUME NEW h \in Msgs, Gate(h) PROVE ChatHasOneSession'
    BY <1>0, <1>2 DEF Gate, IsAllowed
  <1>3. ASSUME NEW h \in Msgs, Refuse(h) PROVE ChatHasOneSession'
    BY <1>0, <1>3 DEF Refuse, End, CodeFor, Persist
  <1>4. ASSUME NEW h \in Msgs, Route(h) PROVE ChatHasOneSession'
    <2>1. PICK l \in {"lookup", "show"} : pc' = [pc EXCEPT ![h] = l]
      BY <1>4 DEF Route
    <2> QED BY <1>0, <1>4, <2>1 DEF Route
  <1>5. ASSUME NEW h \in Msgs, Lookup(h) PROVE ChatHasOneSession'
    <2>1. PICK l \in {"turn_get", "clean_get", "exec", "create"} : pc' = [pc EXCEPT ![h] = l]
      BY <1>5, LookupFacts DEF Lookup
    <2> QED BY <1>0, <1>5, <2>1 DEF Lookup
  <1>6. ASSUME NEW h \in Msgs, Create(h) PROVE ChatHasOneSession'
    <2>1. PICK l \in {"turn_get", "clean_get", "exec"} : pc' = [pc EXCEPT ![h] = l]
      BY <1>6, LookupFacts DEF Create
    <2>2. CASE chatSessions[Chat(h)] = None
      <3>1. /\ live' = live \cup {next'} /\ msg' = msg
            /\ chatSessions' = [chatSessions EXCEPT ![Chat(h)] = next']
            /\ opened' = [opened EXCEPT ![Chat(h)] = @ + 1]
        BY <1>6, <2>2 DEF Create, NewSession
      <3>2. opened[Chat(h)] = 0 /\ Chat(h) \in Chats
        BY <1>0, <1>6, <2>2, LookupFacts DEF Create
      <3> QED BY <1>0, <1>6, <2>1, <3>1, <3>2 DEF Create
    <2>3. CASE chatSessions[Chat(h)] # None
      <3>1. UNCHANGED <<sessionVars, msg>>
        BY <1>6, <2>3 DEF Create
      <3> QED BY <1>0, <1>6, <2>1, <3>1 DEF Create
    <2> QED BY <2>2, <2>3
  <1>7. ASSUME NEW h \in Msgs, TurnGet(h) PROVE ChatHasOneSession'
    <2>1. PICK l \in {"turn_lock", "show"} : pc' = [pc EXCEPT ![h] = l]
      BY <1>7 DEF TurnGet
    <2> QED BY <1>0, <1>7, <2>1 DEF TurnGet
  <1>8. ASSUME NEW h \in Msgs, TurnLock(h) PROVE ChatHasOneSession'
    BY <1>0, <1>8 DEF TurnLock
  <1>9. ASSUME NEW h \in Msgs, Chunk(h) PROVE ChatHasOneSession'
    BY <1>0, <1>9 DEF Chunk, OnChunk, StopTyping
  <1>10. ASSUME NEW h \in Msgs, TurnReturn(h) PROVE ChatHasOneSession'
    BY <1>0, <1>10 DEF TurnReturn, StopTyping
  <1>11. ASSUME NEW h \in Msgs, Show(h) PROVE ChatHasOneSession'
    BY <1>0, <1>11 DEF Show, End, EditMessage, SendMessages
  <1>12. ASSUME NEW h \in Msgs, CleanGet(h) PROVE ChatHasOneSession'
    <2>1. PICK l \in {"clean_close", "show"} : pc' = [pc EXCEPT ![h] = l]
      BY <1>12 DEF CleanGet
    <2> QED BY <1>0, <1>12, <2>1 DEF CleanGet
  <1>13. ASSUME NEW h \in Msgs, CleanClose(h) PROVE ChatHasOneSession'
    <2>1. ASSUME NEW c \in Chats PROVE
            \/ chatSessions[c] \in live' \cup {None}
            \/ \E g \in Msgs : pc'[g] \in {"clean_open", "update"} /\ Chat(g) = c
      <3>1. CASE chatSessions[c] = sid[h]
        <4>1. pc[h] = "clean_close" /\ pc' = [pc EXCEPT ![h] = "clean_open"] /\ UNCHANGED msg
          BY <1>13 DEF CleanClose
        <4>2. sid[h] # None /\ c = Chat(h)
          BY <1>0, <3>1, <4>1
        <4> QED BY <1>0, <4>1, <4>2
      <3>2. CASE chatSessions[c] # sid[h]
        BY <1>0, <1>13, <3>2 DEF CleanClose
      <3> QED BY <3>1, <3>2
    <2> QED BY <1>0, <1>13, <2>1 DEF CleanClose
  <1>14. ASSUME NEW h \in Msgs, CleanOpen(h) PROVE ChatHasOneSession'
    BY <1>0, <1>14 DEF CleanOpen, NewSession
  <1>15. ASSUME NEW h \in Msgs, UpdateSessionFromResult(h) PROVE ChatHasOneSession'
    BY <1>0, <1>15 DEF UpdateSessionFromResult
  <1>16. ASSUME NEW h \in Msgs, Exec(h) PROVE ChatHasOneSession'
    BY <1>0, <1>16 DEF Exec, Help, Status, Todos
  <1>17. ASSUME NEW c \in Codes, ApproveCommand(c) \/ ApproveTool(c) PROVE ChatHasOneSession'
    <2>1. UNCHANGED <<sessionVars, pc, msg>>
      BY <1>17 DEF ApproveCommand, ApproveTool
    <2> QED BY <1>0, <2>1
  <1>18. CASE Crash
    BY <1>0, <1>18 DEF Crash
  <1>19. CASE Restart
    BY <1>0, <1>19 DEF Restart
  <1>20. CASE UNCHANGED vars
    BY <1>0, <1>20 DEF vars
  <1> QED
    BY <1>1, <1>2, <1>3, <1>4, <1>5, <1>6, <1>7, <1>8, <1>9, <1>10, <1>11,
       <1>12, <1>13, <1>14, <1>15, <1>16, <1>17, <1>18, <1>19, <1>20
    DEF Next, Handle

\* No handler ends without its result, or while it still types.
LEMMA ShownStep == IndInv /\ [Next]_vars => ResultIsShown'
  <1> SUFFICES ASSUME IndInv, [Next]_vars PROVE ResultIsShown'
    OBVIOUS
  <1>0. TypeOK /\ HandlerInv /\ ResultIsShown /\ TypeOK'
    BY TypeStep DEF IndInv
  <1> USE DEF storeVars, sessionVars, turnVars, showVars, Goto, At,
              TypeOK, HandlerInv, ResultIsShown, Early, Busy, Labels, Outcomes
  <1>1. ASSUME NEW h \in Msgs, NEW u \in Users, NEW c \in Chats, Receive(h, u, c) PROVE ResultIsShown'
    BY <1>0, <1>1 DEF Receive
  <1>2. ASSUME NEW h \in Msgs, Gate(h) PROVE ResultIsShown'
    BY <1>0, <1>2 DEF Gate, IsAllowed
  <1>3. ASSUME NEW h \in Msgs, Refuse(h) PROVE ResultIsShown'
    BY <1>0, <1>3 DEF Refuse, End, CodeFor, Persist
  <1>4. ASSUME NEW h \in Msgs, Route(h) PROVE ResultIsShown'
    BY <1>0, <1>4 DEF Route, Classes
  <1>5. ASSUME NEW h \in Msgs, Lookup(h) PROVE ResultIsShown'
    BY <1>0, <1>5, LookupFacts DEF Lookup
  <1>6. ASSUME NEW h \in Msgs, Create(h) PROVE ResultIsShown'
    BY <1>0, <1>6, LookupFacts DEF Create, NewSession
  <1>7. ASSUME NEW h \in Msgs, TurnGet(h) PROVE ResultIsShown'
    <2>1. CASE sid[h] \in live
      <3>1. /\ pc' = [pc EXCEPT ![h] = "turn_lock"] /\ typing' = [typing EXCEPT ![h] = TRUE]
            /\ UNCHANGED showVars
        BY <1>7, <2>1 DEF TurnGet, StartTyping
      <3> QED BY <1>0, <1>7, <3>1
    <2>2. CASE sid[h] \notin live
      <3>1. /\ pc' = [pc EXCEPT ![h] = "show"] /\ outcome' = [outcome EXCEPT ![h] = "error"]
            /\ UNCHANGED <<typing, visible, dropped>> /\ ~typing[h]
        BY <1>0, <1>7, <2>2 DEF TurnGet
      <3> QED BY <1>0, <3>1
    <2> QED BY <2>1, <2>2
  <1>8. ASSUME NEW h \in Msgs, TurnLock(h) PROVE ResultIsShown'
    BY <1>0, <1>8 DEF TurnLock
  <1>9. ASSUME NEW h \in Msgs, Chunk(h) PROVE ResultIsShown'
    BY <1>0, <1>9 DEF Chunk, OnChunk, StopTyping
  <1>10. ASSUME NEW h \in Msgs, TurnReturn(h) PROVE ResultIsShown'
    BY <1>0, <1>10 DEF TurnReturn, StopTyping
  <1>11. ASSUME NEW h \in Msgs, Show(h) PROVE ResultIsShown'
    <2>1. PICK sent \in BOOLEAN :
            /\ IF made[h] THEN EditMessage(h, sent) ELSE SendMessages(h, sent)
            /\ dropped' = [dropped EXCEPT ![h] = ~sent]
      BY <1>11 DEF Show
    <2>2. sent => visible'[h] = outcome[h]
      BY <1>0, <1>11, <2>1 DEF Show, EditMessage, SendMessages
    <2>3. \A g \in Msgs \ {h} : visible'[g] = visible[g] /\ dropped'[g] = dropped[g]
      BY <1>0, <2>1 DEF EditMessage, SendMessages
    <2>4. dropped'[h] = ~sent
      BY <1>0, <2>1
    <2>5. UNCHANGED <<typing, outcome>> /\ pc' = [pc EXCEPT ![h] = "done"] /\ pc[h] = "show"
      BY <1>11 DEF Show, End
    <2> QED BY <1>0, <2>2, <2>3, <2>4, <2>5
  <1>12. ASSUME NEW h \in Msgs, CleanGet(h) PROVE ResultIsShown'
    BY <1>0, <1>12 DEF CleanGet
  <1>13. ASSUME NEW h \in Msgs, CleanClose(h) PROVE ResultIsShown'
    BY <1>0, <1>13 DEF CleanClose
  <1>14. ASSUME NEW h \in Msgs, CleanOpen(h) PROVE ResultIsShown'
    BY <1>0, <1>14 DEF CleanOpen, NewSession
  <1>15. ASSUME NEW h \in Msgs, UpdateSessionFromResult(h) PROVE ResultIsShown'
    BY <1>0, <1>15 DEF UpdateSessionFromResult
  <1>16. ASSUME NEW h \in Msgs, Exec(h) PROVE ResultIsShown'
    BY <1>0, <1>16 DEF Exec, Help, Status, Todos
  <1>17. ASSUME NEW c \in Codes, ApproveCommand(c) \/ ApproveTool(c) PROVE ResultIsShown'
    BY <1>0, <1>17 DEF ApproveCommand, ApproveTool, ApproveByOTP, Persist
  <1>18. CASE Crash
    BY <1>0, <1>18 DEF Crash
  <1>19. CASE Restart
    BY <1>0, <1>19 DEF Restart
  <1>20. CASE UNCHANGED vars
    BY <1>0, <1>20 DEF vars
  <1> QED
    BY <1>1, <1>2, <1>3, <1>4, <1>5, <1>6, <1>7, <1>8, <1>9, <1>10, <1>11,
       <1>12, <1>13, <1>14, <1>15, <1>16, <1>17, <1>18, <1>19, <1>20
    DEF Next, Handle

\* While the daemon runs, what telegram.json was given for a user who waits is still pending.
LEMMA WrittenIsPending ==
  ASSUME TypeOK, SavedInv, up, NEW u \in Users, u \notin mem.allowed
  PROVE  written[u] \subseteq {mem.pending[u]} /\ None \notin written[u]
  <1>1. written[u] \subseteq Codes /\ None \notin Codes
    BY DEF TypeOK
  <1>2. /\ disk.pending[u] = None \/ disk.pending[u] = mem.pending[u]
        /\ written[u] \subseteq {disk.pending[u]}
    BY DEF SavedInv
  <1> QED BY <1>1, <1>2

\* Approvals and codes survive every step, of the store, of an owner and of the machine.
LEMMA StoreStep == IndInv /\ [Next]_vars => StoreInv'
  <1> SUFFICES ASSUME IndInv, [Next]_vars PROVE StoreInv'
    OBVIOUS
  <1>0. TypeOK /\ HandlerInv /\ StoreInv /\ TypeOK'
    BY TypeStep DEF IndInv
  <1> USE DEF storeVars, sessionVars, turnVars, showVars, Goto, At,
              TypeOK, HandlerInv, StoreInv, GateInv, SavedInv, ApprovalIsDurable, HeldCodesWork,
              Early, Busy, Labels, Updates, User, Data
  <1>1. ASSUME NEW h \in Msgs, NEW u \in Users, NEW c \in Chats, Receive(h, u, c) PROVE StoreInv'
    BY <1>0, <1>1 DEF Receive
  <1>2. ASSUME NEW h \in Msgs, Gate(h) PROVE StoreInv'
    BY <1>0, <1>2 DEF Gate, IsAllowed
  <1>3. ASSUME NEW h \in Msgs, Refuse(h) PROVE StoreInv'
    <2>1. User(h) \in Users
      BY <1>0, <1>3 DEF Refuse
    <2>2. PICK c \in Codes, ok \in BOOLEAN, sent \in BOOLEAN :
            /\ CodeFor(User(h), c)
            /\ IF mem.pending[User(h)] = c
               THEN UNCHANGED <<mem, disk, written>>
               ELSE Persist([mem EXCEPT !.pending[User(h)] = c], ok)
            /\ held' = IF sent THEN [held EXCEPT ![User(h)] = @ \cup {c}] ELSE held
            /\ lost' = IF sent THEN [lost EXCEPT ![User(h)] = @ \ {c}] ELSE lost
      BY <1>3 DEF Refuse
    <2>3. /\ mem'.allowed = mem.allowed /\ mem'.pending = [mem.pending EXCEPT ![User(h)] = c]
          /\ disk' = disk \/ disk' = mem'
      <3>1. CASE mem.pending[User(h)] = c
        BY <1>0, <2>1, <2>2, <3>1
      <3>2. CASE mem.pending[User(h)] # c
        <4>1. mem' = [mem EXCEPT !.pending[User(h)] = c] /\ (disk' = disk \/ disk' = mem')
          BY <2>2, <3>2 DEF Persist
        <4> QED BY <1>0, <2>1, <4>1
      <3> QED BY <3>1, <3>2
    <2>4. /\ up' = up /\ acked' = acked /\ approved' = approved /\ up
          /\ pc' = [pc EXCEPT ![h] = "done"] /\ class' = [class EXCEPT ![h] = None]
          /\ msg' = [msg EXCEPT ![h] = None]
      BY <1>3 DEF Refuse, End
    <2>5. GateInv' /\ ApprovalIsDurable'
      BY <1>0, <2>3, <2>4
    <2>6. HeldCodesWork'
      BY <1>0, <2>1, <2>2, <2>3, <2>4 DEF CodeFor
    <2>7. SavedInv'
      <3>1. CASE mem.pending[User(h)] = c
        BY <1>0, <2>2, <2>4, <3>1
      <3>2. CASE mem.pending[User(h)] # c
        <4>1. mem.pending[User(h)] = None
          BY <2>2, <3>2 DEF CodeFor
        <4>2. CASE ok
          <5>1. disk' = mem' /\ written' = [u \in Users |-> written[u] \cup ({mem'.pending[u]} \ {None})]
            BY <2>2, <3>2, <4>2 DEF Persist
          <5>2. ASSUME NEW u \in Users, u \notin disk'.allowed
                PROVE  written'[u] \subseteq {disk'.pending[u]}
            <6>1. u \notin mem.allowed /\ u \notin disk.allowed
              BY <1>0, <2>3, <2>4, <5>1, <5>2
            <6>2. written[u] \subseteq {mem.pending[u]} /\ None \notin written[u]
              BY <1>0, <2>4, <6>1, WrittenIsPending
            <6>3. written[u] \subseteq {mem'.pending[u]}
              BY <1>0, <2>1, <2>3, <4>1, <6>2
            <6> QED BY <5>1, <6>3
          <5> QED BY <2>4, <5>1, <5>2
        <4>3. CASE ~ok
          BY <1>0, <2>1, <2>2, <2>3, <2>4, <3>2, <4>1, <4>3 DEF Persist
        <4> QED BY <4>2, <4>3
      <3> QED BY <3>1, <3>2
    <2> QED BY <2>5, <2>6, <2>7
  <1>4. ASSUME NEW h \in Msgs, Route(h) PROVE StoreInv'
    BY <1>0, <1>4 DEF Route, Classes
  <1>5. ASSUME NEW h \in Msgs, Lookup(h) PROVE StoreInv'
    <2>1. PICK l \in {"turn_get", "clean_get", "exec", "create"} : pc' = [pc EXCEPT ![h] = l]
      BY <1>5, LookupFacts DEF Lookup
    <2>2. UNCHANGED <<up, storeVars, msg, class>>
      BY <1>5 DEF Lookup
    <2> QED BY <1>0, <2>1, <2>2
  <1>6. ASSUME NEW h \in Msgs, Create(h) PROVE StoreInv'
    <2>1. PICK l \in {"turn_get", "clean_get", "exec"} : pc' = [pc EXCEPT ![h] = l]
      BY <1>6, LookupFacts DEF Create
    <2>2. UNCHANGED <<up, storeVars, msg, class>>
      BY <1>6 DEF Create
    <2> QED BY <1>0, <2>1, <2>2
  <1>7. ASSUME NEW h \in Msgs, TurnGet(h) PROVE StoreInv'
    BY <1>0, <1>7 DEF TurnGet, StartTyping
  <1>8. ASSUME NEW h \in Msgs, TurnLock(h) PROVE StoreInv'
    BY <1>0, <1>8 DEF TurnLock
  <1>9. ASSUME NEW h \in Msgs, Chunk(h) PROVE StoreInv'
    BY <1>0, <1>9 DEF Chunk, OnChunk, StopTyping
  <1>10. ASSUME NEW h \in Msgs, TurnReturn(h) PROVE StoreInv'
    BY <1>0, <1>10 DEF TurnReturn, StopTyping
  <1>11. ASSUME NEW h \in Msgs, Show(h) PROVE StoreInv'
    BY <1>0, <1>11 DEF Show, End, EditMessage, SendMessages
  <1>12. ASSUME NEW h \in Msgs, CleanGet(h) PROVE StoreInv'
    BY <1>0, <1>12 DEF CleanGet
  <1>13. ASSUME NEW h \in Msgs, CleanClose(h) PROVE StoreInv'
    BY <1>0, <1>13 DEF CleanClose
  <1>14. ASSUME NEW h \in Msgs, CleanOpen(h) PROVE StoreInv'
    BY <1>0, <1>14 DEF CleanOpen, NewSession
  <1>15. ASSUME NEW h \in Msgs, UpdateSessionFromResult(h) PROVE StoreInv'
    BY <1>0, <1>15 DEF UpdateSessionFromResult
  <1>16. ASSUME NEW h \in Msgs, Exec(h) PROVE StoreInv'
    BY <1>0, <1>16 DEF Exec, Help, Status, Todos
  <1>17. ASSUME NEW c \in Codes, ApproveCommand(c) \/ ApproveTool(c) PROVE StoreInv'
    <2>1. PICK u \in Users, ok \in BOOLEAN :
            /\ mem.pending[u] = c
            /\ Persist([allowed |-> mem.allowed \cup {u}, pending |-> [mem.pending EXCEPT ![u] = None]], ok)
            /\ approved' = approved \cup {u}
            /\ acked'    = IF ok THEN acked \cup {u} ELSE acked
      BY <1>17 DEF ApproveCommand, ApproveTool, ApproveByOTP
    <2>2. /\ mem'.allowed = mem.allowed \cup {u} /\ mem'.pending = [mem.pending EXCEPT ![u] = None]
          /\ IF ok THEN /\ disk' = mem'
                        /\ written' = [v \in Users |-> written[v] \cup ({mem'.pending[v]} \ {None})]
                   ELSE disk' = disk /\ written' = written
      BY <2>1 DEF Persist
    <2>3. up /\ UNCHANGED <<up, held, lost, pc, msg, class>>
      BY <1>17 DEF ApproveCommand, ApproveTool
    <2>4. GateInv' /\ ApprovalIsDurable'
      BY <1>0, <2>1, <2>2, <2>3
    <2>5. ASSUME NEW v \in Users, v \notin mem'.allowed
          PROVE  v # u /\ v \notin mem.allowed /\ v \notin disk.allowed /\ mem'.pending[v] = mem.pending[v]
      BY <1>0, <2>2, <2>3, <2>5
    <2>6. HeldCodesWork'
      BY <1>0, <2>3, <2>5
    <2>7. SavedInv'
      <3>1. CASE ok
        <4>1. ASSUME NEW v \in Users, v \notin disk'.allowed
              PROVE  written'[v] \subseteq {disk'.pending[v]}
          <5>1. v # u /\ v \notin mem.allowed /\ v \notin disk.allowed /\ mem'.pending[v] = mem.pending[v]
            BY <2>2, <2>5, <3>1, <4>1
          <5>2. written[v] \subseteq {mem.pending[v]} /\ None \notin written[v]
            BY <1>0, <2>3, <5>1, WrittenIsPending
          <5>3. disk'.pending[v] = mem.pending[v] /\ mem'.pending[v] = mem.pending[v]
            BY <2>2, <3>1, <5>1
          <5>4. written'[v] = written[v] \cup ({mem.pending[v]} \ {None})
            BY <2>2, <3>1, <5>3
          <5> QED BY <5>2, <5>3, <5>4
        <4> QED BY <2>2, <2>3, <3>1, <4>1
      <3>2. CASE ~ok
        BY <1>0, <2>2, <2>3, <2>5, <3>2
      <3> QED BY <3>1, <3>2
    <2> QED BY <2>4, <2>6, <2>7
  <1>18. CASE Crash
    BY <1>0, <1>18 DEF Crash
  <1>19. CASE Restart
    BY <1>0, <1>19 DEF Restart
  <1>20. CASE UNCHANGED vars
    BY <1>0, <1>20 DEF vars
  <1> QED
    BY <1>1, <1>2, <1>3, <1>4, <1>5, <1>6, <1>7, <1>8, <1>9, <1>10, <1>11,
       <1>12, <1>13, <1>14, <1>15, <1>16, <1>17, <1>18, <1>19, <1>20
    DEF Next, Handle

-----------------------------------------------------------------------------
(* The theorems                                                            *)

\* Every state of the bridge, of any number of users, chats and messages, satisfies IndInv.
THEOREM Invariance == Spec => []IndInv
  <1>1. IndInv /\ [Next]_vars => IndInv'
    BY TypeStep, HandlerStep, StoreStep, OwnerStep, ChatStep, ShownStep DEF IndInv
  <1> QED BY InitInd, <1>1, PTL DEF Spec

\* The maps, the handlers and the store keep their shape.
THEOREM TypeCorrect == Spec => []TypeOK
  BY Invariance, PTL DEF IndInv

\* An approval the owner saw confirmed outlives failed writes and crashes, and nobody is
\* served without one (ApproveByOTP, persist, the gate of handleMessage).
THEOREM ApprovalsLast == Spec => []ApprovalIsDurable
  BY Invariance, PTL DEF IndInv, StoreInv

\* A code that was sent admits its user until an owner has used it, unless the daemon died
\* before any persist had written it (GetOrCreateOTP, persist, New).
THEOREM CodesWork == Spec => []HeldCodesWork
  BY Invariance, PTL DEF IndInv, StoreInv

\* getOrCreateSession gives a chat one session, and /clean always replaces the one it closed.
THEOREM OneSessionPerChat == Spec => []ChatHasOneSession
  BY Invariance, PTL DEF IndInv

\* A handled message ends with its result in the chat (turnHandler, sendMessages).
THEOREM ResultsAreShown == Spec => []ResultIsShown
  BY Invariance, PTL DEF IndInv
=============================================================================
