---------------------------- MODULE DaemonProofs ----------------------------
(***************************************************************************)
(* Safety of Daemon for any number of processes, commands and crashes.     *)
(***************************************************************************)
EXTENDS Daemon, TLAPS

\* Where Run has the listener open, may have accepted connections, and may own the socket.
HasListener == {"setup", "run", "drain", "close"}
HasConns    == {"run", "drain", "close", "close_wait"}
HasSocket   == {"setup"} \cup HasConns \cup {"unlink"}

\* A command has a connection exactly between its dial and its reply; one that is not yet
\* accepted leads to a listener that is open. restart polls less than MaxPolls times.
CommandInv ==
  \A c \in Commands :
    /\ cli[c] \in {"sent", "open"} <=> link[c] # None
    /\ cli[c] = "open" => c \in accepted
    /\ link[c] # None /\ c \notin accepted => link[c] \in listening
    /\ cli[c] = "poll" => polls[c] < MaxPolls
    /\ cli[c] \in {"idle", "check", "dial", "sent", "open"} => polls[c] = 0

\* Where Run is says what a process may still have.
ProcessInv ==
  /\ \A d \in listening : main[d] \in HasListener
  /\ \A c \in accepted : main[link[c]] \in HasConns
  /\ \A d \in crashed : main[d] = "dead"

\* Who is named by a file is alive, and past the write of that file, or was killed.
FileInv ==
  \A d \in Daemons :
    /\ sock = d => main[d] \in HasSocket \/ d \in crashed
    /\ pidFile = d => main[d] # "off" /\ (main[d] = "dead" => d \in crashed)

\* Without an overlap one process is alive at a time, and the files it has written stay.
SoleInv ==
  ~overlapped =>
    /\ \A d, e \in Daemons : Alive(d) /\ Alive(e) => d = e
    /\ \A d \in Daemons : main[d] = "fill_pid" => pidFile = Empty
    /\ \A d \in Daemons : main[d] \in {"stale", "listen", "setup", "run"} => pidFile = d
    /\ \A d \in Daemons : main[d] = "setup" \/ (main[d] = "run" /\ d \notin ctx) =>
         sock = d /\ d \in listening

IndInv == TypeOK /\ CommandInv /\ ProcessInv /\ FileInv /\ SoleInv

USE DaemonAssumption DEF HasListener, HasConns, HasSocket

\* Before any command no file is there and nothing runs.
LEMMA InitInd == Init => IndInv
  <1> SUFFICES ASSUME Init PROVE IndInv
    OBVIOUS
  <1> USE DEF Init
  <1>1. TypeOK
    <2>1. main \in [Daemons -> Points] /\ cli \in [Commands -> CliSteps] /\ kind \in [Commands -> Kinds]
      BY DEF Points, CliSteps, Kinds
    <2>2. link \in [Commands -> Daemons \cup {None}] /\ polls \in [Commands -> 0 .. MaxPolls]
      OBVIOUS
    <2> QED BY <2>1, <2>2 DEF TypeOK
  <1>2. CommandInv
    BY DEF CommandInv
  <1>3. ProcessInv /\ FileInv
    BY DEF ProcessInv, FileInv
  <1>4. SoleInv
    BY DEF SoleInv, Alive
  <1> QED BY <1>1, <1>2, <1>3, <1>4 DEF IndInv

\* No step takes a variable out of its type.
LEMMA TypeStep == IndInv /\ [Next]_vars => TypeOK'
  <1> SUFFICES ASSUME IndInv, [Next]_vars PROVE TypeOK'
    OBVIOUS
  <1>0. TypeOK /\ CommandInv /\ ProcessInv
    BY DEF IndInv
  <1> USE DEF fileVars, processVars, commandVars, Goto, CliGoto, Alive,
              TypeOK, CommandInv, ProcessInv, Points, Starting, Leaving, CliSteps, Kinds
  <1>1. ASSUME NEW d \in Daemons, WritePID(d) PROVE TypeOK'
    BY <1>0, <1>1 DEF WritePID
  <1>2. ASSUME NEW d \in Daemons, RemoveStale(d) PROVE TypeOK'
    BY <1>0, <1>2 DEF RemoveStale
  <1>3. ASSUME NEW d \in Daemons, Listen(d) PROVE TypeOK'
    BY <1>0, <1>3 DEF Listen
  <1>4. ASSUME NEW d \in Daemons, Setup(d) PROVE TypeOK'
    BY <1>0, <1>4 DEF Setup
  <1>5. ASSUME NEW d \in Daemons, Drain(d) PROVE TypeOK'
    BY <1>0, <1>5 DEF Drain
  <1>6. ASSUME NEW d \in Daemons, Close(d) PROVE TypeOK'
    BY <1>0, <1>6 DEF Close, CloseListener
  <1>7. ASSUME NEW d \in Daemons, CloseWait(d) PROVE TypeOK'
    BY <1>0, <1>7 DEF CloseWait, Conns
  <1>8. ASSUME NEW d \in Daemons, Unlink(d) PROVE TypeOK'
    BY <1>0, <1>8 DEF Unlink
  <1>9. ASSUME NEW d \in Daemons, Exec(d) PROVE TypeOK'
    BY <1>0, <1>9 DEF Exec
  <1>10. ASSUME NEW d \in Daemons, RemovePID(d) PROVE TypeOK'
    BY <1>0, <1>10 DEF RemovePID
  <1>11. ASSUME NEW d \in Daemons, Leave(d) PROVE TypeOK'
    BY <1>0, <1>11 DEF Leave
  <1>12. ASSUME NEW d \in Daemons, StopFires(d) PROVE TypeOK'
    BY <1>0, <1>12 DEF StopFires
  <1>13. ASSUME NEW d \in Daemons, UpdateDone(d) PROVE TypeOK'
    BY <1>0, <1>13 DEF UpdateDone
  <1>14. ASSUME NEW d \in Daemons, ServeEnds(d) PROVE TypeOK'
    BY <1>0, <1>14 DEF ServeEnds, CloseListener, Accepting
  <1>15. ASSUME NEW d \in Daemons, Crash(d) PROVE TypeOK'
    BY <1>0, <1>15 DEF Crash, Conns
  <1>16. ASSUME NEW c \in Commands, Check(c) PROVE TypeOK'
    BY <1>0, <1>16 DEF Check
  <1>17. ASSUME NEW c \in Commands, Dial(c) PROVE TypeOK'
    BY <1>0, <1>17 DEF Dial
  <1>18. ASSUME NEW c \in Commands, Accept(c) PROVE TypeOK'
    BY <1>0, <1>18 DEF Accept, Accepting
  <1>19. ASSUME NEW c \in Commands, Handle(c) PROVE TypeOK'
    BY <1>0, <1>19 DEF Handle
  <1>20. ASSUME NEW c \in Commands, HandleChat(c) PROVE TypeOK'
    BY <1>0, <1>20 DEF HandleChat
  <1>21. ASSUME NEW c \in Commands, Poll(c) PROVE TypeOK'
    BY <1>0, <1>21 DEF Poll
  <1>22. ASSUME NEW c \in Commands, SpawnFails(c) PROVE TypeOK'
    BY <1>0, <1>22 DEF SpawnFails
  <1>23. ASSUME NEW c \in Commands, Disconnect(c) PROVE TypeOK'
    BY <1>0, <1>23 DEF Disconnect
  <1>24. ASSUME NEW c \in Commands, NEW d \in Daemons, Spawn(c, d) PROVE TypeOK'
    BY <1>0, <1>24 DEF Spawn
  <1>25. ASSUME NEW c \in Commands, NEW k \in Kinds, Begin(c, k) PROVE TypeOK'
    BY <1>0, <1>25 DEF Begin
  <1>26. CASE UNCHANGED vars
    BY <1>0, <1>26 DEF vars
  <1>27. ASSUME NEW d \in Daemons, TruncatePID(d) PROVE TypeOK'
    BY <1>0, <1>27 DEF TruncatePID
  <1> QED
    BY <1>1, <1>2, <1>3, <1>4, <1>5, <1>6, <1>7, <1>8, <1>9, <1>10, <1>11, <1>12, <1>13,
       <1>14, <1>15, <1>16, <1>17, <1>18, <1>19, <1>20, <1>21, <1>22, <1>23, <1>24, <1>25, <1>26, <1>27
    DEF Next, RunStep, CommandStep, Over

\* Commands keep the connections they are where they are for.
LEMMA CommandInvStep == IndInv /\ [Next]_vars => CommandInv'
  <1> SUFFICES ASSUME IndInv, [Next]_vars PROVE CommandInv'
    OBVIOUS
  <1>0. TypeOK /\ CommandInv /\ ProcessInv /\ TypeOK'
    BY TypeStep DEF IndInv
  <1> USE DEF fileVars, processVars, commandVars, Goto, CliGoto, Alive,
              TypeOK, CommandInv, ProcessInv, Kinds
  <1>1. ASSUME NEW d \in Daemons, WritePID(d) PROVE CommandInv'
    BY <1>0, <1>1 DEF WritePID
  <1>2. ASSUME NEW d \in Daemons, RemoveStale(d) PROVE CommandInv'
    BY <1>0, <1>2 DEF RemoveStale
  <1>3. ASSUME NEW d \in Daemons, Listen(d) PROVE CommandInv'
    BY <1>0, <1>3 DEF Listen
  <1>4. ASSUME NEW d \in Daemons, Setup(d) PROVE CommandInv'
    BY <1>0, <1>4 DEF Setup
  <1>5. ASSUME NEW d \in Daemons, Drain(d) PROVE CommandInv'
    BY <1>0, <1>5 DEF Drain
  <1>6. ASSUME NEW d \in Daemons, Close(d) PROVE CommandInv'
    BY <1>0, <1>6 DEF Close, CloseListener
  <1>7. ASSUME NEW d \in Daemons, CloseWait(d) PROVE CommandInv'
    BY <1>0, <1>7 DEF CloseWait, Conns
  <1>8. ASSUME NEW d \in Daemons, Unlink(d) PROVE CommandInv'
    BY <1>0, <1>8 DEF Unlink
  <1>9. ASSUME NEW d \in Daemons, Exec(d) PROVE CommandInv'
    BY <1>0, <1>9 DEF Exec
  <1>10. ASSUME NEW d \in Daemons, RemovePID(d) PROVE CommandInv'
    BY <1>0, <1>10 DEF RemovePID
  <1>11. ASSUME NEW d \in Daemons, Leave(d) PROVE CommandInv'
    BY <1>0, <1>11 DEF Leave
  <1>12. ASSUME NEW d \in Daemons, StopFires(d) PROVE CommandInv'
    BY <1>0, <1>12 DEF StopFires
  <1>13. ASSUME NEW d \in Daemons, UpdateDone(d) PROVE CommandInv'
    BY <1>0, <1>13 DEF UpdateDone
  <1>14. ASSUME NEW d \in Daemons, ServeEnds(d) PROVE CommandInv'
    BY <1>0, <1>14 DEF ServeEnds, CloseListener, Accepting
  <1>15. ASSUME NEW d \in Daemons, Crash(d) PROVE CommandInv'
    BY <1>0, <1>15 DEF Crash, Conns
  <1>16. ASSUME NEW c \in Commands, Check(c) PROVE CommandInv'
    BY <1>0, <1>16 DEF Check
  <1>17. ASSUME NEW c \in Commands, Dial(c) PROVE CommandInv'
    BY <1>0, <1>17 DEF Dial
  <1>18. ASSUME NEW c \in Commands, Accept(c) PROVE CommandInv'
    BY <1>0, <1>18 DEF Accept, Accepting
  <1>19. ASSUME NEW c \in Commands, Handle(c) PROVE CommandInv'
    BY <1>0, <1>19 DEF Handle
  <1>20. ASSUME NEW c \in Commands, HandleChat(c) PROVE CommandInv'
    BY <1>0, <1>20 DEF HandleChat
  <1>21. ASSUME NEW c \in Commands, Poll(c) PROVE CommandInv'
    BY <1>0, <1>21 DEF Poll
  <1>22. ASSUME NEW c \in Commands, SpawnFails(c) PROVE CommandInv'
    BY <1>0, <1>22 DEF SpawnFails
  <1>23. ASSUME NEW c \in Commands, Disconnect(c) PROVE CommandInv'
    BY <1>0, <1>23 DEF Disconnect
  <1>24. ASSUME NEW c \in Commands, NEW d \in Daemons, Spawn(c, d) PROVE CommandInv'
    BY <1>0, <1>24 DEF Spawn
  <1>25. ASSUME NEW c \in Commands, NEW k \in Kinds, Begin(c, k) PROVE CommandInv'
    BY <1>0, <1>25 DEF Begin
  <1>26. CASE UNCHANGED vars
    BY <1>0, <1>26 DEF vars
  <1>27. ASSUME NEW d \in Daemons, TruncatePID(d) PROVE CommandInv'
    BY <1>0, <1>27 DEF TruncatePID
  <1> QED
    BY <1>1, <1>2, <1>3, <1>4, <1>5, <1>6, <1>7, <1>8, <1>9, <1>10, <1>11, <1>12, <1>13,
       <1>14, <1>15, <1>16, <1>17, <1>18, <1>19, <1>20, <1>21, <1>22, <1>23, <1>24, <1>25, <1>26, <1>27
    DEF Next, RunStep, CommandStep, Over

\* Listeners are open, and connections accepted, only where Run serves.
LEMMA ProcessInvStep == IndInv /\ [Next]_vars => ProcessInv'
  <1> SUFFICES ASSUME IndInv, [Next]_vars PROVE ProcessInv'
    OBVIOUS
  <1>0. TypeOK /\ CommandInv /\ ProcessInv /\ TypeOK'
    BY TypeStep DEF IndInv
  <1> USE DEF fileVars, processVars, commandVars, Goto, CliGoto, Alive,
              TypeOK, CommandInv, ProcessInv, Starting, Points, Leaving
  <1>1. ASSUME NEW d \in Daemons, WritePID(d) PROVE ProcessInv'
    BY <1>0, <1>1 DEF WritePID
  <1>2. ASSUME NEW d \in Daemons, RemoveStale(d) PROVE ProcessInv'
    BY <1>0, <1>2 DEF RemoveStale
  <1>3. ASSUME NEW d \in Daemons, Listen(d) PROVE ProcessInv'
    BY <1>0, <1>3 DEF Listen
  <1>4. ASSUME NEW d \in Daemons, Setup(d) PROVE ProcessInv'
    BY <1>0, <1>4 DEF Setup
  <1>5. ASSUME NEW d \in Daemons, Drain(d) PROVE ProcessInv'
    BY <1>0, <1>5 DEF Drain
  <1>6. ASSUME NEW d \in Daemons, Close(d) PROVE ProcessInv'
    BY <1>0, <1>6 DEF Close, CloseListener
  <1>7. ASSUME NEW d \in Daemons, CloseWait(d) PROVE ProcessInv'
    BY <1>0, <1>7 DEF CloseWait, Conns
  <1>8. ASSUME NEW d \in Daemons, Unlink(d) PROVE ProcessInv'
    BY <1>0, <1>8 DEF Unlink
  <1>9. ASSUME NEW d \in Daemons, Exec(d) PROVE ProcessInv'
    BY <1>0, <1>9 DEF Exec
  <1>10. ASSUME NEW d \in Daemons, RemovePID(d) PROVE ProcessInv'
    BY <1>0, <1>10 DEF RemovePID
  <1>11. ASSUME NEW d \in Daemons, Leave(d) PROVE ProcessInv'
    BY <1>0, <1>11 DEF Leave
  <1>12. ASSUME NEW d \in Daemons, StopFires(d) PROVE ProcessInv'
    BY <1>0, <1>12 DEF StopFires
  <1>13. ASSUME NEW d \in Daemons, UpdateDone(d) PROVE ProcessInv'
    BY <1>0, <1>13 DEF UpdateDone
  <1>14. ASSUME NEW d \in Daemons, ServeEnds(d) PROVE ProcessInv'
    BY <1>0, <1>14 DEF ServeEnds, CloseListener, Accepting
  <1>15. ASSUME NEW d \in Daemons, Crash(d) PROVE ProcessInv'
    BY <1>0, <1>15 DEF Crash, Conns
  <1>16. ASSUME NEW c \in Commands, Check(c) PROVE ProcessInv'
    BY <1>0, <1>16 DEF Check
  <1>17. ASSUME NEW c \in Commands, Dial(c) PROVE ProcessInv'
    BY <1>0, <1>17 DEF Dial
  <1>18. ASSUME NEW c \in Commands, Accept(c) PROVE ProcessInv'
    BY <1>0, <1>18 DEF Accept, Accepting
  <1>19. ASSUME NEW c \in Commands, Handle(c) PROVE ProcessInv'
    BY <1>0, <1>19 DEF Handle
  <1>20. ASSUME NEW c \in Commands, HandleChat(c) PROVE ProcessInv'
    BY <1>0, <1>20 DEF HandleChat
  <1>21. ASSUME NEW c \in Commands, Poll(c) PROVE ProcessInv'
    BY <1>0, <1>21 DEF Poll
  <1>22. ASSUME NEW c \in Commands, SpawnFails(c) PROVE ProcessInv'
    BY <1>0, <1>22 DEF SpawnFails
  <1>23. ASSUME NEW c \in Commands, Disconnect(c) PROVE ProcessInv'
    BY <1>0, <1>23 DEF Disconnect
  <1>24. ASSUME NEW c \in Commands, NEW d \in Daemons, Spawn(c, d) PROVE ProcessInv'
    BY <1>0, <1>24 DEF Spawn
  <1>25. ASSUME NEW c \in Commands, NEW k \in Kinds, Begin(c, k) PROVE ProcessInv'
    BY <1>0, <1>25 DEF Begin
  <1>26. CASE UNCHANGED vars
    BY <1>0, <1>26 DEF vars
  <1>27. ASSUME NEW d \in Daemons, TruncatePID(d) PROVE ProcessInv'
    BY <1>0, <1>27 DEF TruncatePID
  <1> QED
    BY <1>1, <1>2, <1>3, <1>4, <1>5, <1>6, <1>7, <1>8, <1>9, <1>10, <1>11, <1>12, <1>13,
       <1>14, <1>15, <1>16, <1>17, <1>18, <1>19, <1>20, <1>21, <1>22, <1>23, <1>24, <1>25, <1>26, <1>27
    DEF Next, RunStep, CommandStep, Over

\* Each way out of Run removes what the process has written.
LEMMA FileInvStep == IndInv /\ [Next]_vars => FileInv'
  <1> SUFFICES ASSUME IndInv, [Next]_vars PROVE FileInv'
    OBVIOUS
  <1>0. TypeOK /\ ProcessInv /\ FileInv /\ TypeOK'
    BY TypeStep DEF IndInv
  <1> USE DEF fileVars, processVars, commandVars, Goto, CliGoto, Alive,
              TypeOK, ProcessInv, FileInv
  <1>1. ASSUME NEW d \in Daemons, WritePID(d) PROVE FileInv'
    BY <1>0, <1>1 DEF WritePID
  <1>2. ASSUME NEW d \in Daemons, RemoveStale(d) PROVE FileInv'
    BY <1>0, <1>2 DEF RemoveStale
  <1>3. ASSUME NEW d \in Daemons, Listen(d) PROVE FileInv'
    BY <1>0, <1>3 DEF Listen
  <1>4. ASSUME NEW d \in Daemons, Setup(d) PROVE FileInv'
    BY <1>0, <1>4 DEF Setup
  <1>5. ASSUME NEW d \in Daemons, Drain(d) PROVE FileInv'
    BY <1>0, <1>5 DEF Drain
  <1>6. ASSUME NEW d \in Daemons, Close(d) PROVE FileInv'
    BY <1>0, <1>6 DEF Close, CloseListener
  <1>7. ASSUME NEW d \in Daemons, CloseWait(d) PROVE FileInv'
    BY <1>0, <1>7 DEF CloseWait, Conns
  <1>8. ASSUME NEW d \in Daemons, Unlink(d) PROVE FileInv'
    BY <1>0, <1>8 DEF Unlink
  <1>9. ASSUME NEW d \in Daemons, Exec(d) PROVE FileInv'
    BY <1>0, <1>9 DEF Exec
  <1>10. ASSUME NEW d \in Daemons, RemovePID(d) PROVE FileInv'
    BY <1>0, <1>10 DEF RemovePID
  <1>11. ASSUME NEW d \in Daemons, Leave(d) PROVE FileInv'
    BY <1>0, <1>11 DEF Leave
  <1>12. ASSUME NEW d \in Daemons, StopFires(d) PROVE FileInv'
    BY <1>0, <1>12 DEF StopFires
  <1>13. ASSUME NEW d \in Daemons, UpdateDone(d) PROVE FileInv'
    BY <1>0, <1>13 DEF UpdateDone
  <1>14. ASSUME NEW d \in Daemons, ServeEnds(d) PROVE FileInv'
    BY <1>0, <1>14 DEF ServeEnds, CloseListener, Accepting
  <1>15. ASSUME NEW d \in Daemons, Crash(d) PROVE FileInv'
    BY <1>0, <1>15 DEF Crash, Conns
  <1>16. ASSUME NEW c \in Commands, Check(c) PROVE FileInv'
    BY <1>0, <1>16 DEF Check
  <1>17. ASSUME NEW c \in Commands, Dial(c) PROVE FileInv'
    BY <1>0, <1>17 DEF Dial
  <1>18. ASSUME NEW c \in Commands, Accept(c) PROVE FileInv'
    BY <1>0, <1>18 DEF Accept, Accepting
  <1>19. ASSUME NEW c \in Commands, Handle(c) PROVE FileInv'
    BY <1>0, <1>19 DEF Handle
  <1>20. ASSUME NEW c \in Commands, HandleChat(c) PROVE FileInv'
    BY <1>0, <1>20 DEF HandleChat
  <1>21. ASSUME NEW c \in Commands, Poll(c) PROVE FileInv'
    BY <1>0, <1>21 DEF Poll
  <1>22. ASSUME NEW c \in Commands, SpawnFails(c) PROVE FileInv'
    BY <1>0, <1>22 DEF SpawnFails
  <1>23. ASSUME NEW c \in Commands, Disconnect(c) PROVE FileInv'
    BY <1>0, <1>23 DEF Disconnect
  <1>24. ASSUME NEW c \in Commands, NEW d \in Daemons, Spawn(c, d) PROVE FileInv'
    BY <1>0, <1>24 DEF Spawn
  <1>25. ASSUME NEW c \in Commands, NEW k \in Kinds, Begin(c, k) PROVE FileInv'
    BY <1>0, <1>25 DEF Begin
  <1>26. CASE UNCHANGED vars
    BY <1>0, <1>26 DEF vars
  <1>27. ASSUME NEW d \in Daemons, TruncatePID(d) PROVE FileInv'
    BY <1>0, <1>27 DEF TruncatePID
  <1> QED
    BY <1>1, <1>2, <1>3, <1>4, <1>5, <1>6, <1>7, <1>8, <1>9, <1>10, <1>11, <1>12, <1>13,
       <1>14, <1>15, <1>16, <1>17, <1>18, <1>19, <1>20, <1>21, <1>22, <1>23, <1>24, <1>25, <1>26, <1>27
    DEF Next, RunStep, CommandStep, Over

\* Nobody else disturbs the files of a daemon that is alone.
LEMMA SoleInvStep == IndInv /\ [Next]_vars => SoleInv'
  <1> SUFFICES ASSUME IndInv, [Next]_vars PROVE SoleInv'
    OBVIOUS
  <1>0. TypeOK /\ ProcessInv /\ SoleInv /\ TypeOK'
    BY TypeStep DEF IndInv
  <1> USE DEF fileVars, processVars, commandVars, Goto, CliGoto, Alive,
              TypeOK, ProcessInv, SoleInv, Points, Starting, Leaving
  <1>1. ASSUME NEW d \in Daemons, WritePID(d) PROVE SoleInv'
    BY <1>0, <1>1 DEF WritePID
  <1>2. ASSUME NEW d \in Daemons, RemoveStale(d) PROVE SoleInv'
    BY <1>0, <1>2 DEF RemoveStale
  <1>3. ASSUME NEW d \in Daemons, Listen(d) PROVE SoleInv'
    BY <1>0, <1>3 DEF Listen
  <1>4. ASSUME NEW d \in Daemons, Setup(d) PROVE SoleInv'
    BY <1>0, <1>4 DEF Setup
  <1>5. ASSUME NEW d \in Daemons, Drain(d) PROVE SoleInv'
    BY <1>0, <1>5 DEF Drain
  <1>6. ASSUME NEW d \in Daemons, Close(d) PROVE SoleInv'
    BY <1>0, <1>6 DEF Close, CloseListener
  <1>7. ASSUME NEW d \in Daemons, CloseWait(d) PROVE SoleInv'
    BY <1>0, <1>7 DEF CloseWait, Conns
  <1>8. ASSUME NEW d \in Daemons, Unlink(d) PROVE SoleInv'
    BY <1>0, <1>8 DEF Unlink
  <1>9. ASSUME NEW d \in Daemons, Exec(d) PROVE SoleInv'
    BY <1>0, <1>9 DEF Exec
  <1>10. ASSUME NEW d \in Daemons, RemovePID(d) PROVE SoleInv'
    BY <1>0, <1>10 DEF RemovePID
  <1>11. ASSUME NEW d \in Daemons, Leave(d) PROVE SoleInv'
    BY <1>0, <1>11 DEF Leave
  <1>12. ASSUME NEW d \in Daemons, StopFires(d) PROVE SoleInv'
    BY <1>0, <1>12 DEF StopFires
  <1>13. ASSUME NEW d \in Daemons, UpdateDone(d) PROVE SoleInv'
    BY <1>0, <1>13 DEF UpdateDone
  <1>14. ASSUME NEW d \in Daemons, ServeEnds(d) PROVE SoleInv'
    BY <1>0, <1>14 DEF ServeEnds, CloseListener, Accepting
  <1>15. ASSUME NEW d \in Daemons, Crash(d) PROVE SoleInv'
    BY <1>0, <1>15 DEF Crash, Conns
  <1>16. ASSUME NEW c \in Commands, Check(c) PROVE SoleInv'
    BY <1>0, <1>16 DEF Check
  <1>17. ASSUME NEW c \in Commands, Dial(c) PROVE SoleInv'
    BY <1>0, <1>17 DEF Dial
  <1>18. ASSUME NEW c \in Commands, Accept(c) PROVE SoleInv'
    BY <1>0, <1>18 DEF Accept, Accepting
  <1>19. ASSUME NEW c \in Commands, Handle(c) PROVE SoleInv'
    BY <1>0, <1>19 DEF Handle
  <1>20. ASSUME NEW c \in Commands, HandleChat(c) PROVE SoleInv'
    BY <1>0, <1>20 DEF HandleChat
  <1>21. ASSUME NEW c \in Commands, Poll(c) PROVE SoleInv'
    BY <1>0, <1>21 DEF Poll
  <1>22. ASSUME NEW c \in Commands, SpawnFails(c) PROVE SoleInv'
    BY <1>0, <1>22 DEF SpawnFails
  <1>23. ASSUME NEW c \in Commands, Disconnect(c) PROVE SoleInv'
    BY <1>0, <1>23 DEF Disconnect
  <1>24. ASSUME NEW c \in Commands, NEW d \in Daemons, Spawn(c, d) PROVE SoleInv'
    <2> SUFFICES ASSUME ~overlapped' PROVE SoleInv'
      OBVIOUS
    <2>1. main' = [main EXCEPT ![d] = "write_pid"] /\ pidFile' = pidFile /\ main \in [Daemons -> Points]
      BY <1>0, <1>24 DEF Spawn
    <2>2. \A e \in Daemons : main[e] \in {"off", "dead"}
      BY <1>24 DEF Spawn
    <2>3. \A e \in Daemons \ {d} : main'[e] \in {"off", "dead"}
      BY <2>1, <2>2
    <2>4. main'[d] = "write_pid"
      BY <2>1
    <2> QED BY <2>3, <2>4
  <1>25. ASSUME NEW c \in Commands, NEW k \in Kinds, Begin(c, k) PROVE SoleInv'
    BY <1>0, <1>25 DEF Begin
  <1>26. CASE UNCHANGED vars
    BY <1>0, <1>26 DEF vars
  <1>27. ASSUME NEW d \in Daemons, TruncatePID(d) PROVE SoleInv'
    BY <1>0, <1>27 DEF TruncatePID
  <1> QED
    BY <1>1, <1>2, <1>3, <1>4, <1>5, <1>6, <1>7, <1>8, <1>9, <1>10, <1>11, <1>12, <1>13,
       <1>14, <1>15, <1>16, <1>17, <1>18, <1>19, <1>20, <1>21, <1>22, <1>23, <1>24, <1>25, <1>26, <1>27
    DEF Next, RunStep, CommandStep, Over

-----------------------------------------------------------------------------
(* The theorems                                                            *)

\* Every state of any number of daemons and commands satisfies IndInv.
THEOREM Invariance == Spec => []IndInv
  <1>1. IndInv /\ [Next]_vars => IndInv'
    BY TypeStep, CommandInvStep, ProcessInvStep, FileInvStep, SoleInvStep DEF IndInv
  <1> QED BY InitInd, <1>1, PTL DEF Spec

\* Processes, files and commands keep their shape.
THEOREM TypeCorrect == Spec => []TypeOK
  BY Invariance, PTL DEF IndInv

\* While daemons do not overlap, the PID file and the socket lead to the one that serves
\* (Run, IsRunning, SendCommand).
THEOREM FilesAreRight == Spec => []FilesNameTheDaemon
  <1>1. IndInv => FilesNameTheDaemon
    BY DEF IndInv, SoleInv, FilesNameTheDaemon
  <1> QED BY Invariance, <1>1, PTL

\* A daemon that ends by itself leaves no file behind, on any path out of Run.
THEOREM ExitsAreClean == Spec => []CleanExit
  <1>1. IndInv => CleanExit
    BY DEF IndInv, FileInv, CleanExit
  <1> QED BY Invariance, <1>1, PTL

\* SocketServer.Close lets every accepted connection end before the process does.
THEOREM ConnectionsEnd == Spec => []NoConnectionIsCut
  <1>1. IndInv => NoConnectionIsCut
    BY DEF IndInv, ProcessInv, NoConnectionIsCut, Conns, Starting
  <1> QED BY Invariance, <1>1, PTL
=============================================================================
