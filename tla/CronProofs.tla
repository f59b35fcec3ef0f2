----------------------------- MODULE CronProofs -----------------------------
(***************************************************************************)
(* Safety of Cron for any number of jobs, commands, executions and edits.  *)
(***************************************************************************)
EXTENDS Cron, NumberFacts, TLAPS

\* A command that reads or writes a file has its name, an execution that runs has its job. Its
\* result file has a second from the moment it is opened.
NameInv ==
  /\ \A g \in Ops : pc[g] \in {"check", "reread", "truncate", "write", "remove"} => op[g].name \in Names
  /\ \A r \in Runs : /\ run[r].phase \in {"generate", "report"} \/ Opened(r) => run[r].name \in Names
                     /\ run[r].phase \in {"idle", "generate", "report"} => ~Opened(r)
                     /\ Holds(r) => Opened(r) /\ r \notin wrote
                     /\ r \in wrote => Opened(r)

\* A command has changed the file of n and its reload is still to come.
Pending(n) == \E g \in Ops : pc[g] \in {"write", "ask", "lock"} /\ op[g].name = n

\* What a reload makes of a file it may not find.
Mirrored(c) == IF c = Absent THEN NoEntry ELSE EntryOf(c)

\* A file nobody is about to reload is as the scheduler knows it. During a reload this holds
\* of what has been read, and a file still to be read has not disappeared.
Mirror ==
  ~stale => \A n \in Names : ~Pending(n) =>
    /\ mu = None => entries[n] = Mirrored(files[n])
    /\ mu # None /\ n \in todo => files[n] # Absent
    /\ mu # None /\ n \notin todo => got[n] = Mirrored(files[n])

\* Two executions share a file that was open twice at once. Any other file has one writer at a
\* time, who finds it empty; it holds a whole result when nobody has it open and nobody failed.
FileInv(f) ==
  IF f \in overlapped
  THEN \E q, r \in Sharing(f) : q # r
  ELSE /\ \A q, r \in Sharing(f) : Holds(q) /\ Holds(r) => q = r
       /\ \A r \in Sharing(f) : Holds(r) => results[f].state = "empty"
       /\ Sharing(f) # {} /\ Sharing(f) \subseteq wrote => \E r \in Sharing(f) : results[f] = Whole(r)

\* A written result is in its file unless the file is shared.
KeptInv(r) == r \in wrote => results[FileOf(r)] = Whole(r) \/ \E q \in Sharing(FileOf(r)) : q # r

ResultInv == (\A f \in ResultFiles : FileInv(f)) /\ (\A r \in Runs : KeptInv(r))

IndInv == TypeOK /\ NameInv /\ Mirror /\ ResultInv

-----------------------------------------------------------------------------
(* The operators of the model                                              *)

\* ReloadRead reads a file of the listing.
LEMMA MinIsIn == ASSUME NEW S \in SUBSET Names, S # {} PROVE Min(S) \in S
  BY LeastNumber, CronAssumption DEF Min

\* What files may contain, field by field, and what the commands write.
LEMMA ContentFields ==
  /\ Absent \in Contents /\ Empty \in Contents /\ Torn \in Contents /\ Broken \in Contents
  /\ \A v \in Versions : Serialize(v) \in Contents
  /\ \A c \in Contents : \A b \in BOOLEAN : c.kind \in {"job", "broken"} => SetSuspended(c, b) \in Contents
  /\ \A c \in Contents : /\ c.suspended \in BOOLEAN /\ (c.suspended => c.kind = "job")
                         /\ c.version \in Versions \cup {None}
  <1>1. Absent \in Contents /\ Empty \in Contents /\ Torn \in Contents /\ Broken \in Contents
    BY DEF Contents
  <1>2. \A v \in Versions : Serialize(v) \in Contents
    BY DEF Contents, Jobs, JobsOf, Serialize
  <1>3. ASSUME NEW c \in Contents PROVE /\ c.suspended \in BOOLEAN /\ (c.suspended => c.kind = "job")
                                        /\ c.version \in Versions \cup {None}
    <2>1. CASE c \in Jobs
      BY <2>1 DEF Jobs, JobsOf
    <2>2. CASE c \in {Absent, Empty, Torn, Broken}
      <3>1. c.suspended = FALSE /\ c.version = None
        BY <2>2 DEF Absent, Empty, Torn, Broken
      <3> QED BY <3>1
    <2> QED BY <2>1, <2>2 DEF Contents
  <1>4. ASSUME NEW c \in Contents, NEW b \in BOOLEAN, c.kind \in {"job", "broken"}
        PROVE  SetSuspended(c, b) \in Contents
    <2>1. c = Broken \/ c \in Jobs
      BY <1>4 DEF Contents, Absent, Empty, Torn
    <2>2. c \in Jobs => [c EXCEPT !.suspended = b] \in Jobs
      BY DEF Jobs, JobsOf
    <2> QED BY <1>1, <2>1, <2>2 DEF SetSuspended, Contents
  <1> QED BY <1>1, <1>2, <1>3, <1>4

\* Overlapping writes leave a file that can be read like any other, and what is edited too.
LEMMA BlendFields ==
  /\ \A c \in Contents : Blends(c) \subseteq Contents
  /\ JobsOf(Authored) \cup {Absent, Broken} \subseteq Contents
  <1>1. \A c \in Contents : Blends(c) \subseteq Contents
    BY DEF Blends, Contents
  <1>2. JobsOf(Authored) \subseteq Jobs
    BY CronAssumption DEF Jobs, JobsOf
  <1> QED BY <1>1, <1>2 DEF Contents

\* An entry is made of any file, and it is not the one that says there is no file.
LEMMA EntryFields ==
  /\ NoEntry \in Entries
  /\ \A c \in Contents :
       /\ EntryOf(c) \in Entries /\ EntryOf(c) # NoEntry
       /\ EntryOf(c).version = c.version
       /\ EntryOf(c).status = "running" <=> c.kind = "job" /\ ~c.suspended /\ c.version \notin Invalid
       /\ EntryOf(c).status = "suspended" <=> c.suspended
  BY ContentFields DEF Entries, NoEntry, EntryOf, Parses

\* Requests and executions keep their shape when a field is set.
LEMMA RecordFields ==
  /\ NoOp \in Requests /\ NoRun \in Executions
  /\ \A k \in DOMAIN FirstStep, n \in Names \cup {None} :
       [kind |-> k, name |-> n, content |-> Absent] \in Requests
  /\ \A q \in Requests, n \in Names \cup {None}, c \in Contents :
       /\ [q EXCEPT !.name = n, !.content = c] \in Requests
       /\ [q EXCEPT !.content = c] \in Requests
  /\ \A n \in Names, s \in {"scheduled", "manual"}, b \in BOOLEAN :
       [phase |-> "generate", name |-> n, source |-> s, timed |-> b, at |-> None] \in Executions
  /\ \A x \in Executions, t \in 0 .. MaxNow :
       /\ [x EXCEPT !.phase = "report"] \in Executions
       /\ [x EXCEPT !.phase = "write", !.at = t] \in Executions
       /\ [x EXCEPT !.phase = "done"] \in Executions
  /\ [NoRun EXCEPT !.phase = "done", !.source = "manual"] \in Executions
  BY ContentFields DEF Requests, Executions, NoOp, NoRun

\* Where a command begins.
LEMMA FirstSteps ==
  \A k \in DOMAIN FirstStep :
    /\ FirstStep[k] \in {"form_name", "remove", "ask", "check"}
    /\ k \in {"add", "reload"} <=> FirstStep[k] \in {"form_name", "ask"}
  BY DEF FirstStep

USE CronAssumption

-----------------------------------------------------------------------------
(* The invariant                                                           *)

\* LoadAndStart has read every file.
LEMMA InitInd == Init => IndInv
  <1> SUFFICES ASSUME Init PROVE IndInv
    OBVIOUS
  <1> USE DEF Init
  <1>1. files \in [Names -> Contents] /\ entries \in [Names -> Entries] /\ got \in [Names -> Entries]
    BY EntryFields, BlendFields
  <1>2. op \in [Ops -> Requests] /\ run \in [Runs -> Executions]
    BY RecordFields
  <1>3. TypeOK
    <2>1. results \in [ResultFiles -> Reports] /\ overlapped = {}
      BY DEF NoResult, Reports
    <2>2. pc \in [Ops -> Steps \cup Forms \cup {"idle", "done"}]
          /\ client \in [Runs -> {"none", "waiting", "told", "exited", "detached"}]
      OBVIOUS
    <2>3. \A g \in Ops : pc[g] = "load" <=> mu = g
      OBVIOUS
    <2>4. edits \in 0 .. MaxEdits /\ now \in 0 .. MaxNow /\ wrote = {} /\ todo = {} /\ mu = None
      OBVIOUS
    <2>5. stale \in BOOLEAN
      OBVIOUS
    <2> QED BY <1>1, <1>2, <2>1, <2>2, <2>3, <2>4, <2>5 DEF TypeOK
  <1>4. NameInv
    BY DEF NameInv, NoRun, Opened, Holds
  <1>5. Mirror
    BY DEF Mirror, Mirrored
  <1>6. ResultInv
    BY DEF ResultInv, FileInv, KeptInv, Sharing, Opened, NoRun
  <1> QED BY <1>3, <1>4, <1>5, <1>6 DEF IndInv

\* No step takes a variable out of its type.
LEMMA TypeStep == IndInv /\ [Next]_vars => TypeOK'
  <1> SUFFICES ASSUME IndInv, [Next]_vars PROVE TypeOK'
    OBVIOUS
  <1>0. TypeOK /\ NameInv
    BY DEF IndInv
  <1> USE DEF At, Goto, cmdVars, runVars, Name, TypeOK, NameInv, Steps, Forms
  <1>1. ASSUME NEW g \in Ops, NEW k \in DOMAIN FirstStep, NEW n \in Names, Invoke(g, k, n) PROVE TypeOK'
    <2>1. FirstStep[k] \in Steps \cup Forms /\ FirstStep[k] # "load" /\ pc[g] = "idle"
      BY <1>1, FirstSteps DEF Invoke, IsFirst, IdleOps
    <2>2. op' \in [Ops -> Requests]
      BY <1>0, <1>1, RecordFields DEF Invoke
    <2> QED BY <1>0, <1>1, <2>1, <2>2 DEF Invoke
  <1>2. ASSUME NEW g \in Ops, Form(g) PROVE TypeOK'
    BY <1>0, <1>2 DEF Form, FormStep
  <1>3. ASSUME NEW g \in Ops, NEW n \in Names, NEW v \in Versions, Confirm(g, n, v) PROVE TypeOK'
    <2>1. op' \in [Ops -> Requests]
      <3>1. op' = op \/ op' = [op EXCEPT ![g] = [op[g] EXCEPT !.name = n, !.content = Serialize(v)]]
        BY <1>3 DEF Confirm
      <3>2. [op[g] EXCEPT !.name = n, !.content = Serialize(v)] \in Requests
        BY <1>0, RecordFields, ContentFields
      <3> QED BY <1>0, <3>1, <3>2
    <2> QED BY <1>0, <1>3, <2>1 DEF Confirm
  <1>4. ASSUME NEW g \in Ops, Interrupt(g) PROVE TypeOK'
    BY <1>0, <1>4 DEF Interrupt
  <1>5. ASSUME NEW g \in Ops, Check(g) PROVE TypeOK'
    BY <1>0, <1>5 DEF Check
  <1>6. ASSUME NEW g \in Ops, Reread(g) PROVE TypeOK'
    <2>1. files[Name(g)] \in Contents
      BY <1>0, <1>6 DEF Reread
    <2>2. op' \in [Ops -> Requests]
      <3>1. CASE op' = op
        BY <1>0, <3>1
      <3>2. CASE op' # op
        <4> DEFINE c == SetSuspended(files[Name(g)], op[g].kind = "suspend")
        <4>1. c \in Contents
          BY <1>6, <2>1, <3>2, ContentFields DEF Reread
        <4>2. op' = [op EXCEPT ![g].content = c]
          BY <1>6, <3>2 DEF Reread
        <4> HIDE DEF c
        <4> QED BY <1>0, <4>1, <4>2, RecordFields
      <3> QED BY <3>1, <3>2
    <2>3. pc' = [pc EXCEPT ![g] = "truncate"] \/ pc' = [pc EXCEPT ![g] = "done"]
      BY <1>6 DEF Reread
    <2>4. UNCHANGED <<files, entries, mu, got, todo, runVars, stale, edits>> /\ pc[g] = "reread"
      BY <1>6 DEF Reread
    <2> QED BY <1>0, <2>2, <2>3, <2>4
  <1>7. ASSUME NEW g \in Ops, Truncate(g) PROVE TypeOK'
    BY <1>0, <1>7, ContentFields DEF Truncate
  <1>8. ASSUME NEW g \in Ops, Write(g) PROVE TypeOK'
    <2>1. op[g].content \in Contents
      BY <1>0 DEF Requests
    <2>2. PICK c \in Blends(op[g].content) :
            /\ files' \in {files, [files EXCEPT ![op[g].name] = Torn], [files EXCEPT ![op[g].name] = c]}
            /\ pc' \in {[pc EXCEPT ![g] = AfterWrite(g)], [pc EXCEPT ![g] = "done"]}
            /\ stale' \in BOOLEAN
      BY <1>0, <1>8 DEF Write
    <2>3. c \in Contents /\ files' \in [Names -> Contents]
      BY <1>0, <2>1, <2>2, ContentFields, BlendFields
    <2>4. AfterWrite(g) \in Steps /\ AfterWrite(g) # "load" /\ pc[g] = "write"
      BY <1>8 DEF Write, AfterWrite
    <2>5. UNCHANGED <<entries, mu, got, todo, op, runVars, edits>>
      BY <1>8 DEF Write
    <2> QED BY <1>0, <2>2, <2>3, <2>4, <2>5
  <1>9. ASSUME NEW g \in Ops, Remove(g) PROVE TypeOK'
    BY <1>0, <1>9, ContentFields DEF Remove, Writers
  <1>10. ASSUME NEW g \in Ops, Ask(g) PROVE TypeOK'
    BY <1>0, <1>10 DEF Ask
  <1>11. ASSUME NEW g \in Ops, ReloadLock(g) PROVE TypeOK'
    BY <1>0, <1>11, EntryFields DEF ReloadLock
  <1>12. ASSUME NEW g \in Ops, ReloadRead(g) PROVE TypeOK'
    <2>1. Min(todo) \in todo
      BY <1>0, <1>12, MinIsIn DEF ReloadRead
    <2>2. got' \in [Names -> Entries]
      BY <1>0, <1>12, <2>1, EntryFields DEF ReloadRead
    <2> QED BY <1>0, <1>12, <2>2 DEF ReloadRead
  <1>13. ASSUME NEW g \in Ops, ReloadInstall(g) PROVE TypeOK'
    BY <1>0, <1>13, EntryFields DEF ReloadInstall
  <1>14. ASSUME NEW n \in Names, NEW c \in Contents, Edit(n, c) PROVE TypeOK'
    BY <1>0, <1>14 DEF Edit, Writers
  <1>15. ASSUME NEW r \in Runs, NEW n \in Names, Execute(r, n) PROVE TypeOK'
    <2>1. run' \in [Runs -> Executions]
      <3> DEFINE b == JobTimeout(entries[n].version) > 0
      <3>1. b \in BOOLEAN
        OBVIOUS
      <3>2. run' = [run EXCEPT ![r] = [phase |-> "generate", name |-> n, source |-> "scheduled",
                                       timed |-> b, at |-> None]]
        BY <1>15 DEF Execute
      <3> HIDE DEF b
      <3> QED BY <1>0, <3>1, <3>2, RecordFields
    <2> QED BY <1>0, <1>15, <2>1 DEF Execute
  <1>16. ASSUME NEW r \in Runs, NEW n \in Names, NEW o \in {0, 1}, ExecuteTest(r, n, o) PROVE TypeOK'
    <2>1. run' \in [Runs -> Executions]
      <3> DEFINE b == TestTimeout(files[n].version, o) > 0
                 x == [phase |-> "generate", name |-> n, source |-> "manual", timed |-> b, at |-> None]
                 z == [NoRun EXCEPT !.phase = "done", !.source = "manual"]
      <3>1. b \in BOOLEAN
        OBVIOUS
      <3>2. run' = [run EXCEPT ![r] = x] \/ run' = [run EXCEPT ![r] = z]
        BY <1>16 DEF ExecuteTest
      <3>3. x \in Executions /\ z \in Executions
        <4> HIDE DEF b
        <4> QED BY <3>1, RecordFields
      <3> HIDE DEF x, z
      <3> QED BY <1>0, <3>2, <3>3
    <2> QED BY <1>0, <1>16, <2>1 DEF ExecuteTest
  <1>17. ASSUME NEW r \in Runs, Generated(r) PROVE TypeOK'
    <2>1. run' \in [Runs -> Executions]
      BY <1>0, <1>17, RecordFields DEF Generated, Return
    <2> QED BY <1>0, <1>17, <2>1 DEF Generated, Return
  <1>18. ASSUME NEW r \in Runs, TimedOut(r) PROVE TypeOK'
    <2>1. run' \in [Runs -> Executions]
      BY <1>0, <1>18, RecordFields DEF TimedOut, Return
    <2> QED BY <1>0, <1>18, <2>1 DEF TimedOut, Return
  <1>19. ASSUME NEW r \in Runs, OpenResult(r) PROVE TypeOK'
    <2>1. run' \in [Runs -> Executions] /\ run[r].name \in Names
      <3>1. run[r] \in Executions /\ run[r].name \in Names /\ now \in 0 .. MaxNow
        BY <1>0, <1>19 DEF OpenResult
      <3>2. \/ run' = [run EXCEPT ![r] = [run[r] EXCEPT !.phase = "write", !.at = now]]
            \/ run' = [run EXCEPT ![r] = [run[r] EXCEPT !.phase = "done"]]
        BY <1>19 DEF OpenResult
      <3>3. /\ [run[r] EXCEPT !.phase = "write", !.at = now] \in Executions
            /\ [run[r] EXCEPT !.phase = "done"] \in Executions
        BY <3>1, RecordFields
      <3> QED BY <1>0, <3>1, <3>2, <3>3
    <2>2. results' \in [ResultFiles -> Reports] /\ overlapped' \subseteq ResultFiles
      <3> DEFINE f == ResultFile(run[r].name, now)
      <3>1. f \in ResultFiles /\ Partly("empty") \in Reports
        BY <1>0, <2>1 DEF ResultFiles, ResultFile, Partly, Reports
      <3>2. /\ results' = results \/ results' = [results EXCEPT ![f] = Partly("empty")]
            /\ overlapped' \subseteq overlapped \cup {f}
        BY <1>19 DEF OpenResult
      <3> HIDE DEF f
      <3> QED BY <1>0, <3>1, <3>2
    <2> QED BY <1>0, <1>19, <2>1, <2>2 DEF OpenResult, Done
  <1>20. ASSUME NEW r \in Runs, WriteResult(r) PROVE TypeOK'
    <2>1. run' \in [Runs -> Executions]
      BY <1>0, <1>20, RecordFields DEF WriteResult
    <2>2. results' \in [ResultFiles -> Reports]
      <3> DEFINE f == FileOf(r)
      <3>1. Whole(r) \in Reports /\ Partly("torn") \in Reports
        BY <1>0 DEF Whole, Partly, Reports
      <3>2. results' \in {results, [results EXCEPT ![f] = Whole(r)], [results EXCEPT ![f] = Partly("torn")]}
        BY <1>20 DEF WriteResult
      <3> HIDE DEF f
      <3> QED BY <1>0, <3>1, <3>2
    <2>3. wrote' \subseteq Runs
      BY <1>0, <1>20 DEF WriteResult
    <2> QED BY <1>0, <1>20, <2>1, <2>2, <2>3 DEF WriteResult, Done
  <1>21. ASSUME NEW r \in Runs, Exit(r) PROVE TypeOK'
    BY <1>0, <1>21 DEF Exit
  <1>22. ASSUME NEW r \in Runs, Detach(r) PROVE TypeOK'
    BY <1>0, <1>22 DEF Detach
  <1>23. CASE Second
    BY <1>0, <1>23 DEF Second
  <1>24. CASE UNCHANGED vars
    BY <1>0, <1>24 DEF vars
  <1>25. ASSUME NEW g \in Ops, WriteGone(g) PROVE TypeOK'
    BY <1>0, <1>25 DEF WriteGone, AfterWrite
  <1> QED
    BY <1>1, <1>2, <1>3, <1>4, <1>5, <1>6, <1>7, <1>8, <1>9, <1>10, <1>11, <1>12, <1>13,
       <1>14, <1>15, <1>16, <1>17, <1>18, <1>19, <1>20, <1>21, <1>22, <1>23, <1>24, <1>25,
       BlendFields
    DEF Next, Step

\* A command names a job before it touches a file; an execution has one until it is done.
LEMMA NameInvStep == IndInv /\ [Next]_vars => NameInv'
  <1> SUFFICES ASSUME IndInv, [Next]_vars PROVE NameInv'
    OBVIOUS
  <1>0. TypeOK /\ NameInv /\ TypeOK'
    BY TypeStep DEF IndInv
  <1> USE DEF At, Goto, cmdVars, runVars, Name, TypeOK, NameInv, Steps, Forms, Opened, Holds, Executions
  <1>1. ASSUME NEW g \in Ops, NEW k \in DOMAIN FirstStep, NEW n \in Names, Invoke(g, k, n) PROVE NameInv'
    BY <1>0, <1>1 DEF Invoke, FirstStep
  <1>2. ASSUME NEW g \in Ops, Form(g) PROVE NameInv'
    BY <1>0, <1>2 DEF Form, FormStep
  <1>3. ASSUME NEW g \in Ops, NEW n \in Names, NEW v \in Versions, Confirm(g, n, v) PROVE NameInv'
    <2>1. \A x \in Requests : [x EXCEPT !.name = n, !.content = Serialize(v)].name = n
      BY DEF Requests
    <2>2. \A h \in Ops \ {g} : op'[h] = op[h] /\ pc'[h] = pc[h]
      BY <1>0, <1>3 DEF Confirm
    <2>3. pc'[g] = "done" \/ op'[g].name = n
      <3>1. pc' = [pc EXCEPT ![g] = "done"] \/ op' = [op EXCEPT ![g] = [op[g] EXCEPT !.name = n, !.content = Serialize(v)]]
        BY <1>3 DEF Confirm
      <3>2. [op[g] EXCEPT !.name = n, !.content = Serialize(v)].name = n
        BY <1>0, <2>1
      <3> QED BY <1>0, <3>1, <3>2
    <2>4. run' = run /\ wrote' = wrote /\ now' = now
      BY <1>3 DEF Confirm
    <2> QED BY <1>0, <2>2, <2>3, <2>4
  <1>4. ASSUME NEW g \in Ops, Interrupt(g) PROVE NameInv'
    BY <1>0, <1>4 DEF Interrupt
  <1>5. ASSUME NEW g \in Ops, Check(g) PROVE NameInv'
    BY <1>0, <1>5 DEF Check
  <1>6. ASSUME NEW g \in Ops, Reread(g) PROVE NameInv'
    <2>1. \A c : \A x \in Requests : [x EXCEPT !.content = c].name = x.name
      BY DEF Requests
    <2>2. op'[g].name = op[g].name /\ \A h \in Ops \ {g} : op'[h] = op[h]
      <3> DEFINE c == SetSuspended(files[Name(g)], op[g].kind = "suspend")
      <3>1. op' = op \/ op' = [op EXCEPT ![g].content = c]
        BY <1>6 DEF Reread
      <3>2. [op[g] EXCEPT !.content = c].name = op[g].name
        BY <1>0, <2>1
      <3> HIDE DEF c
      <3> QED BY <1>0, <3>1, <3>2
    <2>3. pc[g] = "reread" /\ run' = run /\ wrote' = wrote /\ \A h \in Ops \ {g} : pc'[h] = pc[h]
      BY <1>0, <1>6 DEF Reread
    <2> QED BY <1>0, <2>2, <2>3
  <1>7. ASSUME NEW g \in Ops, Truncate(g) PROVE NameInv'
    BY <1>0, <1>7 DEF Truncate
  <1>8. ASSUME NEW g \in Ops, Write(g) PROVE NameInv'
    BY <1>0, <1>8 DEF Write, AfterWrite
  <1>9. ASSUME NEW g \in Ops, Remove(g) PROVE NameInv'
    BY <1>0, <1>9 DEF Remove, Writers
  <1>10. ASSUME NEW g \in Ops, Ask(g) PROVE NameInv'
    BY <1>0, <1>10 DEF Ask
  <1>11. ASSUME NEW g \in Ops, ReloadLock(g) PROVE NameInv'
    BY <1>0, <1>11 DEF ReloadLock
  <1>12. ASSUME NEW g \in Ops, ReloadRead(g) PROVE NameInv'
    BY <1>0, <1>12 DEF ReloadRead
  <1>13. ASSUME NEW g \in Ops, ReloadInstall(g) PROVE NameInv'
    BY <1>0, <1>13 DEF ReloadInstall
  <1>14. ASSUME NEW n \in Names, NEW c \in Contents, Edit(n, c) PROVE NameInv'
    BY <1>0, <1>14 DEF Edit, Writers
  <1>15. ASSUME NEW r \in Runs, NEW n \in Names, Execute(r, n) PROVE NameInv'
    <2>1. \A h \in Runs \ {r} : run'[h] = run[h]
      BY <1>0, <1>15 DEF Execute
    <2>2. run'[r].phase = "generate" /\ run'[r].name = n /\ run'[r].at = None
      BY <1>0, <1>15 DEF Execute
    <2>3. run[r] = NoRun /\ UNCHANGED <<pc, op, wrote>>
      BY <1>15 DEF Execute, IsFirst, IdleRuns
    <2> QED BY <1>0, <2>1, <2>2, <2>3 DEF NoRun
  <1>16. ASSUME NEW r \in Runs, NEW n \in Names, NEW o \in {0, 1}, ExecuteTest(r, n, o) PROVE NameInv'
    <2>1. \A h \in Runs \ {r} : run'[h] = run[h]
      BY <1>0, <1>16 DEF ExecuteTest
    <2>2. \/ run'[r].phase = "done" /\ run'[r].at = None
          \/ run'[r].phase = "generate" /\ run'[r].name = n /\ run'[r].at = None
      <3> DEFINE b == TestTimeout(files[n].version, o) > 0
      <3>1. run'[r] \in {[phase |-> "generate", name |-> n, source |-> "manual", timed |-> b, at |-> None],
                         [NoRun EXCEPT !.phase = "done", !.source = "manual"]}
        BY <1>0, <1>16 DEF ExecuteTest
      <3>2. /\ [NoRun EXCEPT !.phase = "done", !.source = "manual"].phase = "done"
            /\ [NoRun EXCEPT !.phase = "done", !.source = "manual"].at = None
        BY DEF NoRun
      <3>3. ASSUME NEW c \in BOOLEAN,
                   run'[r] = [phase |-> "generate", name |-> n, source |-> "manual", timed |-> c, at |-> None]
            PROVE  run'[r].phase = "generate" /\ run'[r].name = n /\ run'[r].at = None
        BY <3>3
      <3>4. b \in BOOLEAN
        OBVIOUS
      <3> HIDE DEF b
      <3> QED BY <3>1, <3>2, <3>3, <3>4
    <2>3. run[r] = NoRun /\ UNCHANGED <<pc, op, wrote>>
      BY <1>16 DEF ExecuteTest, IsFirst, IdleRuns
    <2> QED BY <1>0, <2>1, <2>2, <2>3 DEF NoRun
  <1>17. ASSUME NEW r \in Runs, Generated(r) PROVE NameInv'
    BY <1>0, <1>17 DEF Generated, Return
  <1>18. ASSUME NEW r \in Runs, TimedOut(r) PROVE NameInv'
    BY <1>0, <1>18 DEF TimedOut, Return
  <1>19. ASSUME NEW r \in Runs, OpenResult(r) PROVE NameInv'
    BY <1>0, <1>19 DEF OpenResult
  <1>20. ASSUME NEW r \in Runs, WriteResult(r) PROVE NameInv'
    BY <1>0, <1>20 DEF WriteResult
  <1>21. ASSUME NEW r \in Runs, Exit(r) PROVE NameInv'
    BY <1>0, <1>21 DEF Exit
  <1>22. ASSUME NEW r \in Runs, Detach(r) PROVE NameInv'
    BY <1>0, <1>22 DEF Detach
  <1>23. CASE Second
    BY <1>0, <1>23 DEF Second
  <1>24. CASE UNCHANGED vars
    BY <1>0, <1>24 DEF vars
  <1>25. ASSUME NEW g \in Ops, WriteGone(g) PROVE NameInv'
    BY <1>0, <1>25 DEF WriteGone, AfterWrite
  <1> QED
    BY <1>1, <1>2, <1>3, <1>4, <1>5, <1>6, <1>7, <1>8, <1>9, <1>10, <1>11, <1>12, <1>13,
       <1>14, <1>15, <1>16, <1>17, <1>18, <1>19, <1>20, <1>21, <1>22, <1>23, <1>24, <1>25,
       BlendFields
    DEF Next, Step

\* A reload, however it interleaves with writers, leaves nothing unseen.
LEMMA MirrorStep == IndInv /\ [Next]_vars => Mirror'
  <1> SUFFICES ASSUME IndInv, [Next]_vars PROVE Mirror'
    OBVIOUS
  <1>0. TypeOK /\ NameInv /\ Mirror /\ TypeOK'
    BY TypeStep DEF IndInv
  <1> USE DEF At, Goto, cmdVars, runVars, Name, TypeOK, NameInv, Mirror, Pending, Steps
  <1>1. ASSUME NEW g \in Ops, NEW k \in DOMAIN FirstStep, NEW n \in Names, Invoke(g, k, n) PROVE Mirror'
    <2>1. pc[g] = "idle" /\ FirstStep[k] \notin {"write", "lock", "load"}
      BY <1>1, FirstSteps DEF Invoke, IsFirst, IdleOps
    <2>2. \A h \in Ops \ {g} : pc'[h] = pc[h] /\ op'[h] = op[h]
      BY <1>0, <1>1 DEF Invoke
    <2>3. \A m \in Names : Pending(m) => Pending(m)'
      BY <2>1, <2>2
    <2> QED BY <1>0, <1>1, <2>3 DEF Invoke
  <1>2. ASSUME NEW g \in Ops, Form(g) PROVE Mirror'
    BY <1>0, <1>2 DEF Form, FormStep
  <1>3. ASSUME NEW g \in Ops, NEW n \in Names, NEW v \in Versions, Confirm(g, n, v) PROVE Mirror'
    BY <1>0, <1>3 DEF Confirm, Serialize
  <1>4. ASSUME NEW g \in Ops, Interrupt(g) PROVE Mirror'
    BY <1>0, <1>4 DEF Interrupt
  <1>5. ASSUME NEW g \in Ops, Check(g) PROVE Mirror'
    BY <1>0, <1>5 DEF Check
  <1>6. ASSUME NEW g \in Ops, Reread(g) PROVE Mirror'
    BY <1>0, <1>6 DEF Reread, SetSuspended
  <1>7. ASSUME NEW g \in Ops, Truncate(g) PROVE Mirror'
    BY <1>0, <1>7 DEF Truncate
  <1>8. ASSUME NEW g \in Ops, Write(g) PROVE Mirror'
    BY <1>0, <1>8 DEF Write, AfterWrite
  <1>9. ASSUME NEW g \in Ops, Remove(g) PROVE Mirror'
    BY <1>0, <1>9 DEF Remove, Writers
  <1>10. ASSUME NEW g \in Ops, Ask(g) PROVE Mirror'
    BY <1>0, <1>10 DEF Ask
  <1>11. ASSUME NEW g \in Ops, ReloadLock(g) PROVE Mirror'
    <2> SUFFICES ASSUME NEW n \in Names
                 PROVE  /\ mu' # None
                        /\ n \in todo' => files'[n] # Absent
                        /\ n \notin todo' => got'[n] = Mirrored(files'[n])
      OBVIOUS
    <2> QED BY <1>0, <1>11 DEF ReloadLock, Mirrored
  <1>12. ASSUME NEW g \in Ops, ReloadRead(g) PROVE Mirror'
    <2> DEFINE m == Min(todo)
    <2>1. m \in todo
      BY <1>0, <1>12, MinIsIn DEF ReloadRead
    <2>2. files[m] # Absent => got'[m] = Mirrored(files[m])
      BY <1>0, <1>12, <2>1 DEF ReloadRead, Mirrored
    <2>3. \A n \in Names \ {m} : got'[n] = got[n] /\ (n \in todo' <=> n \in todo)
      BY <1>0, <1>12 DEF ReloadRead
    <2>4. mu # None /\ mu' = mu /\ files' = files /\ stale' = stale /\ pc' = pc /\ op' = op /\ m \notin todo'
      BY <1>0, <1>12 DEF ReloadRead
    <2> HIDE DEF m
    <2> QED BY <1>0, <2>1, <2>2, <2>3, <2>4
  <1>13. ASSUME NEW g \in Ops, ReloadInstall(g) PROVE Mirror'
    BY <1>0, <1>13 DEF ReloadInstall
  <1>14. ASSUME NEW n \in Names, NEW c \in Contents, Edit(n, c) PROVE Mirror'
    BY <1>0, <1>14 DEF Edit
  <1>15. ASSUME NEW r \in Runs, NEW n \in Names, Execute(r, n) PROVE Mirror'
    BY <1>0, <1>15 DEF Execute
  <1>16. ASSUME NEW r \in Runs, NEW n \in Names, NEW o \in {0, 1}, ExecuteTest(r, n, o) PROVE Mirror'
    BY <1>0, <1>16 DEF ExecuteTest, NoRun
  <1>17. ASSUME NEW r \in Runs, Generated(r) PROVE Mirror'
    BY <1>0, <1>17 DEF Generated, Return
  <1>18. ASSUME NEW r \in Runs, TimedOut(r) PROVE Mirror'
    BY <1>0, <1>18 DEF TimedOut, Return
  <1>19. ASSUME NEW r \in Runs, OpenResult(r) PROVE Mirror'
    BY <1>0, <1>19 DEF OpenResult
  <1>20. ASSUME NEW r \in Runs, WriteResult(r) PROVE Mirror'
    BY <1>0, <1>20 DEF WriteResult
  <1>21. ASSUME NEW r \in Runs, Exit(r) PROVE Mirror'
    BY <1>0, <1>21 DEF Exit
  <1>22. ASSUME NEW r \in Runs, Detach(r) PROVE Mirror'
    BY <1>0, <1>22 DEF Detach
  <1>23. CASE Second
    BY <1>0, <1>23 DEF Second
  <1>24. CASE UNCHANGED vars
    BY <1>0, <1>24 DEF vars
  <1>25. ASSUME NEW g \in Ops, WriteGone(g) PROVE Mirror'
    BY <1>0, <1>25 DEF WriteGone, AfterWrite
  <1> QED
    BY <1>1, <1>2, <1>3, <1>4, <1>5, <1>6, <1>7, <1>8, <1>9, <1>10, <1>11, <1>12, <1>13,
       <1>14, <1>15, <1>16, <1>17, <1>18, <1>19, <1>20, <1>21, <1>22, <1>23, <1>24, <1>25,
       BlendFields
    DEF Next, Step

\* Whoever leaves the result files and what holds them alone changes nothing about them.
LEMMA ResultFrame ==
  ASSUME NameInv, ResultInv, UNCHANGED <<results, wrote, overlapped>>,
         \A r \in Runs : /\ run'[r].at = run[r].at
                         /\ run'[r].phase = "write" <=> run[r].phase = "write"
                         /\ Opened(r) => run'[r].name = run[r].name
  PROVE  ResultInv'
  <1>1. \A r \in Runs : Opened(r)' = Opened(r) /\ Holds(r)' = Holds(r) /\ (Opened(r) => FileOf(r)' = FileOf(r))
    BY DEF Opened, Holds, FileOf, ResultFile
  <1>2. ASSUME NEW f PROVE Sharing(f)' = Sharing(f) /\ Sharing(f) \subseteq Runs
    BY <1>1 DEF Sharing
  <1>3. ASSUME NEW f \in ResultFiles PROVE FileInv(f)'
    <2>1. FileInv(f)
      BY DEF ResultInv
    <2>2. Sharing(f)' = Sharing(f) /\ \A q \in Sharing(f) : Holds(q)' = Holds(q)
      BY <1>1, <1>2
    <2>3. CASE f \in overlapped
      BY <2>1, <2>2, <2>3 DEF FileInv
    <2>4. CASE f \notin overlapped
      <3>1. \A q, r \in Sharing(f)' : Holds(q)' /\ Holds(r)' => q = r
        BY <2>1, <2>2, <2>4 DEF FileInv
      <3>2. \A r \in Sharing(f)' : Holds(r)' => results'[f].state = "empty"
        BY <2>1, <2>2, <2>4 DEF FileInv
      <3>3. Sharing(f)' # {} /\ Sharing(f)' \subseteq wrote' => \E r \in Sharing(f)' : results'[f] = Whole(r)
        BY <2>1, <2>2, <2>4 DEF FileInv
      <3> QED BY <2>4, <3>1, <3>2, <3>3 DEF FileInv, Whole
    <2> QED BY <2>3, <2>4
  <1>4. ASSUME NEW r \in Runs PROVE KeptInv(r)'
    <2>1. KeptInv(r) /\ (r \in wrote => Opened(r))
      BY DEF ResultInv, NameInv
    <2> QED BY <1>1, <1>2, <2>1 DEF KeptInv, Whole
  <1> QED BY <1>3, <1>4 DEF ResultInv

\* writeResult opens the file of its job and second.
LEMMA OpenKeeps ==
  ASSUME IndInv, NEW r \in Runs, OpenResult(r)
  PROVE  ResultInv'
  <1>0. TypeOK /\ NameInv /\ ResultInv /\ run[r].phase = "report" /\ ~Opened(r)
    BY DEF IndInv, NameInv, OpenResult
  <1>1. CASE run' = [run EXCEPT ![r].phase = "done"] /\ UNCHANGED <<results, overlapped>>
    <2>1. wrote' = wrote
      BY DEF OpenResult
    <2>2. \A q \in Runs : /\ run'[q].at = run[q].at /\ run'[q].name = run[q].name
                          /\ run'[q].phase = "write" <=> run[q].phase = "write"
      BY <1>0, <1>1 DEF TypeOK, Executions
    <2> QED BY <1>0, <1>1, <2>1, <2>2, ResultFrame
  <1>2. CASE ~ (run' = [run EXCEPT ![r].phase = "done"] /\ UNCHANGED <<results, overlapped>>)
    <2>0. PICK f : f = ResultFile(run[r].name, now)
      OBVIOUS
    <2> DEFINE new == {g \in {f} : \E q \in Sharing(f) : Holds(q)}
    <2>1. /\ run' = [run EXCEPT ![r].phase = "write", ![r].at = now]
          /\ results' = [results EXCEPT ![f] = Partly("empty")]
          /\ overlapped' = overlapped \cup new /\ wrote' = wrote
      BY <1>2, <2>0 DEF OpenResult
    <2>2. f \in ResultFiles /\ now # None /\ r \notin wrote
      BY <1>0, <2>0, CronAssumption DEF TypeOK, NameInv, ResultFiles, ResultFile
    <2>3. /\ Opened(r)' /\ Holds(r)' /\ FileOf(r)' = f
          /\ \A q \in Runs \ {r} : run'[q] = run[q]
      <3>1. run'[r].at = now /\ run'[r].phase = "write" /\ run'[r].name = run[r].name
        BY <1>0, <2>1 DEF TypeOK, Executions
      <3>2. \A q \in Runs \ {r} : run'[q] = run[q]
        BY <1>0, <2>1 DEF TypeOK
      <3> QED BY <2>0, <2>2, <3>1, <3>2 DEF Opened, Holds, FileOf, ResultFile
    <2>4. results'[f].state = "empty" /\ \A g \in ResultFiles \ {f} : results'[g] = results[g]
      <3>1. Partly("empty").state = "empty"
        BY DEF Partly
      <3> QED BY <1>0, <2>1, <2>2, <3>1 DEF TypeOK
    <2>5. new \subseteq {f} /\ (f \in new <=> \E q \in Sharing(f) : Holds(q))
      OBVIOUS
    <2> HIDE DEF new
    <2>6. \A q \in Runs \ {r} : Opened(q)' = Opened(q) /\ Holds(q)' = Holds(q) /\ FileOf(q)' = FileOf(q)
      BY <2>3 DEF Opened, Holds, FileOf, ResultFile
    <2>7. Sharing(f)' = Sharing(f) \cup {r} /\ \A g : g # f => Sharing(g)' = Sharing(g)
      <3>1. ASSUME NEW g
            PROVE  \A q \in Runs : Opened(q)' /\ FileOf(q)' = g
                                  <=> (Opened(q) /\ FileOf(q) = g) \/ (q = r /\ g = f)
        BY <1>0, <2>3, <2>6
      <3>2. Sharing(f)' = Sharing(f) \cup {r}
        BY <3>1 DEF Sharing
      <3>3. ASSUME NEW g, g # f PROVE Sharing(g)' = Sharing(g)
        BY <3>1, <3>3 DEF Sharing
      <3> QED BY <3>2, <3>3
    <2>8. \A g : Sharing(g) \subseteq Runs \ {r}
      BY <1>0 DEF Sharing
    <2>9. ASSUME NEW g \in ResultFiles, g # f PROVE FileInv(g)'
      <3>1. FileInv(g) /\ (g \in overlapped' <=> g \in overlapped)
        BY <1>0, <2>1, <2>5, <2>9 DEF ResultInv
      <3>2. Sharing(g)' = Sharing(g) /\ results'[g] = results[g] /\ \A q \in Sharing(g) : Holds(q)' = Holds(q)
        BY <2>4, <2>6, <2>7, <2>8, <2>9
      <3> QED BY <2>1, <3>1, <3>2 DEF FileInv, Whole
    <2>10. FileInv(f)'
      <3>1. FileInv(f) /\ r \in Sharing(f)'
        BY <1>0, <2>2, <2>7 DEF ResultInv
      <3>2. CASE f \in overlapped
        BY <2>1, <2>7, <3>1, <3>2 DEF FileInv
      <3>3. CASE f \notin overlapped /\ f \in new
        <4>1. PICK q \in Sharing(f) : Holds(q)
          BY <2>5, <3>3
        <4>2. q # r /\ q \in Sharing(f)' /\ f \in overlapped'
          BY <2>1, <2>7, <2>8, <3>3, <4>1
        <4> QED BY <3>1, <4>2 DEF FileInv
      <3>4. CASE f \notin overlapped /\ f \notin new
        <4>1. \A q \in Sharing(f)' : Holds(q)' => q = r
          BY <2>5, <2>6, <2>7, <2>8, <3>4
        <4>2. ~ (Sharing(f)' \subseteq wrote') /\ f \notin overlapped'
          BY <2>1, <2>2, <3>1, <3>4
        <4> QED BY <2>4, <4>1, <4>2 DEF FileInv
      <3> QED BY <3>2, <3>3, <3>4
    <2>11. ASSUME NEW q \in Runs PROVE KeptInv(q)'
      <3>1. CASE q = r
        BY <2>1, <2>2, <3>1 DEF KeptInv
      <3>2. CASE q # r /\ q \in wrote
        <4>1. KeptInv(q) /\ Opened(q)
          BY <1>0, <3>2 DEF ResultInv, NameInv
        <4>2. FileOf(q) \in ResultFiles /\ FileOf(q)' = FileOf(q)
          BY <1>0, <2>6, <3>2, <4>1 DEF NameInv, TypeOK, Executions, Opened, FileOf, ResultFile, ResultFiles
        <4>3. CASE FileOf(q) = f
          BY <2>7, <3>2, <4>2, <4>3 DEF KeptInv
        <4>4. CASE FileOf(q) # f
          BY <2>4, <2>7, <3>2, <4>1, <4>2, <4>4 DEF KeptInv, Whole
        <4> QED BY <4>3, <4>4
      <3>3. CASE q \notin wrote
        BY <2>1, <3>3 DEF KeptInv
      <3> QED BY <3>1, <3>2, <3>3
    <2> QED BY <2>9, <2>10, <2>11 DEF ResultInv
  <1> QED BY <1>1, <1>2

\* What it writes over is empty unless another execution had the file open as well.
LEMMA WriteKeeps ==
  ASSUME IndInv, NEW r \in Runs, WriteResult(r)
  PROVE  ResultInv'
  <1>f. PICK f : f = FileOf(r)
    OBVIOUS
  <1>0. TypeOK /\ NameInv /\ ResultInv /\ Holds(r) /\ Opened(r) /\ r \notin wrote
    BY DEF IndInv, NameInv, WriteResult
  <1>1. f \in ResultFiles
    BY <1>0, <1>f DEF NameInv, TypeOK, Executions, Opened, FileOf, ResultFile, ResultFiles
  <1>2. run' = [run EXCEPT ![r].phase = "done"] /\ overlapped' = overlapped
    BY DEF WriteResult
  <1>3. \/ wrote' = wrote
        \/ wrote' = wrote \cup {r} /\ (results'[f] = Whole(r) \/ results[f].state # "empty")
    <2>1. \/ wrote' = wrote
          \/ wrote' = wrote \cup {r} /\ results' = [results EXCEPT ![f] = Whole(r)]
          \/ wrote' = wrote \cup {r} /\ results[f].state # "empty"
      BY <1>f DEF WriteResult
    <2> QED BY <1>0, <1>1, <2>1 DEF TypeOK
  <1>4. \A g \in ResultFiles \ {f} : results'[g] = results[g]
    <2>1. results' \in {results, [results EXCEPT ![f] = Whole(r)], [results EXCEPT ![f] = Partly("torn")]}
      BY <1>f DEF WriteResult
    <2> QED BY <1>0, <2>1 DEF TypeOK
  <1>5. /\ \A q \in Runs : run'[q].at = run[q].at /\ run'[q].name = run[q].name
        /\ \A q \in Runs \ {r} : run'[q] = run[q]
        /\ run'[r].phase = "done"
    BY <1>0, <1>2 DEF TypeOK, Executions
  <1>6. /\ \A q \in Runs : Opened(q)' = Opened(q) /\ FileOf(q)' = FileOf(q)
        /\ \A q \in Runs \ {r} : Holds(q)' = Holds(q)
        /\ ~Holds(r)'
    BY <1>5 DEF Opened, Holds, FileOf, ResultFile
  <1>7. \A g : Sharing(g)' = Sharing(g) /\ Sharing(g) \subseteq Runs
    BY <1>6 DEF Sharing
  <1>8. r \in Sharing(f) /\ \A g : r \in Sharing(g) => g = f
    BY <1>0, <1>f DEF Sharing
  <1>9. ASSUME NEW g \in ResultFiles, g # f PROVE FileInv(g)'
    <2>1. FileInv(g)
      BY <1>0 DEF ResultInv
    <2>2. /\ Sharing(g)' = Sharing(g) /\ results'[g] = results[g] /\ r \notin Sharing(g)
          /\ \A q \in Sharing(g) : Holds(q)' = Holds(q)
      BY <1>4, <1>6, <1>7, <1>8, <1>9
    <2>3. Sharing(g) \subseteq wrote' <=> Sharing(g) \subseteq wrote
      BY <1>3, <2>2
    <2> QED BY <1>2, <2>1, <2>2, <2>3 DEF FileInv, Whole
  <1>10. FileInv(f)'
    <2>1. FileInv(f)
      BY <1>0, <1>1 DEF ResultInv
    <2>2. CASE f \in overlapped
      BY <1>2, <1>7, <2>1, <2>2 DEF FileInv
    <2>3. CASE f \notin overlapped
      <3>1. results[f].state = "empty" /\ \A q \in Sharing(f) : ~Holds(q)'
        BY <1>0, <1>6, <1>7, <1>8, <2>1, <2>3 DEF FileInv
      <3>2. Sharing(f) \subseteq wrote' => results'[f] = Whole(r)
        BY <1>0, <1>3, <1>8, <3>1
      <3> QED BY <1>2, <1>7, <1>8, <2>3, <3>1, <3>2 DEF FileInv, Whole
    <2> QED BY <2>2, <2>3
  <1>11. ASSUME NEW q \in Runs PROVE KeptInv(q)'
    <2>1. CASE q = r
      <3>1. CASE r \in wrote' /\ results'[f] # Whole(r)
        <4>1. results[f].state # "empty"
          BY <1>0, <1>3, <3>1
        <4>2. FileInv(f)
          BY <1>0, <1>1 DEF ResultInv
        <4>3. f \in overlapped
          BY <1>0, <1>8, <4>1, <4>2 DEF FileInv
        <4>4. \E s \in Sharing(f) : s # r
          BY <4>2, <4>3 DEF FileInv
        <4> QED BY <1>6, <1>7, <2>1, <4>4, <1>f DEF KeptInv
      <3>2. CASE ~ (r \in wrote' /\ results'[f] # Whole(r))
        BY <1>6, <2>1, <3>2, <1>f DEF KeptInv, Whole
      <3> QED BY <3>1, <3>2
    <2>2. CASE q # r /\ q \in wrote
      <3>1. KeptInv(q) /\ Opened(q)
        BY <1>0, <2>2 DEF ResultInv, NameInv
      <3>2. FileOf(q) \in ResultFiles /\ FileOf(q)' = FileOf(q)
        BY <1>0, <1>6, <3>1 DEF NameInv, TypeOK, Executions, Opened, FileOf, ResultFile, ResultFiles
      <3>3. CASE FileOf(q) = f
        BY <1>7, <1>8, <2>2, <3>2, <3>3 DEF KeptInv
      <3>4. CASE FileOf(q) # f
        BY <1>4, <1>7, <2>2, <3>1, <3>2, <3>4 DEF KeptInv, Whole
      <3> QED BY <3>3, <3>4
    <2>3. CASE q # r /\ q \notin wrote
      BY <1>3, <2>3 DEF KeptInv
    <2> QED BY <2>1, <2>2, <2>3
  <1> QED BY <1>9, <1>10, <1>11 DEF ResultInv

\* No other step touches a result file or names one.
LEMMA ResultStep == IndInv /\ [Next]_vars => ResultInv'
  <1> SUFFICES ASSUME IndInv, [Next]_vars PROVE ResultInv'
    OBVIOUS
  <1>0. TypeOK /\ NameInv /\ ResultInv
    BY DEF IndInv
  <1>1. CASE UNCHANGED <<run, results, wrote, overlapped>>
    BY <1>0, <1>1, ResultFrame
  <1>2. ASSUME NEW r \in Runs, NEW n \in Names, Execute(r, n) \/ \E o \in {0, 1} : ExecuteTest(r, n, o)
        PROVE  ResultInv'
    <2>1. /\ run[r] = NoRun /\ UNCHANGED <<results, wrote, overlapped>>
          /\ \A q \in Runs \ {r} : run'[q] = run[q]
      BY <1>0, <1>2 DEF Execute, ExecuteTest, IsFirst, IdleRuns, TypeOK
    <2>2. run'[r].at = None /\ run'[r].phase # "write"
      <3>1. CASE Execute(r, n)
        BY <1>0, <3>1 DEF Execute, TypeOK
      <3>2. CASE \E o \in {0, 1} : ExecuteTest(r, n, o)
        <4>1. PICK o \in {0, 1} : ExecuteTest(r, n, o)
          BY <3>2
        <4> DEFINE b == TestTimeout(files[n].version, o) > 0
        <4>2. run'[r] \in {[phase |-> "generate", name |-> n, source |-> "manual", timed |-> b, at |-> None],
                           [NoRun EXCEPT !.phase = "done", !.source = "manual"]}
          BY <1>0, <4>1 DEF ExecuteTest, TypeOK
        <4>3. ASSUME NEW c \in BOOLEAN,
                     run'[r] = [phase |-> "generate", name |-> n, source |-> "manual", timed |-> c, at |-> None]
              PROVE  run'[r].phase = "generate" /\ run'[r].at = None
          BY <4>3
        <4>4. b \in BOOLEAN
          OBVIOUS
        <4> HIDE DEF b
        <4> QED BY <4>2, <4>3, <4>4 DEF NoRun
      <3> QED BY <1>2, <3>1, <3>2
    <2>3. run[r].at = None /\ run[r].phase # "write" /\ ~Opened(r)
      BY <2>1 DEF NoRun, Opened
    <2> QED BY <1>0, <2>1, <2>2, <2>3, ResultFrame
  <1>3. ASSUME NEW r \in Runs, Return(r) PROVE ResultInv'
    <2>1. run' = [run EXCEPT ![r].phase = "report"] /\ run[r].phase = "generate"
          /\ UNCHANGED <<results, wrote, overlapped>>
      BY <1>3 DEF Return
    <2>2. \A q \in Runs : /\ run'[q].at = run[q].at /\ run'[q].name = run[q].name
                          /\ run'[q].phase = "write" <=> run[q].phase = "write"
      BY <1>0, <2>1 DEF TypeOK, Executions
    <2> QED BY <1>0, <2>1, <2>2, ResultFrame
  <1>4. ASSUME NEW g \in Ops,
               \/ \E k \in DOMAIN FirstStep, n \in Names : Invoke(g, k, n)
               \/ Form(g) \/ Interrupt(g) \/ Step(g)
               \/ \E n \in Names, v \in Versions : Confirm(g, n, v)
        PROVE  UNCHANGED <<run, results, wrote, overlapped>>
    <2>1. CASE \/ \E k \in DOMAIN FirstStep, n \in Names : Invoke(g, k, n)
               \/ Form(g) \/ Interrupt(g) \/ \E n \in Names, v \in Versions : Confirm(g, n, v)
      BY <2>1 DEF Invoke, Form, Interrupt, Confirm, runVars
    <2>2. CASE Check(g) \/ Reread(g) \/ Truncate(g) \/ Write(g) \/ WriteGone(g)
      BY <2>2 DEF Check, Reread, Truncate, Write, WriteGone, runVars
    <2>3. CASE Remove(g) \/ Ask(g) \/ ReloadLock(g) \/ ReloadRead(g) \/ ReloadInstall(g)
      BY <2>3 DEF Remove, Ask, ReloadLock, ReloadRead, ReloadInstall, runVars
    <2> QED BY <1>4, <2>1, <2>2, <2>3 DEF Step
  <1>5. ASSUME NEW n \in Names, NEW c, Edit(n, c) PROVE UNCHANGED <<run, results, wrote, overlapped>>
    BY <1>5 DEF Edit, runVars
  <1>6. ASSUME NEW r \in Runs, Exit(r) \/ Detach(r)
        PROVE  UNCHANGED <<run, results, wrote, overlapped>>
    BY <1>6 DEF Exit, Detach
  <1>7. CASE Second \/ UNCHANGED vars
    BY <1>1, <1>7 DEF Second, vars, runVars
  <1> QED
    BY <1>1, <1>2, <1>3, <1>4, <1>5, <1>6, <1>7, OpenKeeps, WriteKeeps DEF Next, Generated, TimedOut
-----------------------------------------------------------------------------
(* The theorems                                                            *)

\* Every state of the crons directory, the scheduler and the executor satisfies IndInv.
THEOREM Invariance == Spec => []IndInv
  <1>1. IndInv /\ [Next]_vars => IndInv'
    BY TypeStep, NameInvStep, MirrorStep, ResultStep DEF IndInv
  <1> QED BY InitInd, <1>1, PTL DEF Spec

\* Files, entries and executions keep their shape, and Scheduler.mu has one holder.
THEOREM TypeCorrect == Spec => []TypeOK
  BY Invariance, PTL DEF IndInv

\* Once the commands that changed a file have had their Reload, the scheduler runs exactly
\* the jobs that the files call for, and cron ls names the same ones with and without it.
THEOREM SchedulerMirrorsFiles == Spec => []EntriesMatchFiles
  <1>1. IndInv => EntriesMatchFiles
    <2> SUFFICES ASSUME IndInv, ~stale, mu = None,
                        \A g \in Ops : pc[g] \notin {"write", "ask", "lock"}
                 PROVE  /\ Listing(TRUE) = Listing(FALSE)
                        /\ \A j \in ListJobs :
                             LET c == files[j.name]
                             IN  /\ j.entry.version = c.version
                                 /\ j.entry.status = "running"
                                      <=> c.kind = "job" /\ ~c.suspended /\ c.version \notin Invalid
                                 /\ j.entry.status = "suspended" <=> c.suspended
      BY DEF EntriesMatchFiles
    <2>1. files \in [Names -> Contents]
      BY DEF IndInv, TypeOK
    <2>2. \A n \in Names : entries[n] = Mirrored(files[n])
      BY DEF IndInv, Mirror, Pending
    <2>3. \A n \in Names : entries[n] # NoEntry <=> files[n] # Absent
      BY <2>1, <2>2, EntryFields DEF Mirrored
    <2>4. \A j \in ListJobs : j.name \in Names /\ entries[j.name] # NoEntry /\ j.entry = entries[j.name]
      BY DEF ListJobs
    <2>5. \A n \in Names : entries[n] # NoEntry => n \in {j.name : j \in ListJobs}
      <3> SUFFICES ASSUME NEW n \in Names, entries[n] # NoEntry PROVE \E j \in ListJobs : j.name = n
        OBVIOUS
      <3> DEFINE j == [name |-> n, entry |-> entries[n]]
      <3>1. j \in ListJobs /\ j.name = n
        BY DEF ListJobs
      <3> QED BY <3>1
    <2>6. Listing(TRUE) = Listing(FALSE)
      <3>1. {j.name : j \in ListJobs} = {n \in Names : files[n] # Absent}
        BY <2>3, <2>4, <2>5
      <3> QED BY <3>1 DEF Listing
    <2>7. ASSUME NEW j \in ListJobs PROVE j.entry = EntryOf(files[j.name]) /\ files[j.name] \in Contents
      BY <2>1, <2>2, <2>3, <2>4 DEF Mirrored
    <2> QED BY <2>6, <2>7, EntryFields
  <1> QED BY Invariance, <1>1, PTL

\* A written result stays whole unless the same job reports again within its second; several
\* reports of a second that neither fail nor overlap leave one of them whole.
THEOREM ResultsStay == Spec => []ResultsAreKept
  <1>1. IndInv => ResultsAreKept
    <2> SUFFICES ASSUME IndInv PROVE ResultsAreKept
      OBVIOUS
    <2>1. ASSUME NEW r \in wrote
          PROVE  \/ results[FileOf(r)] = Whole(r)
                 \/ \E q \in Runs \ {r} : Opened(q) /\ run[q].name = run[r].name /\ run[q].at = run[r].at
      <3>1. KeptInv(r) /\ r \in Runs
        BY DEF IndInv, TypeOK, ResultInv
      <3> QED BY <3>1 DEF KeptInv, Sharing, FileOf, ResultFile
    <2>2. ASSUME NEW f \in ResultFiles \ overlapped, Sharing(f) # {}, Sharing(f) \subseteq wrote
          PROVE  \E r \in Sharing(f) : results[f] = Whole(r)
      BY <2>2 DEF IndInv, ResultInv, FileInv
    <2> QED BY <2>1, <2>2 DEF ResultsAreKept
  <1> QED BY Invariance, <1>1, PTL
=============================================================================
