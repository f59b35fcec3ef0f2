-------------------------------- MODULE Cron --------------------------------
(***************************************************************************)
(* Cron jobs: the markdown files in the crons directory, the scheduler     *)
(* that mirrors them (pkg/cron/scheduler.go), the commands that change     *)
(* them (cmd/cron*.go, pkg/daemon/cron.go) and the executor that runs a    *)
(* job on its schedule or for `wildgecu cron test` (pkg/cron/executor.go). *)
(*                                                                         *)
(* The files are shared without a lock: os.WriteFile truncates first and   *)
(* writes afterwards, from the beginning of a file that others may have    *)
(* written or removed in between, and a reload reads one file after the    *)
(* other.  The scheduler's mutex only orders reloads.  A job's text is     *)
(* abstracted to a version and the suspended field; the name in a file is  *)
(* the file's name, as `cron add` makes it.  gocron and the model provider *)
(* are external: a registered job may start at any time, also while it     *)
(* still runs, and an answer may never come.                               *)
(***************************************************************************)
EXTENDS Naturals, FiniteSets, FiniteSetsExt

CONSTANTS
  Names,      \* job names, numbers in the order filepath.Glob returns the files
  Versions,   \* schedule, prompt and timeout of a job
  Authored,   \* the versions somebody writes; the others come from overlapping writes
  Timed,      \* the versions with a timeout field
  Invalid,    \* the versions whose schedule gocron rejects
  Ops, Runs,  \* commands and executions, numbered in the order they start
  MaxStarts,  \* bound on the commands, executions and edits of a behaviour
  MaxEdits,   \* bound on the edits by hand
  MaxNow,     \* bound on the clock, in seconds
  None

ASSUME CronAssumption ==
  /\ Names \subseteq Nat /\ Ops \subseteq Nat /\ Runs \subseteq Nat
  /\ IsFiniteSet(Names) /\ IsFiniteSet(Ops) /\ IsFiniteSet(Runs)
  /\ Authored \subseteq Versions /\ Timed \subseteq Versions /\ Invalid \subseteq Versions
  /\ None \notin Versions \cup Names \cup Ops \cup Runs \cup 0 .. MaxNow
  /\ MaxStarts \in Nat /\ MaxEdits \in Nat /\ MaxNow \in Nat

VARIABLES
  files,    \* the crons directory
  entries,  \* Scheduler.entries; the running ones are registered with gocron
  mu,       \* who holds Scheduler.mu
  got, todo, \* the reload under way: the results so far, the files not read yet
  pc, op,   \* where each command is, and what it was asked
  run,      \* each execution
  client,   \* the `cron test` process of a manual execution
  results,  \* the result files
  wrote,    \* history: the executions that wrote their result
  overlapped, \* history: the result files two executions had open at once
  stale,    \* history: a file changed and the scheduler was not told since
  edits, now

cmdVars == <<pc, op>>
runVars == <<run, client, results, wrote, overlapped, now>>
vars == <<files, entries, mu, got, todo, cmdVars, runVars, stale, edits>>

-----------------------------------------------------------------------------
(* The contents of a file and what the scheduler makes of it               *)

JobsOf(V) == [kind : {"job"}, version : V, suspended : BOOLEAN]
Jobs   == JobsOf(Versions)
Absent == [kind |-> "absent", version |-> None, suspended |-> FALSE]
Empty  == [kind |-> "empty",  version |-> None, suspended |-> FALSE]
Torn   == [kind |-> "torn",   version |-> None, suspended |-> FALSE]
Broken == [kind |-> "broken", version |-> None, suspended |-> FALSE]
Contents == Jobs \cup {Absent, Empty, Torn, Broken}

\* Parse: an empty or torn file has no closing delimiter; a broken one has both around fields
\* that are missing or malformed.
Parses(c) == c.kind = "job"

\* Serialize: what `cron add` writes. The form has no field for a timeout or a suspension.
Serialize(v) == [kind |-> "job", version |-> v, suspended |-> FALSE]

\* replaceOrAppendField for the suspended field: everything else in the file stays.
SetSuspended(c, target) == IF c = Broken THEN c ELSE [c EXCEPT !.suspended = target]

\* What is in a file after c was written over a longer text, or all of c but its end: the
\* frontmatter of c and another prompt.
Blends(c) ==
  {c} \cup {b \in Jobs : /\ Parses(c) /\ b.suspended = c.suspended
                        /\ (b.version \in Timed) = (c.version \in Timed)
                        /\ (b.version \in Invalid) = (c.version \in Invalid)}

NoEntry == [status |-> "none", version |-> None]

\* The body of rebuildEntries' loop, addJob included. A file that disappeared after the
\* directory was listed cannot be read, which is an error as well.
EntryOf(c) ==
  [version |-> c.version,
   status  |-> IF ~Parses(c) THEN "error"
               ELSE IF c.suspended THEN "suspended"
               ELSE IF c.version \in Invalid THEN "error" ELSE "running"]

\* What the cron-list handler answers.
ListJobs == {[name |-> n, entry |-> entries[n]] : n \in {m \in Names : entries[m] # NoEntry}}

\* The names `cron ls` prints: the daemon's jobs, or the files when it cannot be asked.
Listing(daemonUp) ==
  IF daemonUp THEN {j.name : j \in ListJobs} ELSE {n \in Names : files[n] # Absent}

-----------------------------------------------------------------------------
NoOp  == [kind |-> None, name |-> None, content |-> Absent]
NoRun == [phase |-> "idle", name |-> None, source |-> None, timed |-> FALSE, at |-> None]

ResultFiles == Names \X (0 .. MaxNow)
NoResult    == [state |-> "absent", by |-> None]

\* NewScheduler and LoadAndStart, on the files that are there.
Init ==
  /\ files \in [Names -> JobsOf(Authored) \cup {Absent}]
  /\ entries = [n \in Names |-> IF files[n] = Absent THEN NoEntry ELSE EntryOf(files[n])]
  /\ mu = None
  /\ got = [n \in Names |-> NoEntry] /\ todo = {}
  /\ pc = [g \in Ops |-> "idle"]
  /\ op = [g \in Ops |-> NoOp]
  /\ run = [r \in Runs |-> NoRun]
  /\ client = [r \in Runs |-> "none"]
  /\ results = [f \in ResultFiles |-> NoResult]
  /\ wrote = {} /\ overlapped = {}
  /\ stale = FALSE /\ edits = 0 /\ now = 0

IdleOps  == {g \in Ops : pc[g] = "idle"}
IdleRuns == {r \in Runs : run[r] = NoRun}
Started  == Cardinality(Ops \ IdleOps) + Cardinality(Runs \ IdleRuns) + edits

IsFirst(x, S) == x \in S /\ \A y \in S : x <= y

At(g, l)   == pc[g] = l
Goto(g, l) == pc' = [pc EXCEPT ![g] = l]
Name(g)    == op[g].name

-----------------------------------------------------------------------------
(* Commands                                                                *)

FirstStep == [add |-> "form_name", rm |-> "remove", reload |-> "ask", suspend |-> "check", resume |-> "check"]

\* A command is given. The daemon runs; a request that does not reach it changes nothing.
Invoke(g, k, n) ==
  /\ IsFirst(g, IdleOps) /\ Started < MaxStarts
  /\ op' = [op EXCEPT ![g] = [kind |-> k, name |-> IF k \in {"add", "reload"} THEN None ELSE n, content |-> Absent]]
  /\ Goto(g, FirstStep[k])
  /\ UNCHANGED <<files, entries, mu, got, todo, runVars, stale, edits>>

FormStep == [form_name |-> "form_schedule", form_schedule |-> "form_prompt", form_prompt |-> "form_confirm"]

\* cronAddModel.Update: Enter (Tab or Esc for the prompt) goes on, Ctrl-C ends the form.
Form(g) ==
  /\ pc[g] \in DOMAIN FormStep
  /\ \/ Goto(g, FormStep[pc[g]])
     \/ Goto(g, "done")
  /\ UNCHANGED <<files, entries, mu, got, todo, op, runVars, stale, edits>>

\* The last Enter: save serializes what was typed.
Confirm(g, n, v) ==
  /\ At(g, "form_confirm")
  /\ \/ /\ op' = [op EXCEPT ![g] = [@ EXCEPT !.name = n, !.content = Serialize(v)]]
        /\ Goto(g, "truncate")
     \/ Goto(g, "done") /\ UNCHANGED op
  /\ UNCHANGED <<files, entries, mu, got, todo, runVars, stale, edits>>

\* setSuspended: the first read.
Check(g) ==
  /\ At(g, "check")
  /\ LET c == files[Name(g)]
     IN  Goto(g, IF Parses(c) /\ c.suspended # (op[g].kind = "suspend") THEN "reread" ELSE "done")
  /\ UNCHANGED <<files, entries, mu, got, todo, op, runVars, stale, edits>>

\* SetFrontmatterField reads the file again. It only looks for the delimiters.
Reread(g) ==
  /\ At(g, "reread")
  /\ LET c == files[Name(g)]
     IN  IF c.kind \in {"job", "broken"}
         THEN /\ op' = [op EXCEPT ![g].content = SetSuspended(c, op[g].kind = "suspend")]
              /\ Goto(g, "truncate")
         ELSE Goto(g, "done") /\ UNCHANGED op
  /\ UNCHANGED <<files, entries, mu, got, todo, runVars, stale, edits>>

\* os.WriteFile opens the file, which empties or creates it, unless that fails ...
Truncate(g) ==
  /\ At(g, "truncate")
  /\ \/ /\ files' = [files EXCEPT ![Name(g)] = Empty]
        /\ Goto(g, "write")
     \/ Goto(g, "done") /\ UNCHANGED files
  /\ UNCHANGED <<entries, mu, got, todo, op, runVars, stale, edits>>

\* Mutant: suspend and resume only rewrite the file.
AfterWriteNoReload(g) == IF op[g].kind = "add" THEN "ask" ELSE "done"

\* The CLI asks the daemon to reload; the handlers of suspend and resume call Reload.
AfterWrite(g) == IF op[g].kind = "add" THEN "ask" ELSE "lock"

\* ... and writes it from its beginning, whatever is there by now. A write that fails, wholly
\* or midway, ends the command without a reload.
Write(g) ==
  /\ At(g, "write")
  /\ \E c \in Blends(op[g].content) :
       \/ /\ files[Name(g)] = Empty => c = op[g].content
          /\ files' = [files EXCEPT ![Name(g)] = c]
          /\ Goto(g, AfterWrite(g))
          /\ UNCHANGED stale
       \/ /\ files' \in {files, [files EXCEPT ![Name(g)] = Torn], [files EXCEPT ![Name(g)] = c]}
          /\ Goto(g, "done")
          /\ stale' = TRUE
  /\ UNCHANGED <<entries, mu, got, todo, op, runVars, edits>>

\* The commands that have the file of n open.
Writers(n) == {h \in Ops : At(h, "write") /\ Name(h) = n}

\* A file that was removed or replaced since it was opened is written in vain.
WriteGone(g) ==
  /\ At(g, "write_gone")
  /\ Goto(g, AfterWrite(g)) \/ Goto(g, "done")
  /\ UNCHANGED <<files, entries, mu, got, todo, op, runVars, stale, edits>>

\* cron rm: a file that is not there is no error.
Remove(g) ==
  /\ At(g, "remove")
  /\ files' = [files EXCEPT ![Name(g)] = Absent]
  /\ pc' = [h \in Ops |-> IF h = g THEN "ask" ELSE IF h \in Writers(Name(g)) THEN "write_gone" ELSE pc[h]]
  /\ UNCHANGED <<entries, mu, got, todo, op, runVars, stale, edits>>

\* The cron-reload request. When it cannot be sent the command ends with a warning.
Ask(g) ==
  /\ At(g, "ask")
  /\ \/ Goto(g, "lock") /\ UNCHANGED stale
     \/ Goto(g, "done") /\ stale' = TRUE
  /\ UNCHANGED <<files, entries, mu, got, todo, op, runVars, edits>>

\* The user interrupts `cron add` or `cron rm` between two of its steps.
Interrupt(g) ==
  /\ op[g].kind \in {"add", "rm"}
  /\ pc[g] \in {"truncate", "write", "write_gone", "remove", "ask"}
  /\ Goto(g, "done")
  /\ stale' = (stale \/ pc[g] \in {"write", "ask"})
  /\ UNCHANGED <<files, entries, mu, got, todo, op, runVars, edits>>

-----------------------------------------------------------------------------
(* Scheduler.Reload                                                        *)

\* Mutant: the directory is loaded before the lock is taken.
ReloadLockUnguarded(g) ==
  /\ At(g, "lock")
  /\ mu'      = g
  /\ entries' = [n \in Names |-> NoEntry]
  /\ todo'    = {n \in Names : files[n] # Absent}
  /\ got'     = [n \in Names |-> NoEntry]
  /\ stale'   = FALSE
  /\ Goto(g, "load")
  /\ UNCHANGED <<files, op, runVars, edits>>

\* Under Scheduler.mu every job is removed from gocron, and the directory is listed.
ReloadLock(g) ==
  /\ At(g, "lock")
  /\ mu = None
  /\ mu'      = g
  /\ entries' = [n \in Names |-> NoEntry]
  /\ todo'    = {n \in Names : files[n] # Absent}
  /\ got'     = [n \in Names |-> NoEntry]
  /\ stale'   = FALSE
  /\ Goto(g, "load")
  /\ UNCHANGED <<files, op, runVars, edits>>

\* The files are read one at a time, in the order of their names.
ReloadRead(g) ==
  /\ At(g, "load")
  /\ todo # {}
  /\ LET n == Min(todo)
     IN  /\ got'  = [got EXCEPT ![n] = EntryOf(files[n])]
         /\ todo' = todo \ {n}
  /\ UNCHANGED <<files, entries, mu, cmdVars, runVars, stale, edits>>

\* The jobs are classified and registered, and the lock is released.
ReloadInstall(g) ==
  /\ At(g, "load")
  /\ todo = {}
  /\ entries' = got
  /\ got'     = [n \in Names |-> NoEntry]
  /\ mu'      = None
  /\ Goto(g, "done")
  /\ UNCHANGED <<files, todo, op, runVars, stale, edits>>

\* Somebody, the agent's file tools included, changes a file, in place or by replacing it.
Edit(n, c) ==
  /\ edits < MaxEdits /\ Started < MaxStarts
  /\ edits' = edits + 1
  /\ files' = [files EXCEPT ![n] = c]
  /\ stale' = TRUE
  /\ \/ c # Absent /\ UNCHANGED pc
     \/ pc' = [h \in Ops |-> IF h \in Writers(n) THEN "write_gone" ELSE pc[h]]
  /\ UNCHANGED <<entries, mu, got, todo, op, runVars>>

-----------------------------------------------------------------------------
(* The executor                                                            *)

JobTimeout(v) == IF v \in Timed THEN 1 ELSE 0
TestDefaultTimeout == 2

\* Mutant: a manual run of a job without a timeout has none.
TestTimeoutNoDefault(v, override) == IF override > 0 THEN override ELSE JobTimeout(v)

\* ExecuteTest: the override, or the job's own timeout, or the default.
TestTimeout(v, override) ==
  IF override > 0 THEN override ELSE IF JobTimeout(v) > 0 THEN JobTimeout(v) ELSE TestDefaultTimeout

\* gocron starts a registered job, as the last reload read it.
Execute(r, n) ==
  /\ IsFirst(r, IdleRuns) /\ Started < MaxStarts
  /\ entries[n].status = "running"
  /\ run' = [run EXCEPT ![r] = [phase |-> "generate", name |-> n, source |-> "scheduled",
                                timed |-> JobTimeout(entries[n].version) > 0, at |-> None]]
  /\ UNCHANGED <<files, entries, mu, got, todo, cmdVars, client, results, wrote, overlapped, now, stale, edits>>

\* handleCronTestConn: the job as its file is now, suspended or not. A request that names
\* no usable job, or a malformed timeout, is answered with an exit code at once.
ExecuteTest(r, n, override) ==
  /\ IsFirst(r, IdleRuns) /\ Started < MaxStarts
  /\ \/ /\ Parses(files[n])
        /\ run' = [run EXCEPT ![r] = [phase |-> "generate", name |-> n, source |-> "manual",
                                      timed |-> TestTimeout(files[n].version, override) > 0, at |-> None]]
        /\ client' = [client EXCEPT ![r] = "waiting"]
     \/ /\ run' = [run EXCEPT ![r] = [NoRun EXCEPT !.phase = "done", !.source = "manual"]]
        /\ client' = [client EXCEPT ![r] = "told"]
  /\ UNCHANGED <<files, entries, mu, got, todo, cmdVars, results, wrote, overlapped, now, stale, edits>>

\* runJob: the provider returns an answer or an error, or the deadline of the context makes it
\* return. All three are reported alike.
Return(r) ==
  /\ run[r].phase = "generate"
  /\ run' = [run EXCEPT ![r].phase = "report"]
  /\ UNCHANGED <<files, entries, mu, got, todo, cmdVars, client, results, wrote, overlapped, now, stale, edits>>

Generated(r) == Return(r)
TimedOut(r)  == run[r].timed /\ Return(r)

\* Mutant: result files are named by the second only.
ResultFileBySecond(n, t) == <<Min(Names), t>>

\* writeResult's filename: the job's name and the second.
ResultFile(n, t) == <<n, t>>

Opened(r)    == run[r].at # None
FileOf(r)    == ResultFile(run[r].name, run[r].at)
Holds(r)     == run[r].phase = "write"
Sharing(f)   == {r \in Runs : Opened(r) /\ FileOf(r) = f}
Whole(r)     == [state |-> "whole", by |-> r]
Partly(s)    == [state |-> s, by |-> None]

\* The execution is over, and the client that waits for it gets the done event.
Done(r) == client' = IF client[r] = "waiting" THEN [client EXCEPT ![r] = "told"] ELSE client

\* writeResult names the file by the clock, and os.WriteFile empties or creates it. A result
\* that cannot be written is only logged.
OpenResult(r) ==
  /\ run[r].phase = "report"
  /\ \/ LET f == ResultFile(run[r].name, now)
        IN  /\ run' = [run EXCEPT ![r].phase = "write", ![r].at = now]
            /\ results' = [results EXCEPT ![f] = Partly("empty")]
            /\ overlapped' = overlapped \cup {g \in {f} : \E q \in Sharing(f) : Holds(q)}
            /\ UNCHANGED client
     \/ /\ run' = [run EXCEPT ![r].phase = "done"]
        /\ Done(r)
        /\ UNCHANGED <<results, overlapped>>
  /\ UNCHANGED <<files, entries, mu, got, todo, cmdVars, wrote, now, stale, edits>>

\* It writes the result over whatever is there by now: the end of a longer one may stay. A
\* write that fails may have written a part.
WriteResult(r) ==
  /\ Holds(r)
  /\ \/ /\ \/ results' = [results EXCEPT ![FileOf(r)] = Whole(r)]
           \/ /\ results[FileOf(r)].state # "empty"
              /\ results' = [results EXCEPT ![FileOf(r)] = Partly("torn")]
        /\ wrote' = wrote \cup {r}
     \/ /\ results' \in {results, [results EXCEPT ![FileOf(r)] = Partly("torn")],
                         [results EXCEPT ![FileOf(r)] = Whole(r)]}
        /\ UNCHANGED wrote
  /\ run' = [run EXCEPT ![r].phase = "done"]
  /\ Done(r)
  /\ UNCHANGED <<files, entries, mu, got, todo, cmdVars, overlapped, now, stale, edits>>

\* streamCronTest reads the done event, and the process exits with the job's code.
Exit(r) ==
  /\ client[r] = "told"
  /\ client' = [client EXCEPT ![r] = "exited"]
  /\ UNCHANGED <<files, entries, mu, got, todo, cmdVars, run, results, wrote, overlapped, now, stale, edits>>

\* runCronTest on an interrupt: the job keeps running.
Detach(r) ==
  /\ client[r] \in {"waiting", "told"}
  /\ client' = [client EXCEPT ![r] = "detached"]
  /\ UNCHANGED <<files, entries, mu, got, todo, cmdVars, run, results, wrote, overlapped, now, stale, edits>>

Second ==
  /\ now < MaxNow
  /\ \E r \in Runs : run[r].phase \in {"generate", "report", "write"}
  /\ now' = now + 1
  /\ UNCHANGED <<files, entries, mu, got, todo, cmdVars, run, client, results, wrote, overlapped, stale, edits>>

-----------------------------------------------------------------------------
\* What a command does by itself once its form, if it has one, is confirmed.
Step(g) ==
  \/ Check(g) \/ Reread(g) \/ Truncate(g) \/ Write(g) \/ WriteGone(g) \/ Remove(g) \/ Ask(g)
  \/ ReloadLock(g) \/ ReloadRead(g) \/ ReloadInstall(g)

Next ==
  \/ \E g \in Ops :
       \/ \E k \in DOMAIN FirstStep, n \in Names : Invoke(g, k, n)
       \/ Form(g) \/ Interrupt(g) \/ Step(g)
       \/ \E n \in Names, v \in Authored \ Timed : Confirm(g, n, v)
  \/ \E n \in Names, c \in JobsOf(Authored) \cup {Absent, Broken} : Edit(n, c)
  \/ \E r \in Runs :
       \/ \E n \in Names : Execute(r, n)
       \/ \E n \in Names, o \in {0, 1} : ExecuteTest(r, n, o)
       \/ Generated(r) \/ TimedOut(r) \/ OpenResult(r) \/ WriteResult(r) \/ Exit(r) \/ Detach(r)
  \/ Second

\* The processes and goroutines of the commands, the timers and the executor go on. Neither
\* users nor the model provider have to.
Fairness ==
  /\ \A g \in Ops : WF_vars(Step(g))
  /\ \A r \in Runs : /\ WF_vars(TimedOut(r)) /\ WF_vars(Exit(r))
                     /\ WF_vars(OpenResult(r)) /\ WF_vars(WriteResult(r))

Spec == Init /\ [][Next]_vars /\ Fairness

-----------------------------------------------------------------------------
(* Properties                                                              *)

Steps  == {"check", "reread", "truncate", "write", "write_gone", "remove", "ask", "lock", "load"}
Forms  == {"form_name", "form_schedule", "form_prompt", "form_confirm"}
Entries == [status : {"none", "error", "suspended", "running"}, version : Versions \cup {None}]
Requests == [kind : DOMAIN FirstStep \cup {None}, name : Names \cup {None}, content : Contents]
Executions == [phase : {"idle", "generate", "report", "write", "done"}, name : Names \cup {None},
               source : {"scheduled", "manual", None}, timed : BOOLEAN, at : 0 .. MaxNow \cup {None}]
Reports == [state : {"absent", "empty", "torn", "whole"}, by : Runs \cup {None}]

\* The type of the state, with the mutex held exactly during a load.
TypeOK ==
  /\ files \in [Names -> Contents]
  /\ entries \in [Names -> Entries] /\ got \in [Names -> Entries] /\ todo \subseteq Names
  /\ pc \in [Ops -> Steps \cup Forms \cup {"idle", "done"}] /\ op \in [Ops -> Requests]
  /\ mu \in Ops \cup {None}
  /\ \A g \in Ops : pc[g] = "load" <=> mu = g
  /\ run \in [Runs -> Executions]
  /\ client \in [Runs -> {"none", "waiting", "told", "exited", "detached"}]
  /\ results \in [ResultFiles -> Reports]
  /\ wrote \subseteq Runs /\ overlapped \subseteq ResultFiles
  /\ stale \in BOOLEAN /\ edits \in 0 .. MaxEdits /\ now \in 0 .. MaxNow

\* Between commands the scheduler mirrors the files: however the writes of commands and the
\* reads of reloads interleave, the last reload has seen every change made by a command that
\* got as far as asking for one. `cron ls` names the same jobs with and without the daemon,
\* and exactly the valid jobs that are not suspended are registered.
EntriesMatchFiles ==
  ~stale /\ mu = None /\ (\A g \in Ops : pc[g] \notin {"write", "ask", "lock"}) =>
    /\ Listing(TRUE) = Listing(FALSE)
    /\ \A j \in ListJobs :
         LET c == files[j.name]
         IN  /\ j.entry.version = c.version
             /\ j.entry.status = "running"
                  <=> c.kind = "job" /\ ~c.suspended /\ c.version \notin Invalid
             /\ j.entry.status = "suspended" <=> c.suspended

\* A result that was written stays, whole, whatever fails or overlaps: only another execution
\* of the same job that reports in the same second may replace or damage it. When no two had
\* the file open at once and none failed to write it, the result of one of them is in it.
ResultsAreKept ==
  /\ \A r \in wrote :
       \/ results[FileOf(r)] = Whole(r)
       \/ \E q \in Runs \ {r} : Opened(q) /\ run[q].name = run[r].name /\ run[q].at = run[r].at
  /\ \A f \in ResultFiles \ overlapped :
       Sharing(f) # {} /\ Sharing(f) \subseteq wrote => \E r \in Sharing(f) : results[f] = Whole(r)

\* Every command returns, concurrent reloads included; a `cron test` ends although the
\* provider may never answer: the job in the daemon and the process that shows it, unless the
\* user has detached from it before.
CommandsEnd ==
  /\ \A g \in Ops : pc[g] \in Steps ~> pc[g] = "done"
  /\ \A r \in Runs : run[r].phase = "generate" /\ run[r].source = "manual"
                       ~> run[r].phase = "done" /\ client[r] \in {"exited", "detached"}
=============================================================================
