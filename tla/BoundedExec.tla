---------------------------- MODULE BoundedExec -----------------------------
(***************************************************************************)
(* Commands run by the bash and node tools: bounded.Run and its headTailBuf *)
(* (pkg/exec/bounded/bounded.go).  A command writes its output in pieces   *)
(* into a buffer that keeps the first HeadCap and the last TailCap bytes;  *)
(* String renders what was kept.  Standard error has a second buffer that  *)
(* works the same way.  os/exec is external: cmd.Run returns when the      *)
(* process has ended and nobody holds the output pipe any more, and        *)
(* CommandContext kills the process, but not its children, at the timeout  *)
(* or when the context of the turn is cancelled, whichever is first.       *)
(***************************************************************************)
EXTENDS Integers, Sequences, SequencesExt

CONSTANTS
  Bytes,            \* the bytes a command may write
  Newline,          \* the one that ends a line
  HeadCap, TailCap, \* Opts.HeadBytes and Opts.TailBytes
  MaxTimeout,       \* Opts.MaxTimeout, in seconds
  DefaultTimeout,
  MaxWrite,         \* bound on the bytes of one write
  MaxTotal          \* bound on the bytes of a command

ASSUME BoundedExecAssumption ==
  /\ Newline \in Bytes
  /\ HeadCap \in Nat \ {0} /\ TailCap \in Nat \ {0}
  /\ DefaultTimeout \in Nat \ {0} /\ MaxTimeout \in Nat /\ DefaultTimeout <= MaxTimeout
  /\ MaxWrite \in Nat /\ MaxTotal \in Nat

VARIABLES
  head, total,
  tail, tailStart, tailLen, \* the ring
  pending,   \* the bytes of the current Write that its loop has not reached
  written,   \* history: all bytes written
  phase,     \* of Run: "idle", "running", or how it returned
  timeout,   \* the effective timeout, 0 for none
  process,   \* "none", "alive", "ended", or "unstarted" if it could not be started
  orphans,   \* children the command left in the background hold the pipe
  ctxErr     \* cmdCtx.Err(): "none", "deadline" or "cancelled", and it stays what it became first

bufVars == <<head, total, tail, tailStart, tailLen, pending, written>>
cmdVars == <<phase, timeout, process, orphans, ctxErr>>
execVars == <<bufVars, cmdVars>>

Slots == 0 .. TailCap - 1

ExecInit ==
  /\ head = <<>> /\ total = 0
  /\ tail = [i \in Slots |-> Newline] /\ tailStart = 0 /\ tailLen = 0
  /\ pending = <<>> /\ written = <<>>
  /\ phase = "idle" /\ timeout = 0
  /\ process = "none" /\ orphans = FALSE /\ ctxErr = "none"

-----------------------------------------------------------------------------
(* headTailBuf                                                             *)

\* Write, up to its loop: the head takes what it has room for.
Write(p) ==
  /\ pending = <<>>
  /\ LET need == HeadCap - Len(head)
     IN  IF need = 0 THEN pending' = p /\ UNCHANGED head
         ELSE IF Len(p) <= need THEN head' = head \o p /\ UNCHANGED pending
         ELSE /\ head' = head \o SubSeq(p, 1, need)
              /\ pending' = SubSeq(p, need + 1, Len(p))
  /\ total' = total + Len(p)
  /\ written' = written \o p
  /\ UNCHANGED <<tail, tailStart, tailLen>>

\* Mutant: the oldest byte is replaced but stays the oldest.
OverwriteInPlace(c) ==
  /\ tail' = [tail EXCEPT ![tailStart] = c]
  /\ UNCHANGED <<tailStart, tailLen>>

\* The ring is full: the oldest byte makes room.
Overwrite(c) ==
  /\ tail' = [tail EXCEPT ![tailStart] = c]
  /\ tailStart' = (tailStart + 1) % TailCap
  /\ UNCHANGED tailLen

\* An iteration of Write's loop.
Push ==
  /\ pending # <<>>
  /\ IF tailLen < TailCap
     THEN /\ tail' = [tail EXCEPT ![(tailStart + tailLen) % TailCap] = Head(pending)]
          /\ tailLen' = tailLen + 1
          /\ UNCHANGED tailStart
     ELSE Overwrite(Head(pending))
  /\ pending' = Tail(pending)
  /\ UNCHANGED <<head, total, written, cmdVars>>

LinearTail == [i \in 1 .. tailLen |-> tail[(tailStart + i - 1) % TailCap]]

Newlines(s) == {i \in DOMAIN s : s[i] = Newline}

\* The head up to its last newline, the tail from behind its first one; all of it if there
\* is none.
TrimHead(s) == IF Newlines(s) = {} THEN s ELSE SubSeq(s, 1, Max(Newlines(s)))
TrimTail(s) == IF Newlines(s) = {} THEN s ELSE SubSeq(s, Min(Newlines(s)) + 1, Len(s))

\* String, with the number in its marker; 0 stands for no marker.
String ==
  LET bytesDropped == total - Len(head) - tailLen
      headPart == TrimHead(head)
      tailPart == TrimTail(LinearTail)
  IN  IF tailLen = 0 \/ Len(head) # HeadCap \/ bytesDropped <= 0
      THEN [head |-> head, dropped |-> 0, tail |-> LinearTail]
      ELSE [head |-> headPart, tail |-> tailPart,
            dropped |-> bytesDropped + (Len(head) - Len(headPart)) + (tailLen - Len(tailPart))]

-----------------------------------------------------------------------------
(* Run                                                                     *)

\* Mutant: a call without a timeout runs without one.
EffectiveTimeoutNone(t) == t

EffectiveTimeout(t) == IF t <= 0 THEN DefaultTimeout ELSE t

\* boundedOpts and the head of Run. A timeout above the maximum is an error.
Start(t) ==
  /\ phase = "idle"
  /\ \/ /\ EffectiveTimeout(t) > MaxTimeout
        /\ phase' = "refused"
        /\ UNCHANGED <<timeout, process>>
     \/ /\ EffectiveTimeout(t) <= MaxTimeout
        /\ timeout' = EffectiveTimeout(t)
        /\ phase' = "running"
        /\ process' \in {"alive", "unstarted"}
  /\ UNCHANGED <<bufVars, orphans, ctxErr>>

\* Whoever holds the pipe writes to it.
Output(p) ==
  /\ phase = "running" /\ (process = "alive" \/ orphans)
  /\ Len(written) + Len(p) <= MaxTotal
  /\ Write(p)
  /\ UNCHANGED cmdVars

\* The command leaves a child in the background that inherits the pipe.
Fork ==
  /\ process = "alive" /\ ~orphans
  /\ orphans' = TRUE
  /\ UNCHANGED <<bufVars, phase, timeout, process, ctxErr>>

\* The command ends by itself.
Exit ==
  /\ process = "alive"
  /\ process' = "ended"
  /\ UNCHANGED <<bufVars, phase, timeout, orphans, ctxErr>>

OrphansExit ==
  /\ orphans
  /\ orphans' = FALSE
  /\ UNCHANGED <<bufVars, phase, timeout, process, ctxErr>>

\* The context ends for a reason: the process is killed if it is still there.
Over(why) ==
  /\ phase = "running" /\ ctxErr = "none"
  /\ ctxErr' = why
  /\ process' = IF process = "alive" THEN "ended" ELSE process
  /\ UNCHANGED <<bufVars, phase, timeout, orphans>>

\* The deadline.
Timeout == timeout > 0 /\ Over("deadline")

\* The context of the turn is cancelled.
CancelTurn == Over("cancelled")

Returned == {"timed_out", "failed", "exited"}

\* cmd.Run returns, and with it Run. TimedOut looks at the context, not at the process: a
\* command that ended in time is reported as timed out if its children kept the pipe, one that
\* was cancelled never is.
Return ==
  /\ phase = "running" /\ process \in {"ended", "unstarted"} /\ ~orphans /\ pending = <<>>
  /\ phase' = IF ctxErr = "deadline" THEN "timed_out" ELSE IF process = "unstarted" THEN "failed" ELSE "exited"
  /\ UNCHANGED <<bufVars, timeout, process, orphans, ctxErr>>

Pieces == UNION {[1 .. n -> Bytes] : n \in 1 .. MaxWrite}

ExecNext ==
  \/ \E t \in 0 .. MaxTimeout + 1 : Start(t)
  \/ \E p \in Pieces : Output(p)
  \/ Push \/ Fork \/ Exit \/ OrphansExit \/ Timeout \/ CancelTurn \/ Return

\* The timer, the copying goroutine and Run go on; a command need not end.
ExecFairness == WF_execVars(Push) /\ WF_execVars(Timeout) /\ WF_execVars(Return)

ExecSpec == ExecInit /\ [][ExecNext]_execVars /\ ExecFairness

-----------------------------------------------------------------------------
(* Properties                                                              *)

\* The first h bytes and those behind the first t are cut at lines: where the bytes that were
\* kept have a newline, the beginning ends with one and the end follows one, and no other line
\* is lost; where they have none, all of them are there.
CutAtLines(h, t) ==
  /\ IF \E i \in 1 .. HeadCap : written[i] = Newline THEN h > 0 /\ written[h] = Newline ELSE h = HeadCap
  /\ IF \E i \in total - TailCap + 1 .. total : written[i] = Newline
     THEN written[t] = Newline ELSE t = total - TailCap
  /\ \A i \in (h + 1 .. HeadCap) \cup (total - TailCap + 1 .. t - 1) : written[i] # Newline

\* What the model is shown is true to what the command wrote: everything if it fits, and
\* otherwise a beginning and an end cut at lines, with the number of bytes between them, for
\* every way the output was cut into writes.
OutputIsFaithful ==
  pending = <<>> =>
    /\ total = Len(written)
    /\ total <= HeadCap + TailCap => String.dropped = 0
    /\ String.dropped = 0 => String.head \o String.tail = written
    /\ String.dropped > 0 =>
         /\ IsPrefix(String.head, written) /\ IsSuffix(String.tail, written)
         /\ Len(String.head) + String.dropped + Len(String.tail) = total
         /\ CutAtLines(Len(String.head), total - Len(String.tail))

\* A command returns, by its timeout at the latest, unless a child it left in the
\* background keeps the pipe open: Run then waits for the child.
RunReturns == phase = "running" ~> phase \in Returned \/ orphans
=============================================================================
