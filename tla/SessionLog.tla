----------------------------- MODULE SessionLog -----------------------------
(***************************************************************************)
(* What the session manager promises its clients, with no goroutine, lock, *)
(* context or memory agent in it: sessions with ids of their own, each with *)
(* a log of whole turns.  A turn is in the log of one session or of none,  *)
(* and never twice.  A session that was removed stays removed; a turn that *)
(* had already found it may still be committed to its log.                 *)
(***************************************************************************)
EXTENDS Naturals, Sequences

CONSTANTS Sessions, Turns

VARIABLES
  live,  \* the sessions clients can address
  used,  \* every session there has been
  log    \* the turns of each session, oldest first

logVars == <<live, used, log>>

LogInit ==
  /\ live = {}
  /\ used = {}
  /\ log  = [s \in Sessions |-> <<>>]

Open(s) ==
  /\ s \notin used
  /\ live' = live \cup {s}
  /\ used' = used \cup {s}
  /\ UNCHANGED log

Remove(s) ==
  /\ s \in live
  /\ live' = live \ {s}
  /\ UNCHANGED <<used, log>>

Committed(t) == \E s \in Sessions : \E i \in 1 .. Len(log[s]) : log[s][i] = t

Commit(s, t) ==
  /\ s \in used
  /\ ~Committed(t)
  /\ log' = [log EXCEPT ![s] = Append(@, t)]
  /\ UNCHANGED <<live, used>>

LogNext ==
  \/ \E s \in Sessions : Open(s) \/ Remove(s)
  \/ \E s \in Sessions, t \in Turns : Commit(s, t)

LogSpec == LogInit /\ [][LogNext]_logVars
=============================================================================
