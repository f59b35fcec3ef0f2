----------------------------- MODULE FileTools ------------------------------
(***************************************************************************)
(* The tools read_file, write_file, update_file and multi_edit on one file *)
(* (pkg/agent/tools/files.go).  Calls of a round run in parallel and share *)
(* no lock: each reads the file, works on its copy, and writes it back     *)
(* with os.WriteFile, which empties the file first and then writes from    *)
(* its beginning.  A file is a sequence of lines, and the strings a call   *)
(* searches for and puts in are lines.                                     *)
(***************************************************************************)
EXTENDS Integers, Sequences, FiniteSets

CONSTANTS
  FileLines,  \* what a line may be
  Calls,      \* tool calls, each with its goroutine
  Requests,   \* what a call may ask for: records with the field tool
  Files,      \* the contents the file may have at first
  ReadLimit,  \* the most lines read_file returns
  Nobody      \* not a call

Replacements == [old : FileLines, new : FileLines, all : BOOLEAN]

ASSUME FileToolsAssumption ==
  /\ \A q \in Requests :
       \/ q.tool = "read" /\ q.offset \in Int /\ q.limit \in Int
       \/ q.tool = "write" /\ q.content \in Seq(FileLines)
       \/ q.tool = "update" /\ q.edits \in Seq(Replacements) /\ Len(q.edits) = 1 /\ ~q.edits[1].all
       \/ q.tool = "multi" /\ q.edits \in Seq(Replacements)
  /\ Files \subseteq Seq(FileLines)
  /\ ReadLimit \in Nat \ {0}
  /\ Nobody \notin Calls

VARIABLES
  file,       \* the file
  step,       \* where each call is
  request,    \* what it was asked for
  content,    \* its copy of the file
  edit,       \* the next edit of the list
  answer,     \* what it returned
  before,     \* history: the file when the call began
  latest,     \* history: the call that returned last
  disturbed   \* history: calls have overlapped, or the file could not be read or written

fileVars == <<file, step, request, content, edit, answer, before, latest, disturbed>>

NoRequest == [tool |-> "none"]
Pending   == [ok |-> FALSE, lines |-> <<>>]
Failure   == [ok |-> FALSE, lines |-> <<>>]
Success   == [ok |-> TRUE,  lines |-> <<>>]

FilesInit ==
  /\ file \in Files
  /\ step = [c \in Calls |-> "idle"]
  /\ request = [c \in Calls |-> NoRequest]
  /\ content = [c \in Calls |-> <<>>]
  /\ edit = [c \in Calls |-> 1]
  /\ answer = [c \in Calls |-> Pending]
  /\ before = [c \in Calls |-> <<>>]
  /\ latest = Nobody
  /\ disturbed = FALSE

Goto(c, l) == step' = [step EXCEPT ![c] = l]

Finish(c, a) ==
  /\ answer' = [answer EXCEPT ![c] = a]
  /\ latest' = c
  /\ Goto(c, "done")

Identical(e) == e.old = e.new

\* A call begins. multi_edit refuses an empty list, and an edit that changes nothing,
\* before it looks at the file.
Call(c, q) ==
  /\ step[c] = "idle"
  /\ request' = [request EXCEPT ![c] = q]
  /\ before' = [before EXCEPT ![c] = file]
  /\ disturbed' = (disturbed \/ \E d \in Calls : step[d] \notin {"idle", "done"})
  /\ \/ /\ q.tool = "multi" /\ (q.edits = <<>> \/ \E i \in DOMAIN q.edits : Identical(q.edits[i]))
        /\ Finish(c, Failure)
        /\ UNCHANGED content
     \/ /\ q.tool = "multi" /\ q.edits # <<>> /\ \A i \in DOMAIN q.edits : ~Identical(q.edits[i])
        /\ Goto(c, "read")
        /\ UNCHANGED <<content, answer, latest>>
     \/ /\ q.tool \in {"read", "update"}
        /\ Goto(c, "read")
        /\ UNCHANGED <<content, answer, latest>>
     \/ /\ q.tool = "write"
        /\ content' = [content EXCEPT ![c] = q.content]
        /\ Goto(c, "truncate")
        /\ UNCHANGED <<answer, latest>>
  /\ UNCHANGED <<file, edit>>

\* read_file's start: the 1-based offset, at most the end of the file.
StartOf(offset, len) ==
  LET start == IF offset > 0 THEN offset - 1 ELSE 0
  IN  IF start > len THEN len ELSE start

\* read_file: at most limit lines from start on, with their numbers.
Numbered(lines, offset, limit) ==
  LET start == StartOf(offset, Len(lines))
      most  == IF limit > 0 /\ limit < ReadLimit THEN limit ELSE ReadLimit
      rest  == Len(lines) - start
  IN  [i \in 1 .. (IF rest > most THEN most ELSE rest) |-> <<start + i, lines[start + i]>>]

\* The file cannot be read or written, or read_file meets what is not text.
IOError(c) == Finish(c, Failure) /\ disturbed' = TRUE

ReadFile(c) ==
  /\ step[c] = "read"
  /\ \/ /\ request[c].tool = "read"
        /\ Finish(c, [ok |-> TRUE, lines |-> Numbered(file, request[c].offset, request[c].limit)])
        /\ UNCHANGED <<content, disturbed>>
     \/ /\ request[c].tool # "read"
        /\ content' = [content EXCEPT ![c] = file]
        /\ Goto(c, "edit")
        /\ UNCHANGED <<answer, latest, disturbed>>
     \/ IOError(c) /\ UNCHANGED content
  /\ UNCHANGED <<file, request, edit, before>>

Occurrences(lines, x) == {i \in DOMAIN lines : lines[i] = x}

\* Mutant: an edit that cannot be applied ends the list, and what is there is written.
OnMissingWrites(c) == Goto(c, "truncate") /\ UNCHANGED <<answer, latest>>

OnMissing(c) == Finish(c, Failure)

\* strings.Replace with a count of 1, and strings.ReplaceAll
ReplaceFirst(lines, e) ==
  LET first == CHOOSE i \in Occurrences(lines, e.old) : \A j \in Occurrences(lines, e.old) : i <= j
  IN  [lines EXCEPT ![first] = e.new]
ReplaceEvery(lines, e) == [i \in DOMAIN lines |-> IF lines[i] = e.old THEN e.new ELSE lines[i]]

\* One edit of update_file or multi_edit: the old string has to be there, and only once
\* unless all are to be replaced.
Edit(c) ==
  /\ step[c] = "edit"
  /\ LET e == request[c].edits[edit[c]]
         n == Cardinality(Occurrences(content[c], e.old))
     IN  IF n = 0 \/ (n > 1 /\ ~e.all)
         THEN OnMissing(c) /\ UNCHANGED <<content, edit>>
         ELSE /\ content' = [content EXCEPT ![c] = IF e.all THEN ReplaceEvery(@, e) ELSE ReplaceFirst(@, e)]
              /\ edit' = [edit EXCEPT ![c] = @ + 1]
              /\ Goto(c, IF edit[c] = Len(request[c].edits) THEN "truncate" ELSE "edit")
              /\ UNCHANGED <<answer, latest>>
  /\ UNCHANGED <<file, request, before, disturbed>>

\* os.WriteFile opens the file, which empties it ...
Truncate(c) ==
  /\ step[c] = "truncate"
  /\ \/ /\ file' = <<>>
        /\ Goto(c, "write")
        /\ UNCHANGED <<answer, latest, disturbed>>
     \/ IOError(c) /\ UNCHANGED file
  /\ UNCHANGED <<request, content, edit, before>>

\* ... and writes from its beginning: what a longer write has left behind there stays.
WriteFile(c) ==
  /\ step[c] = "write"
  /\ \/ /\ file' = content[c] \o SubSeq(file, Len(content[c]) + 1, Len(file))
        /\ Finish(c, Success)
        /\ UNCHANGED disturbed
     \/ IOError(c) /\ UNCHANGED file
  /\ UNCHANGED <<request, content, edit, before>>

FilesNext ==
  \E c \in Calls :
    \/ \E q \in Requests : Call(c, q)
    \/ ReadFile(c) \/ Edit(c) \/ Truncate(c) \/ WriteFile(c)

FilesSpec == FilesInit /\ [][FilesNext]_fileVars

-----------------------------------------------------------------------------
(* Properties                                                              *)

\* The contents after each prefix of a list of edits; the last one only counts if every
\* edit found its string, once or with replace_all.
AfterEdits(lines, edits, k) ==
  LET after[i \in 0 .. k] ==
        IF i = 0 THEN lines ELSE [j \in DOMAIN lines |->
          IF after[i - 1][j] = edits[i].old THEN edits[i].new ELSE after[i - 1][j]]
  IN  after[k]

Applies(lines, edits) ==
  /\ edits # <<>>
  /\ \A k \in DOMAIN edits :
       LET found == Occurrences(AfterEdits(lines, edits, k - 1), edits[k].old)
       IN  found # {} /\ (edits[k].all \/ Cardinality(found) = 1)

Alone == \A d \in Calls : step[d] \in {"idle", "done"}

\* What a call answers from the file it found, ...
Answered(q, old, a) ==
  CASE q.tool = "write" -> a.ok
    [] q.tool = "read"  ->
         LET first == IF q.offset > 0 THEN q.offset ELSE 1
         IN  {a.lines[i] : i \in DOMAIN a.lines} =
               {<<n, old[n]>> : n \in {m \in DOMAIN old :
                  first <= m /\ m < first + ReadLimit /\ (q.limit > 0 => m < first + q.limit)}}
    [] OTHER -> a.ok = (Applies(old, q.edits) /\ (q.tool = "multi" =>
                          \A i \in DOMAIN q.edits : ~Identical(q.edits[i])))

\* ... and the file it leaves behind.
Left(q, old, a) ==
  CASE q.tool = "write" -> q.content
    [] q.tool = "read"  -> old
    [] OTHER -> IF a.ok THEN AfterEdits(old, q.edits, Len(q.edits)) ELSE old

\* A call that overlaps no other and whose write does not fail is atomic: it answers for
\* the file it found, an edit list is applied as a whole or not at all, a later edit sees
\* the earlier ones, and read_file returns the numbered lines it was asked for.
CallsAreAtomic ==
  ~disturbed /\ latest # Nobody =>
    /\ Answered(request[latest], before[latest], answer[latest])
    /\ Alone => file = Left(request[latest], before[latest], answer[latest])
=============================================================================
