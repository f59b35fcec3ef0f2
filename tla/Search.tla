------------------------------- MODULE Search -------------------------------
(***************************************************************************)
(* The tools that look for files: grep and glob (pkg/agent/tools/search.go *)
(* on top of pkg/search/search.go) and list_files (files.go).  One call    *)
(* walks a tree of files, which may be unreadable in places, and its       *)
(* context may be cancelled meanwhile.  A path is its rank in the order of *)
(* path strings, which is not the order of the walk: "a/x" is visited      *)
(* before "a.go" and sorts behind it.  Patterns are abstracted to what     *)
(* they match.                                                             *)
(***************************************************************************)
EXTENDS Integers, Sequences, FiniteSets, SequencesExt

CONSTANTS
  Trees,      \* sequences of entries, in the order filepath.WalkDir visits them
  Queries,    \* what a call may ask for: records with the field tool
  DefaultHeadLimit, DefaultPathsMaxResults, ListLimit,
  MaxMissed   \* bound on the entries that cannot be read

Root      == 0  \* the path of the workspace
Outside   == -1 \* a path that is not under it
NoPattern == "" \* no pattern given

\* What filepath.WalkDir and os.ReadDir yield: a directory before what is in it, and the
\* entries of a directory by name. The lines of an entry are the numbers of those that match;
\* scanned of them are before the first line the scanner cannot take, which is one longer than
\* its buffer of 1 MiB or one that cannot be read.
WalkOrder(t) ==
  /\ DOMAIN t = 1 .. Len(t) /\ Len(t) \in Nat \ {0}
  /\ t[1].path = Root /\ t[1].kind = "dir" /\ t[1].inside = <<>>
  /\ \A i \in DOMAIN t :
       /\ t[i].path \in Nat /\ t[i].inside \in Seq(Nat) /\ t[i].mtime \in Int
       /\ t[i].lines \in Seq(Nat) /\ \A k, l \in DOMAIN t[i].lines : k < l => t[i].lines[k] < t[i].lines[l]
       /\ t[i].scanned \in 0 .. Len(t[i].lines)
       /\ i > 1 => \E j \in 1 .. i - 1 : t[j].kind = "dir" /\ t[i].inside = Append(t[j].inside, t[j].path)
  /\ \A i, j \in DOMAIN t : i < j =>
       t[i].path # t[j].path /\ (t[i].inside = t[j].inside => t[i].path < t[j].path)

ASSUME SearchAssumption ==
  /\ {DefaultHeadLimit, DefaultPathsMaxResults, ListLimit} \subseteq Nat \ {0}
  /\ MaxMissed \in Nat
  /\ \A t \in Trees : WalkOrder(t)
  /\ \A q \in Queries :
       /\ q.valid \in BOOLEAN /\ q.scope \in Int
       /\ \/ q.tool = "grep" /\ (q.valid => q.limit \in Int /\ q.mode \in {"content", "files", "count"})
          \/ q.tool = "glob" /\ (q.valid => q.limit \in Int /\ q.sort \in {"mtime_desc", "lex"})
          \/ q.tool = "list"

VARIABLES
  tree,       \* the files
  query,      \* what the call was asked for
  walk,       \* the positions in tree of the entries not visited yet
  found,      \* the matches so far
  reply,      \* what the call returned
  cancelled,  \* the context of the turn is cancelled
  missed      \* history: the entries that could not be read

searchVars == <<tree, query, walk, found, reply, cancelled, missed>>

NoQuery == [tool |-> "none"]
NoReply == [kind |-> "none"]
Refusal == [kind |-> "error"]
Listed(items, total) ==
  [kind |-> "items", items |-> items, total |-> total, truncated |-> total > Len(items)]

SearchInit ==
  /\ tree \in Trees
  /\ query = NoQuery /\ walk = {} /\ found = <<>> /\ reply = NoReply
  /\ cancelled = FALSE /\ missed = {}

Entries       == Range(tree)
Parent(e)     == Last(e.inside)
Under(e, p)   == p \in Range(e.inside)
InScope(e, p) == e.path = p \/ Under(e, p)
Matches(p, e) == p = NoPattern \/ e.ext = p

-----------------------------------------------------------------------------
\* resolveUnderRoot, for grep and glob.
Escapes(q) == q.tool # "list" /\ q.scope = Outside

\* The checks before the walk: pattern, output mode and order, and the scope. os.ReadDir of
\* what is no directory is an error; a walk of what is not there finds nothing.
Refused(q) ==
  \/ ~q.valid
  \/ Escapes(q)
  \/ q.tool = "list" /\ \A e \in Entries : e.path = q.scope => e.kind # "dir"

\* Where a walk comes by: the entries of a directory, or a whole subtree.
WalkOf(q) ==
  {i \in DOMAIN tree : IF q.tool = "list" THEN tree[i].path # Root /\ Parent(tree[i]) = q.scope
                                          ELSE InScope(tree[i], q.scope)}

Begin(q) ==
  /\ query = NoQuery
  /\ query' = q
  /\ IF Refused(q)
     THEN reply' = Refusal /\ UNCHANGED walk
     ELSE walk' = WalkOf(q) /\ UNCHANGED reply
  /\ UNCHANGED <<tree, found, cancelled, missed>>

\* scanFile: nothing of a binary file, otherwise the matching lines with their numbers, up to
\* where the scanner stops. Nobody asks for its error: what was found before it counts.
ScanFile(e) == IF e.binary THEN <<>> ELSE [i \in 1 .. e.scanned |-> <<e.path, e.lines[i]>>]

\* What Content's callback adds for a file.
ContentHits(e) ==
  IF e.kind = "file" /\ ~e.big /\ Matches(query.pattern, e) THEN ScanFile(e) ELSE <<>>

\* What Paths' callback adds for a file, whatever its size and contents.
PathHits(e) ==
  IF e.kind = "file" /\ Matches(query.pattern, e) THEN <<<<e.path, e.mtime>>>> ELSE <<>>

\* list_files takes directories too, and breaks off at its limit.
ListHits(e) ==
  IF Matches(query.pattern, e) /\ Len(found) < ListLimit THEN <<<<e.path, 0>>>> ELSE <<>>

Hits(e) == CASE query.tool = "grep" -> ContentHits(e)
             [] query.tool = "glob" -> PathHits(e)
             [] query.tool = "list" -> ListHits(e)

Beside(i) == {j \in walk \ {i} : ~Under(tree[j], tree[i].path)}

\* fs.SkipDir for a directory of the skip list, unless the walk started there.
Skips(e) == query.tool # "list" /\ e.kind = "dir" /\ e.skip /\ e.path # query.scope

\* The callback of WalkDir, and the body of list_files' loop.
Visit ==
  /\ reply = NoReply /\ walk # {}
  /\ LET i == Min(walk)  e == tree[i]
     IN  \/ /\ cancelled /\ query.tool # "list"
            /\ reply' = Refusal
            /\ walk' = {}
            /\ UNCHANGED <<found, missed>>
         \/ /\ ~cancelled \/ query.tool = "list"
            /\ walk'  = IF Skips(e) THEN Beside(i) ELSE walk \ {i}
            /\ found' = found \o Hits(e)
            /\ UNCHANGED <<reply, missed>>
         \/ /\ ~cancelled \/ query.tool = "list" \* the entry cannot be read
            /\ Cardinality(missed) < MaxMissed
            /\ missed' = missed \cup {e.path}
            /\ walk' = Beside(i)
            /\ UNCHANGED <<found, reply>>
  /\ UNCHANGED <<tree, query, cancelled>>

Cancel ==
  /\ query # NoQuery /\ reply = NoReply /\ ~cancelled
  /\ cancelled' = TRUE
  /\ UNCHANGED <<tree, query, walk, found, reply, missed>>

-----------------------------------------------------------------------------
(* The result                                                              *)

ByPath(a, b)    == a[1] < b[1] \/ (a[1] = b[1] /\ a[2] < b[2])
MtimeDesc(a, b) == a[2] > b[2] \/ (a[2] = b[2] /\ a[1] < b[1])

Order(a, b) == IF query.tool = "glob" /\ query.sort = "mtime_desc" THEN MtimeDesc(a, b) ELSE ByPath(a, b)

\* Mutant: the matches stay in the order of the walk.
UnsortedRows(rows) == rows

\* The place of a row: behind those before it in the order, and behind equal ones found before it.
Place(rows, i) ==
  Cardinality({j \in DOMAIN rows : Order(rows[j], rows[i]) \/ (~Order(rows[i], rows[j]) /\ j <= i)})

Sorted(rows) == [k \in DOMAIN rows |-> rows[CHOOSE i \in DOMAIN rows : Place(rows, i) = k]]

\* A limit of 0 or less is the default for grep; for glob a negative one is none.
HeadLimit(n)  == IF n <= 0 THEN DefaultHeadLimit ELSE n
MaxResults(n) == IF n = 0 THEN DefaultPathsMaxResults ELSE n

Capped(rows, limit) ==
  Listed(IF limit > 0 /\ Len(rows) > limit THEN SubSeq(rows, 1, limit) ELSE rows, Len(rows))

PathsOf(rows) == {rows[i][1] : i \in DOMAIN rows}

\* content: the end of Content caps the matches.
BuildContentOutput == Capped(Sorted(found), HeadLimit(query.limit))

\* files_with_matches: every file once.
BuildFilesOutput ==
  Capped(Sorted(SetToSeq({<<p, 0>> : p \in PathsOf(found)})), HeadLimit(query.limit))

\* count: the number of matches of every file.
BuildCountOutput ==
  LET count(p) == Cardinality({i \in DOMAIN found : found[i][1] = p})
  IN  Capped(Sorted(SetToSeq({<<p, count(p)>> : p \in PathsOf(found)})), HeadLimit(query.limit))

\* glob: the end of Paths.
BuildPaths == Capped(Sorted(found), MaxResults(query.limit))

Reply ==
  /\ query # NoQuery /\ reply = NoReply /\ walk = {}
  /\ reply' = CASE query.tool = "glob" -> BuildPaths
                [] query.tool = "list" -> Listed(found, Len(found))
                [] query.tool = "grep" ->
                     CASE query.mode = "content" -> BuildContentOutput
                       [] query.mode = "files"   -> BuildFilesOutput
                       [] query.mode = "count"   -> BuildCountOutput
  /\ UNCHANGED <<tree, query, walk, found, cancelled, missed>>

SearchNext == (\E q \in Queries : Begin(q)) \/ Visit \/ Cancel \/ Reply

SearchSpec == SearchInit /\ [][SearchNext]_searchVars

-----------------------------------------------------------------------------
(* Properties                                                              *)

\* The files a call has to look at: none below a directory of the skip list or one that
\* could not be read, the start of the walk excepted.
Visible ==
  {e \in Entries :
     /\ e.path \notin missed /\ \A p \in missed : ~Under(e, p)
     /\ InScope(e, query.scope)
     /\ ~\E d \in Entries : d.skip /\ Under(e, d.path) /\ Under(d, query.scope)}

\* What there is to be found in a file: all matching lines, unless the scan broke off.
Lines(e) == {<<e.path, e.lines[i]>> : i \in 1 .. e.scanned}
Texts    == {e \in Visible : e.kind = "file" /\ Matches(query.pattern, e) /\ ~e.big /\ ~e.binary}

\* What there is to be found, by the tool and the output mode.
Expected ==
  CASE query.tool = "list" -> {<<e.path, 0>> : e \in {x \in Entries : /\ x.path \notin missed
                                                    /\ x.path # Root /\ Parent(x) = query.scope
                                                    /\ Matches(query.pattern, x)}}
    [] query.tool = "glob" -> {<<e.path, e.mtime>> : e \in {x \in Visible : x.kind = "file" /\ Matches(query.pattern, x)}}
    [] query.tool = "grep" ->
         CASE query.mode = "content" -> UNION {Lines(e) : e \in Texts}
           [] query.mode = "files"   -> {<<e.path, 0>> : e \in {x \in Texts : x.scanned > 0}}
           [] query.mode = "count"   -> {<<e.path, e.scanned>> : e \in {x \in Texts : x.scanned > 0}}

\* The answer holds the first results in the promised order, every one of them once, and
\* says how many there are and whether some are left out. list_files is cut off at its limit
\* and does not say so.
IsExact(answer) ==
  LET got == Range(answer.items)
  IN  /\ got \subseteq Expected
      /\ \A i \in 1 .. Len(answer.items) - 1 : Order(answer.items[i], answer.items[i + 1])
      /\ \A x \in Expected \ got, y \in got : Order(y, x)
      /\ query.tool # "list" =>
           /\ answer.total = Cardinality(Expected)
           /\ answer.truncated <=> got # Expected
      /\ got # Expected =>
           Len(answer.items) = IF query.tool = "list" THEN ListLimit
                               ELSE IF query.limit > 0 THEN query.limit
                               ELSE IF query.tool = "grep" THEN DefaultHeadLimit
                               ELSE DefaultPathsMaxResults
      /\ query.tool = "glob" /\ query.limit < 0 => got = Expected

\* A search that answers is exact about what it could reach, whatever order the walk has and
\* however it was limited. What it could not reach is left out and the answer does not say so:
\* entries that could not be read, and the rest of a file whose scan broke off at a line too
\* long for the scanner, so that for such a file a count is a lower bound.
SearchIsExact == reply.kind = "items" => IsExact(reply)
=============================================================================
