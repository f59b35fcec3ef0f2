------------------------------ MODULE MCTools -------------------------------
(* A small instance of BoundedExec, FileTools and Search for TLC. They     *)
(* share no state: a behaviour exercises one of them, as interleaving them *)
(* would add nothing.                                                      *)
EXTENDS BoundedExec, FileTools, Search

Letters   == {"a", "b"}
SomeFiles == UNION {[1 .. n -> Letters] : n \in 1 .. 3}
Edits     == [old : Letters, new : Letters, all : BOOLEAN]

MCRequests ==
  [tool : {"read"}, offset : -1 .. 4, limit : -1 .. 2]
    \cup [tool : {"write"}, content : {<<"b">>, <<"a", "b", "a">>}]
    \cup [tool : {"update"}, edits : {<<e>> : e \in {x \in Edits : ~x.all}}]
    \cup [tool : {"multi"}, edits : {<<>>} \cup {<<e>> : e \in Edits} \cup {<<e, f>> : e \in Edits, f \in {x \in Edits : ~Identical(x)}}]

Dir(path, inside, skip) ==
  [path |-> path, inside |-> inside, skip |-> skip, kind |-> "dir", ext |-> NoPattern, big |-> FALSE,
   binary |-> FALSE, lines |-> <<>>, scanned |-> 0, mtime |-> 0]
File(path, inside, ext, lines, mtime) ==
  [path |-> path, inside |-> inside, skip |-> FALSE, kind |-> "file", ext |-> ext, big |-> FALSE,
   binary |-> FALSE, lines |-> lines, scanned |-> Len(lines), mtime |-> mtime]

\* a/ with x.go, then a.go, vendor/ with y.go, and z.md, which may be special: a large or a
\* binary file, or a link. Long(t, n): the scan of x.go breaks off after n of its matches.
Tree(xLines, xTime, z) ==
  << Dir(Root, <<>>, FALSE),
     Dir(1, <<Root>>, FALSE), File(3, <<Root, 1>>, "go", xLines, xTime),
     File(2, <<Root>>, "go", <<1>>, 1),
     Dir(4, <<Root>>, TRUE), File(5, <<Root, 4>>, "go", <<1>>, 3),
     z >>
Z == File(6, <<Root>>, "md", <<2>>, 2)
Long(t, n) == [t EXCEPT ![3].scanned = n]

MCTrees ==
  {Tree(l, t, Z) : l \in {<<>>, <<1, 2>>}, t \in {1, 2}}
    \cup {Tree(<<1, 2>>, 1, z) : z \in {[Z EXCEPT !.big = TRUE], [Z EXCEPT !.binary = TRUE], [Z EXCEPT !.kind = "other"]}}
    \cup {Long(Tree(<<1, 2>>, 1, Z), n) : n \in {0, 1}}

Scopes == {Root, 1, 4, 99, Outside}

MCQueries ==
  [tool : {"grep"}, valid : {TRUE}, pattern : {NoPattern, "go"}, scope : Scopes, limit : {-1, 0, 1, 3}, mode : {"content", "files", "count"}]
    \cup [tool : {"grep"}, valid : {FALSE}, scope : {Root}]
    \cup [tool : {"glob"}, valid : {TRUE}, pattern : {NoPattern, "go"}, scope : Scopes, limit : {-1, 0, 1}, sort : {"mtime_desc", "lex"}]
    \cup [tool : {"list"}, valid : {TRUE}, pattern : {NoPattern, "go"}, scope : {Root, 1, 2, 99}, limit : {0}]

FirstFile == <<"a">>
FirstTree == Tree(<<>>, 1, Z)

NoExec   == phase = "idle"
NoFile   == file = FirstFile /\ step = [c \in Calls |-> "idle"]
NoSearch == tree = FirstTree /\ query = NoQuery

ExecStep   == NoFile /\ NoSearch /\ ExecNext /\ UNCHANGED <<fileVars, searchVars>>
FileStep   == NoExec /\ NoSearch /\ FilesNext /\ UNCHANGED <<execVars, searchVars>>
SearchStep == NoExec /\ NoFile /\ SearchNext /\ UNCHANGED <<execVars, fileVars>>

Init == ExecInit /\ FilesInit /\ SearchInit
Next == ExecStep \/ FileStep \/ SearchStep
Spec == /\ Init
        /\ [][Next]_<<execVars, fileVars, searchVars>>
        /\ ExecFairness
=============================================================================
