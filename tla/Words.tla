------------------------------- MODULE Words -------------------------------
(***************************************************************************)
(* From text and trees to lists of words: the meaning of the constructs,   *)
(* and the jobs that compare it with what match.c, glob.c, glom.c and      *)
(* split.c compute.                                                        *)
(*                                                                         *)
(* A job is one call: a pattern tried on lists of subjects, a pattern      *)
(* expanded into file names, a tree made into words.  out is what the call *)
(* returned.  The job "split" is any sequence of splits, which share state.*)
(***************************************************************************)
EXTENDS WordBuilding, MatchJobs, Splitting

CONSTANTS
  PathPatterns,\* patterns expanded into file names
  Homes,       \* what %home may return
  Trees,       \* the trees made into words
  Env          \* the variables, as a function from names to lists

\* glob1 writes no zero behind the flags of a component.  rangematch looks there
\* only in a class that is still open at a last "-": such patterns, for which it
\* would find flags of an earlier component, are left out.
OpenRange(p) ==
  \E i, j \in DOMAIN p : /\ i < j /\ p[i] = "[" /\ p[j] = "-" /\ At(p, j + 1) \in {SLASH, NUL}
                         /\ \A k \in i .. j : p[k] # SLASH
ASSUME PathPatternsAssumption == \A word \in PathPatterns : ~OpenRange(word.str)

-----------------------------------------------------------------------------
Marked(s, raw) == [i \in DOMAIN s |-> [char |-> s[i], raw |-> raw]]
MEANSFAILURE == <<Marked(FAILED[1], FALSE)>>

Plain(m) == [i \in DOMAIN m |-> m[i].char]
IsWild(m) == \E i \in DOMAIN m : m[i].raw /\ m[i].char \in {"*", "?", "["}

-----------------------------------------------------------------------------
(* The meaning of a path pattern: every slash and every name without a     *)
(* wildcard stands for itself, a name with one for the names it matches in *)
(* the directory before it; what does not exist is left out.               *)
Runs(m) ==
  LET starts == {i \in DOMAIN m : i = 1 \/ (m[i].char = SLASH) # (m[i - 1].char = SLASH)}
      from == SetToSortSeq(starts, <)
  IN  [k \in DOMAIN from |-> SubSeq(m, from[k], IF k = Len(from) THEN Len(m) ELSE from[k + 1] - 1)]

InDirectory(path, m) ==
  LET dir == IF path = <<>> THEN DOT ELSE path IN
  IF m[1].char = SLASH THEN {Plain(m)}
  ELSE IF ~IsDir(dir) \/ (IsWild(m) /\ ~CanRead(dir)) THEN {}
  ELSE IF ~IsWild(m) THEN {Plain(m)}
  ELSE {name \in Listing(dir) : P!Matches(name, P!Items(m)) /\ (name[1] = "." => m[1].char = ".")}

FileNames(m) ==
  LET paths == FoldLeft(LAMBDA found, run : UNION {{path \o name : name \in InDirectory(path, run)} : path \in found},
                        {<<>>}, Runs(m))
  IN  {path \in paths : Exists(path)}

\* a word with its tilde replaced: the home directory is taken literally
IsTilde(m) == m # <<>> /\ m[1] = [char |-> "~", raw |-> TRUE]
AtHome(m, home) ==
  LET ends == {i \in DOMAIN m : m[i].char = SLASH} \cup {Len(m) + 1}
  IN  IF ~IsTilde(m) \/ home \in {NoHome, <<>>} THEN m
      ELSE Marked(home[1], FALSE) \o From(m, Min(ends))

Expansion(m) ==
  LET names == FileNames(m) IN
  IF ~IsWild(m) \/ names = {} THEN <<Plain(m)>> ELSE SetToSortSeq(names, Before)

Expanded(list, home) ==
  IF list = MEANSFAILURE \/ (Len(home) > 1 /\ \E k \in DOMAIN list : IsTilde(list[k])) THEN FAILED
  ELSE FlattenSeq([k \in DOMAIN list |-> Expansion(AtHome(list[k], home))])

-----------------------------------------------------------------------------
(* The meaning of a tree: marked words.  Only literal words are raw.       *)
\* the indexes that a list of subscripts names, <<0>> if it is malformed
Indexes(list, subs) ==
  LET dots == {k \in DOMAIN subs : subs[k] = ELLIPSIS}
      n(k) == atoi(subs[k])
      lo(k) == IF k = 1 THEN 1 ELSE n(k - 1)
      hi(k) == IF k = Len(subs) THEN Len(list) ELSE n(k + 1)
      At1(k) == CASE k \in dots -> [i \in 1 .. Max({0, hi(k) - lo(k) + 1}) |-> lo(k) + i - 1]
                  [] {k - 1, k + 1} \cap dots # {} -> <<>>
                  [] OTHER -> <<n(k)>>
      bad == \/ \E k \in DOMAIN subs \ dots : n(k) < 1
             \/ \E k, l \in dots : l - k \in {1, 2}
  IN  IF bad THEN <<0>> ELSE FlattenSeq([k \in DOMAIN subs |-> At1(k)])

Meant(list, subs) ==
  LET indexes == Indexes(list, subs) IN
  IF indexes = <<0>> THEN FAILED
  ELSE LET there == SelectSeq(indexes, LAMBDA i : i <= Len(list))
       IN  [k \in DOMAIN there |-> list[there[k]]]

\* nxes.1: "$n, where n is an integer, is a shorthand for $*(n)"
Value(name) ==
  IF name = <<>> THEN FAILED
  ELSE IF ToSet(name) \subseteq ToSet(Digits) /\ name # <<"0">> THEN Meant(Env[STAR], <<name>>)
  ELSE IF name \in DOMAIN Env THEN Env[name] ELSE <<>>

RECURSIVE Meaning(_)
Meaning(t) ==
  LET Quoted(list) == IF list = FAILED THEN MEANSFAILURE ELSE [k \in DOMAIN list |-> Marked(list[k], FALSE)]
      Text(u) == LET m == Meaning(u) IN IF m = MEANSFAILURE THEN FAILED ELSE [k \in DOMAIN m |-> Plain(m[k])]
      Both(a, b, list) == IF MEANSFAILURE \in {a, b} THEN MEANSFAILURE ELSE list
  IN CASE t.kind = "Nil" -> <<>>
       [] t.kind = "Word" -> <<Marked(t.str, TRUE)>>
       [] t.kind \in {"Qword", "Thunk"} -> <<Marked(t.str, FALSE)>>
       [] t.kind = "Call" -> Quoted(t.value)
       [] t.kind = "Var" ->
            LET names == Text(t.name) lists == [k \in DOMAIN names |-> Value(names[k])] IN
            IF FAILED \in {names} \cup ToSet(lists) THEN MEANSFAILURE ELSE Quoted(FlattenSeq(lists))
       [] t.kind = "Varsub" ->
            LET names == Text(t.name) subs == Text(t.subs) IN
            IF FAILED \in {names, subs} \/ Len(names) # 1 THEN MEANSFAILURE
            ELSE IF Value(names[1]) = FAILED THEN MEANSFAILURE
            ELSE Quoted(Meant(Value(names[1]), subs))
       [] t.kind = "List" ->
            LET a == Meaning(t.head) b == Meaning(t.tail) IN Both(a, b, a \o b)
       [] t.kind = "Concat" ->
            LET a == Meaning(t.left) b == Meaning(t.right) IN
            Both(a, b, [k \in 1 .. Len(a) * Len(b) |->
                          a[(k - 1) \div Len(b) + 1] \o b[((k - 1) % Len(b)) + 1]])

-----------------------------------------------------------------------------
(* The jobs.                                                               *)
Init ==
  /\ out = <<>> /\ SplitInit
  /\ \/ MatchInit
     \/ job \in [kind : {"split"}] \cup [kind : {"glob"}, word : PathPatterns, home : Homes]
              \cup [kind : {"glom"}, tree : Trees, home : Homes]

RunGlob ==
  /\ job.kind = "glob" /\ out = <<>>
  /\ out' = <<glob(<<job.word.str>>, <<job.word.quote>>, job.home)>>
  /\ UNCHANGED job /\ UNCHANGED splitVars

RunGlom ==
  /\ job.kind = "glom" /\ out = <<>>
  /\ out' = <<glom(job.tree, Env, FALSE, job.home), glom(job.tree, Env, TRUE, job.home)>>
  /\ UNCHANGED job /\ UNCHANGED splitVars

RunSplits == job.kind = "split" /\ SplitNext /\ UNCHANGED <<job, out>>

RunMatches == RunMatch /\ UNCHANGED splitVars

Next == RunMatches \/ RunGlob \/ RunGlom \/ RunSplits

Spec == Init /\ [][Next]_<<job, out, splitVars>>

-----------------------------------------------------------------------------
\* A path pattern expands to the sorted names of the files that match it
\* component by component, hidden ones only where the pattern shows the dot,
\* and to itself when there are none; a tilde stands for the home directory.
GlobExact ==
  Done("glob") /\ ~OddClass(Mark(job.word)) => out[1] = Expanded(<<Mark(job.word)>>, job.home)

\* The words of a tree are those it means, and only characters that were
\* written literally and unquoted act as wildcards or as a tilde, through
\* every concatenation and list (the quoting glom2 keeps beside the words).
\* Left out: the names that CountsFromOne is about.
WordsExact ==
  Done("glom") /\ out[1] # ABORT =>
    LET m == Meaning(job.tree) IN
    /\ out[1] = IF m = MEANSFAILURE THEN FAILED ELSE [k \in DOMAIN m |-> Plain(m[k])]
    /\ out[2] = Expanded(m, job.home)

\* var.c: a counting name is "an integer > 0", so that nth is never asked for
\* the element 0 of $*
CountsFromOne == Done("glom") => out[1] # ABORT
=============================================================================
