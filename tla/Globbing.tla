------------------------------ MODULE Globbing ------------------------------
(***************************************************************************)
(* Tilde and wildcard expansion of a list of words (glob.c), with the      *)
(* sorting of list.c and vec.c.                                            *)
(*                                                                         *)
(* The shell runs in the root directory of a small file system: Files are  *)
(* the paths that exist, each a sequence of names; Dirs are those that are *)
(* directories; Closed are the directories that cannot be read.            *)
(***************************************************************************)
EXTENDS Matching, FiniteSetsExt

CONSTANTS Files, Dirs, Closed

ASSUME FilesAssumption ==
  /\ <<>> \in Dirs /\ Closed \subseteq Dirs /\ Dirs \subseteq Files
  /\ \A f \in Files \ {<<>>} : Front(f) \in Dirs

SLASH == "/"
DOT == <<".">>
DOTDOT == <<".", ".">>

\* the names a path is made of
RECURSIVE Names(_)
Names(path) ==
  IF path = <<>> THEN <<>>
  ELSE IF path[1] = SLASH THEN Names(Tail(path))
  ELSE LET stops == {i \in DOMAIN path : path[i] = SLASH} \cup {Len(path) + 1}
       IN  <<SubSeq(path, 1, Min(stops) - 1)>> \o Names(From(path, Min(stops)))

Resolve(path) ==
  FoldLeft(LAMBDA at, name : CASE name = DOT -> at
                               [] name = DOTDOT -> IF at = <<>> THEN at ELSE Front(at)
                               [] OTHER -> Append(at, name),
           <<>>, Names(path))

\* stat and lstat, on paths whose intermediate names are those of directories
IsDir(path) == path # <<>> /\ Resolve(path) \in Dirs
Exists(path) ==
  path # <<>> /\ Resolve(path) \in IF Last(path) = SLASH THEN Dirs ELSE Files

\* opendir and readdir
CanRead(path) == Resolve(path) \notin Closed
Listing(path) ==
  {DOT, DOTDOT} \cup {Last(f) : f \in {f \in Files \ {<<>>} : Front(f) = Resolve(path)}}

\* Fault: only the two names every directory has are hidden.
isdotfile(name) == name \in {DOT, DOTDOT}

ishiddenfile(name) == name[1] = "."

-----------------------------------------------------------------------------
(* sortlist: qsort with strcmp; the order of equal words cannot be seen.   *)
RECURSIVE Before(_, _)
Before(s, t) ==
  /\ t # <<>>
  /\ \/ s = <<>>
     \/ Code(s[1]) < Code(t[1])
     \/ s[1] = t[1] /\ Before(Tail(s), Tail(t))

sortlist(list) == SortSeq(list, Before)

\* dirmatch: the names in a directory that match one component of a pattern
dirmatch(prefix, dir, p, q) ==
  LET found == {name \in Listing(dir) : /\ match(name, p, q)
                                        /\ ishiddenfile(name) => At(p, 1) = "."}
  IN  CASE ~IsDir(dir) -> <<>>
        [] IsDir(dir) /\ ~haswild(p, q) -> IF Exists(prefix \o p) THEN <<prefix \o p>> ELSE <<>>
        [] IsDir(dir) /\ haswild(p, q) ->
             IF CanRead(dir) THEN SetToSeq({prefix \o name : name \in found}) ELSE <<>>

\* listglob: the same, in every directory of a list, whose names get the slashes
listglob(list, p, q, slashes) ==
  FlattenSeq([k \in DOMAIN list |-> dirmatch(list[k] \o slashes, list[k], p, q)])

\* the first position from i on whose character is, or is not, a slash
SlashesEnd(p, i) == Min({k \in i .. Len(p) + 1 : At(p, k) # SLASH})
NameEnd(p, i) == Min({k \in i .. Len(p) + 1 : At(p, k) \in {SLASH, NUL}})

\* glob1: walk down the components of a pattern
RECURSIVE Walk(_, _, _, _)
Walk(matched, p, q, i) ==
  LET name == SlashesEnd(p, i)
      end == NameEnd(p, name)
      next == listglob(matched, SubSeq(p, name, end - 1), SubSeq(q, name, end - 1),
                       SubSeq(p, i, name - 1))
  IN  IF end <= Len(p) /\ next # <<>> THEN Walk(next, p, q, end) ELSE next

glob1(p, quote) ==
  LET q == IF quote = UNQUOTED THEN [i \in DOMAIN p |-> "r"] ELSE quote
      rooted == p[1] = SLASH
      i == IF rooted THEN SlashesEnd(p, 1) ELSE NameEnd(p, 1)
      first == SubSeq(p, 1, i - 1)
      here == dirmatch(<<>>, DOT, first, SubSeq(q, 1, i - 1))
  IN  IF i > Len(p) THEN here ELSE Walk(IF rooted THEN <<first>> ELSE here, p, q, i)

\* glob0: words without wildcards, and patterns that match nothing, stay
OrItself(expansion, word) == IF expansion = <<>> THEN <<word>> ELSE expansion
glob0(list, quotes) ==
  LET Expand(k) ==
        IF quotes[k] = QUOTED \/ ~haswild(list[k], quotes[k]) THEN <<list[k]>>
        ELSE OrItself(sortlist(glob1(list[k], quotes[k])), list[k])
  IN  FlattenSeq([k \in DOMAIN list |-> Expand(k)])

-----------------------------------------------------------------------------
(* Tilde expansion.  home is what the function %home returns for the name  *)
(* after the tilde, NoHome when there is no such function.                 *)
NoHome == <<<<"NoHome">>>>
FAILED == <<<<"FAILED">>>>

hastilde(s, q) == At(s, 1) = "~" /\ ~ISQUOTED(q, 1)

\* expandhome: the new word and its new quoting
expandhome(s, q, home) ==
  LET slash == NameEnd(s, 1)
      rest == From(s, slash)
      flags == IF q = UNQUOTED THEN [i \in DOMAIN rest |-> "r"] ELSE From(q, slash)
      quoted == [i \in DOMAIN home[1] |-> "q"]
  IN  IF home \in {NoHome, <<>>} THEN [str |-> s, quote |-> q]
      ELSE IF rest = <<>> THEN [str |-> home[1], quote |-> QUOTED]
      ELSE [str |-> home[1] \o rest, quote |-> quoted \o flags]

\* the wildcards of words with their quoting, if there is any
globbed(strs, flags) ==
  IF \E k \in DOMAIN strs : flags[k] # QUOTED /\ haswild(strs[k], flags[k])
  THEN glob0(strs, flags) ELSE strs

\* glob: expand the tildes, then the wildcards
glob(list, quotes, home) ==
  LET tilde(k) == quotes[k] # QUOTED /\ hastilde(list[k], quotes[k])
      words == [k \in DOMAIN list |-> IF tilde(k) THEN expandhome(list[k], quotes[k], home)
                                      ELSE [str |-> list[k], quote |-> quotes[k]]]
  IN  IF (\E k \in DOMAIN list : tilde(k)) /\ home # NoHome /\ Len(home) > 1 THEN FAILED
      ELSE globbed([k \in DOMAIN list |-> words[k].str], [k \in DOMAIN list |-> words[k].quote])
=============================================================================
