----------------------------- MODULE Splitting -----------------------------
(***************************************************************************)
(* Splitting text into words (split.c), as $&split and $&fsplit do for the *)
(* words of a list, and a backquote substitution for the chunks it reads   *)
(* from a pipe.                                                            *)
(*                                                                         *)
(* The state that lives between calls is the set of separators, with the   *)
(* cached string it was made from, the word that is being put together,    *)
(* and the words finished so far (newest first).  task records, for the    *)
(* properties, what the caller asked for: the separators, whether empty    *)
(* words count, and the text, in which Break ends a word.                  *)
(***************************************************************************)
EXTENDS Naturals, Sequences, SequencesExt

CONSTANTS
  Seps,      \* the separator strings the callers use
  Chunks,    \* the pieces of text they feed
  MaxText,   \* bound: characters and breaks fed to one split
  CacheSize  \* the size of ifs[]

EOS == "NUL"                \* the terminating zero
Break == "Break"
NoBuffer == <<"NULL">>      \* no buffer is open
NoWords == <<<<"NULL">>>>   \* no split has ended

\* The characters of a text, and what can be in one: neither of the two marks.
CharsOf(w) == {w[i] : i \in DOMAIN w}
Chars == UNION {CharsOf(w) : w \in Seps \cup Chunks}
ASSUME SplittingAssumption ==
  /\ Seps \subseteq Seq(Chars) /\ Chunks \subseteq Seq(Chars)
  /\ Break \notin Chars /\ "NULL" \notin Chars
  /\ MaxText \in Nat /\ CacheSize \in Nat

VARIABLES ifs, ifsvalid, isifs, coalesce, splitchars, buffer, value, task, words

cache == <<ifs, ifsvalid, isifs>>
splitVars == <<ifs, ifsvalid, isifs, coalesce, splitchars, buffer, value, task, words>>

Idle == [active |-> FALSE, sep |-> <<>>, coalesce |-> FALSE, stream |-> FALSE, text |-> <<>>]

SplitInit ==
  /\ ifs = <<>> /\ ifsvalid = FALSE /\ isifs = {}
  /\ coalesce = FALSE /\ splitchars = FALSE /\ buffer = NoBuffer /\ value = <<>>
  /\ task = Idle /\ words = NoWords

-----------------------------------------------------------------------------
\* Fault: a string too long for the cache does not invalidate it.
startlong(sep, coalescef) ==
  /\ value' = <<>>
  /\ buffer' = NoBuffer
  /\ coalesce' = coalescef
  /\ splitchars' = (~coalescef /\ sep = <<>>)
  /\ IF ifsvalid /\ ifs = sep THEN UNCHANGED cache
     ELSE /\ ifsvalid' = TRUE
          /\ ifs' = IF Len(sep) + 1 < CacheSize THEN sep ELSE ifs
          /\ isifs' = CharsOf(sep) \cup {EOS}

\* startsplit: a string too long for the cache leaves it invalid
startsplit(sep, coalescef) ==
  /\ value' = <<>>
  /\ buffer' = NoBuffer
  /\ coalesce' = coalescef
  /\ splitchars' = (~coalescef /\ sep = <<>>)
  /\ IF ifsvalid /\ ifs = sep THEN UNCHANGED cache
     ELSE /\ ifsvalid' = (Len(sep) + 1 < CacheSize)
          /\ ifs' = IF ifsvalid' THEN sep ELSE ifs
          /\ isifs' = CharsOf(sep) \cup {EOS}

\* one character: the buffer and the words it leaves
Fed(st, c) ==
  CASE st.buf # NoBuffer /\ c \in isifs ->
         [buf |-> IF coalesce THEN NoBuffer ELSE <<>>, val |-> <<st.buf>> \o st.val]
    [] st.buf # NoBuffer /\ c \notin isifs -> [st EXCEPT !.buf = Append(@, c)]
    [] st.buf = NoBuffer /\ c \notin isifs -> [st EXCEPT !.buf = <<c>>]
    [] OTHER -> st

\* a word ends: the open buffer becomes a word
Seal(st) == IF st.buf = NoBuffer THEN st ELSE [buf |-> NoBuffer, val |-> <<st.buf>> \o st.val]

splitstring(in, endword) ==
  LET opened == IF ~coalesce /\ buffer = NoBuffer THEN <<>> ELSE buffer
      fed[i \in 0 .. Len(in)] ==
        IF i = 0 THEN [buf |-> opened, val |-> value] ELSE Fed(fed[i - 1], in[i])
      done == IF endword THEN Seal(fed[Len(in)]) ELSE fed[Len(in)]
  IN  IF splitchars
      THEN /\ value' = Reverse([i \in DOMAIN in |-> <<in[i]>>]) \o value
           /\ UNCHANGED buffer
      ELSE /\ buffer' = done.buf
           /\ value' = done.val

endsplit ==
  /\ words' = Reverse(Seal([buf |-> buffer, val |-> value]).val)
  /\ buffer' = NoBuffer
  /\ value' = <<>>

-----------------------------------------------------------------------------
(* The callers: fsplit and the split primitives feed whole words; bqinput  *)
(* feeds chunks as the pipe delivers them.  A signal taken between two     *)
(* chunks abandons the split.                                              *)
StartSplit(sep, c, stream) ==
  /\ ~task.active /\ (stream => c)
  /\ startsplit(sep, c)
  /\ task' = [active |-> TRUE, sep |-> sep, coalesce |-> c, stream |-> stream, text |-> <<>>]
  /\ words' = NoWords

Feed(in) ==
  /\ task.active /\ Len(task.text) + Len(in) < MaxText
  /\ task.stream => in # <<>>
  /\ splitstring(in, ~task.stream)
  /\ task' = [task EXCEPT !.text = @ \o in \o (IF task.stream THEN <<>> ELSE <<Break>>)]
  /\ UNCHANGED <<ifs, ifsvalid, isifs, coalesce, splitchars, words>>

EndSplit ==
  /\ task.active
  /\ endsplit
  /\ task' = [task EXCEPT !.active = FALSE]
  /\ UNCHANGED <<ifs, ifsvalid, isifs, coalesce, splitchars>>

Abandon ==
  /\ task.active /\ task.stream
  /\ task' = Idle /\ words' = NoWords
  /\ UNCHANGED <<ifs, ifsvalid, isifs, coalesce, splitchars, buffer, value>>

SplitNext ==
  \/ \E sep \in Seps, c, stream \in BOOLEAN : StartSplit(sep, c, stream)
  \/ \E in \in Chunks : Feed(in)
  \/ EndSplit
  \/ Abandon

-----------------------------------------------------------------------------
(* What a split promises, whatever the calls before it: the pieces between *)
(* the separators of the text, without the empty ones when they coalesce.  *)

\* s without what is in X
Without(s, X) ==
  LET kept[i \in 0 .. Len(s)] ==
        IF i = 0 THEN <<>>
        ELSE IF s[i] \in X THEN kept[i - 1] ELSE Append(kept[i - 1], s[i])
  IN  kept[Len(s)]

\* The pieces of a text that end at these positions.
Between(text, ends) ==
  [k \in DOMAIN ends |-> SubSeq(text, (IF k = 1 THEN 0 ELSE ends[k - 1]) + 1, ends[k] - 1)]

\* The positions of the stops, in order.
StopsIn(text, stops) == Without([i \in DOMAIN text |-> IF text[i] \in stops THEN i ELSE 0], {0})

\* The end of the text is one too, unless nothing has begun there.
PiecesOf(text, stops) ==
  LET ends == StopsIn(text, stops \cup {Break})
  IN  Between(text, IF text = <<>> \/ Last(text) = Break THEN ends ELSE Append(ends, Len(text) + 1))

Promised(j) ==
  LET pieces == PiecesOf(j.text, CharsOf(j.sep) \cup {EOS})
      letters == Without(j.text, {Break})
  IN  IF j.coalesce THEN Without(pieces, {<<>>})
      ELSE IF j.sep = <<>> THEN [k \in DOMAIN letters |-> <<letters[k]>>]
      ELSE pieces

\* A split returns the pieces of the text by its own separators: not those of
\* an earlier split (the cache), nor the rest of an abandoned one, and however
\* the pipe has cut the text into chunks.
SplitExact == words # NoWords => words = Promised(task)

SplitSpec == SplitInit /\ [][SplitNext]_splitVars
=============================================================================
